----------------------------- MODULE Documents ------------------------------
(***************************************************************************)
(* Files being edited in the web client (GitnaReviewUI.tsx with the tabs of *)
(* repository.tsx and the documents of documents.ts): tabs, the live editor, *)
(* baselines and drafts by path, saves with an expected hash, the dialogs    *)
(* that close dirty tabs, Save As, a rename, and the reads that fill the     *)
(* editor.  A file's hash stands for its text.                               *)
(*                                                                         *)
(* A step is a piece of code between two awaits.  A dialog is modal: nothing *)
(* else is typed or clicked while it is open, but the work it started goes   *)
(* on when it is dismissed.                                                  *)
(***************************************************************************)
EXTENDS Naturals, Sequences, SequencesExt

CONSTANTS
  Files,       \* paths in the folder
  OnDisk,      \* the files that exist at first, empty
  Untitled,    \* the path of the one document that has no file yet
  Texts,       \* what a file may hold
  Empty,       \* the empty text
  No,          \* neither a path nor a text
  MaxActs      \* bound on what the user and other programs do

ASSUME DocumentsAssumption ==
  /\ Untitled \notin Files /\ OnDisk \subseteq Files /\ Empty \in Texts
  /\ No \notin Texts \union Files \union {Untitled}

Paths == Files \union {Untitled}
NoOp == [state |-> "none"]
NoLoad == [path |-> No]
NoPrompt == [paths |-> <<>>, dirty |-> {}]

VARIABLES
  disk,      \* a file's text, or No
  tabs,      \* open paths in order, and the current one
  edits,     \* baselines, drafts, the untitled document, what the editor shows
  loads,     \* the current read and a superseded one
  op,        \* the one operation on the folder that is under way
  dialog,    \* pendingTabClose, pendingUntitledSaveAs and the work they started
  ghost      \* what was typed and not given up, what the disk has held, bounds

docVars == <<disk, tabs, edits, loads, op, dialog, ghost>>

(***************************************************************************)
(* Reads: the effect on the review target                                   *)
(***************************************************************************)

\* A read of p begins; the one before loses its say, but not its answer.
Begun(p) ==
  IF p = No THEN <<NoLoad, loads[1]>>
  ELSE <<[path |-> p, state |-> "sent", text |-> No],
         IF loads[1] # NoLoad /\ loads[1].state # "ended" THEN loads[1] ELSE loads[2]>>

\* No dialog is open, and there is something left to do.
CanAct == ghost.acts < MaxActs
Idle == CanAct /\ dialog.prompt = NoPrompt /\ dialog.saveAs = No
Acted == [ghost EXCEPT !.acts = @ + 1]

\* A new generation: the current file is read again.
Reload ==
  /\ CanAct /\ tabs.current # No /\ loads' = Begun(tabs.current)
  /\ ghost' = Acted
  /\ UNCHANGED <<disk, tabs, edits, op, dialog>>

ReadFile(i) ==
  /\ loads[i] # NoLoad /\ loads[i].state = "sent"
  /\ loads' = [loads EXCEPT ![i] =
       [path |-> loads[i].path, state |-> "served",
        text |-> IF loads[i].path = Untitled THEN edits.doc ELSE disk[loads[i].path]]]
  /\ UNCHANGED <<disk, tabs, edits, op, dialog, ghost>>

\* The text the editor would start from.
Adapted(e, p) == IF e.draft[p] # No THEN e.draft[p] ELSE e.base[p]

\* A live editor of the same file is not touched.
Mounted(e, p) == IF e.shown.path = p THEN e
                 ELSE [e EXCEPT !.shown = [path |-> p, text |-> Adapted(e, p)]]

\* An answer sets the baseline of a file without a draft, and of an untitled
\* document always, even when the read is not the current one any more.
LoadArrives(i) ==
  LET l == loads[i]
      known == IF l.path = Untitled \/ edits.draft[l.path] = No
               THEN [edits EXCEPT !.base[l.path] = l.text] ELSE edits
  IN  /\ l # NoLoad /\ l.state = "served" /\ l.text # No
      /\ edits' = IF i = 1 THEN Mounted(known, l.path) ELSE known
      /\ loads' = [loads EXCEPT ![i] = IF i = 1 THEN [@ EXCEPT !.state = "ended"] ELSE NoLoad]
      /\ UNCHANGED <<disk, tabs, op, dialog, ghost>>

\* A file that cannot be read shows its draft; without one, an error.
LoadFails(i) ==
  LET l == loads[i]
  IN  /\ l # NoLoad /\ l.state = "served" /\ l.text = No
      /\ edits' = IF i = 2 THEN edits
                  ELSE IF l.path # Untitled /\ edits.draft[l.path] # No /\ edits.base[l.path] # No
                  THEN Mounted(edits, l.path)
                  ELSE IF edits.shown.path = l.path THEN edits
                  ELSE [edits EXCEPT !.shown = [path |-> No, text |-> No]]
      /\ loads' = [loads EXCEPT ![i] = IF i = 1 THEN [@ EXCEPT !.state = "ended"] ELSE NoLoad]
      /\ UNCHANGED <<disk, tabs, op, dialog, ghost>>

(***************************************************************************)
(* Tabs                                                                    *)
(***************************************************************************)

TabOpened(t, p) == [open |-> IF p \in ToSet(t.open) THEN t.open ELSE Append(t.open, p),
                 current |-> p]

SelectRepositoryFile(p) ==
  /\ Idle /\ p # tabs.current
  /\ p \in ToSet(tabs.open) \/ (p \in Files /\ disk[p] # No)
  /\ tabs' = TabOpened(tabs, p)
  /\ loads' = Begun(p)
  /\ ghost' = Acted
  /\ UNCHANGED <<disk, edits, op, dialog>>

\* createUntitledDocument.
NewUntitled ==
  /\ Idle /\ edits.doc = No /\ ~ghost.created
  /\ edits' = [edits EXCEPT !.doc = Empty]
  /\ tabs' = TabOpened(tabs, Untitled)
  /\ loads' = Begun(Untitled)
  /\ ghost' = [Acted EXCEPT !.created = TRUE, !.typed[Untitled] = {}]
  /\ UNCHANGED <<disk, op, dialog>>

\* closeRepositoryFiles of the store: the next tab to the right is shown, or
\* else the one to the left.
Closing(t, ps) ==
  LET left == SelectSeq(t.open, LAMBDA p : p \notin ps)
      at == CHOOSE i \in DOMAIN t.open : t.open[i] = t.current
      right == SelectSeq(SubSeq(t.open, at + 1, Len(t.open)), LAMBDA p : p \notin ps)
      before == SelectSeq(SubSeq(t.open, 1, at - 1), LAMBDA p : p \notin ps)
  IN  [open |-> left,
       current |-> IF t.current = No \/ t.current \notin ps THEN t.current
                   ELSE IF right # <<>> THEN Head(right)
                   ELSE IF before # <<>> THEN before[Len(before)] ELSE No]

Closed(ps) ==
  /\ tabs' = Closing(tabs, ps)
  /\ loads' = IF tabs'.current = tabs.current THEN loads ELSE Begun(tabs'.current)

Forget(e, ps) == IF Untitled \in ps THEN [e EXCEPT !.doc = No] ELSE e
Emptied(e) == IF tabs'.current = No THEN [e EXCEPT !.shown = [path |-> No, text |-> No]] ELSE e

\* closeRepositoryFiles of the shell, from a tab or its menu: dirty tabs ask.
CloseTabs(ps) ==
  LET dirty == {p \in ps : edits.draft[p] # No}
  IN  /\ Idle /\ ps # {} /\ ps \subseteq ToSet(tabs.open)
      /\ IF dirty # {}
         THEN /\ dialog' = [dialog EXCEPT !.prompt =
                              [paths |-> SelectSeq(tabs.open, LAMBDA p : p \in ps),
                               dirty |-> dirty]]
              /\ UNCHANGED <<tabs, loads, edits>>
         ELSE /\ Closed(ps)
              /\ edits' = Emptied(Forget(edits, ps))
              /\ UNCHANGED dialog
      /\ ghost' = Acted
      /\ UNCHANGED <<disk, op>>

\* RepositoryFileTabs: a tab per open path, with a dot when it has a draft.
TabStrip == [i \in DOMAIN tabs.open |->
               [path |-> tabs.open[i], active |-> tabs.open[i] = tabs.current,
                dirty |-> edits.draft[tabs.open[i]] # No]]

\* What tab i's button and menu close: itself, the others, those to the left or
\* to the right, the clean ones, all.
MenuCloses(i) ==
  LET paths(P(_)) == {TabStrip[j].path : j \in {k \in DOMAIN TabStrip : P(k)}}
  IN  {paths(LAMBDA k : k = i), paths(LAMBDA k : k # i), paths(LAMBDA k : k < i),
       paths(LAMBDA k : k > i), paths(LAMBDA k : ~TabStrip[k].dirty), paths(LAMBDA k : TRUE)}

(***************************************************************************)
(* Typing and saving                                                       *)
(***************************************************************************)

Saving(p) == op # NoOp /\ op.kind = "save" /\ op.path = p

\* handleWorktreeEditChange: back at the baseline there is no draft, unless the
\* file is being saved.
Type(text) ==
  LET p == edits.shown.path
  IN  /\ Idle /\ p # No /\ text # edits.shown.text
      /\ edits' = [edits EXCEPT !.shown.text = text,
                     !.doc = IF p = Untitled /\ @ # No THEN text ELSE @,
                     !.draft[p] = IF ~Saving(p) /\ edits.base[p] = text THEN No ELSE text]
      /\ ghost' = [Acted EXCEPT !.typed[p] = {edits'.draft[p]} \ {No}]
      /\ UNCHANGED <<disk, tabs, loads, op, dialog>>

CanSave(p) == op = NoOp /\ edits.base[p] # No /\ edits.draft[p] # No

SaveOf(p) == [state |-> "sent", kind |-> "save", path |-> p, to |-> p,
              text |-> edits.draft[p], hash |-> edits.base[p]]

\* requestSave.
RequestSave(p) ==
  /\ Idle /\ p = tabs.current /\ p # No
  /\ IF p = Untitled
     THEN dialog' = [dialog EXCEPT !.saveAs = p] /\ UNCHANGED op
     ELSE CanSave(p) /\ op' = SaveOf(p) /\ UNCHANGED dialog
  /\ ghost' = Acted
  /\ UNCHANGED <<disk, tabs, edits, loads>>

Written(p, text) ==
  /\ disk' = [disk EXCEPT ![p] = text]
  /\ ghost' = [ghost EXCEPT !.held[p] = @ \union {text}]

\* WriteWorktreeFile, CreateWorktreeFile, and the rename of an entry.
Serve ==
  /\ op # NoOp /\ op.state = "sent"
  /\ \/ /\ op.kind = "save" /\ op.path \in Files /\ disk[op.path] = op.hash
        /\ Written(op.path, op.text)
        /\ op' = [op EXCEPT !.state = "done"]
     \/ /\ op.kind = "create" /\ disk[op.to] = No
        /\ Written(op.to, op.text)
        /\ op' = [op EXCEPT !.state = "done"]
     \/ /\ op.kind = "rename" /\ disk[op.path] # No /\ disk[op.to] = No /\ UNCHANGED ghost
        /\ disk' = [disk EXCEPT ![op.to] = disk[op.path], ![op.path] = No]
        /\ op' = [op EXCEPT !.state = "done"]
     \/ op' = [op EXCEPT !.state = "refused"] /\ UNCHANGED <<disk, ghost>>
  /\ UNCHANGED <<tabs, edits, loads, dialog>>

\* As it would be if an answered save took the draft with it.
AcknowledgedWhole(p, text) == [edits EXCEPT !.base[p] = text, !.draft[p] = No]

\* The answer of a save: the baseline is what was sent, and a draft goes only
\* if it is what was sent.
Acknowledged(p, text) ==
  [edits EXCEPT !.base[p] = text, !.draft[p] = IF @ = text THEN No ELSE @]

\* However it ended, a draft that is the baseline again goes.
Refused(p) == [edits EXCEPT !.draft[p] = IF @ = edits.base[p] THEN No ELSE @]

SaveEnds ==
  /\ op # NoOp /\ op.kind = "save" /\ op.state \in {"done", "refused"}
  /\ edits' = IF op.state = "done" THEN Acknowledged(op.path, op.text) ELSE Refused(op.path)
  /\ op' = NoOp
  /\ dialog' = IF dialog.saver = <<>> \/ Head(dialog.saver) # op.path THEN dialog
               ELSE IF edits'.draft[op.path] # No THEN [dialog EXCEPT !.saver = <<>>, !.of = NoPrompt]
               ELSE [dialog EXCEPT !.saver = Tail(@)]
  /\ UNCHANGED <<disk, tabs, loads, ghost>>

(***************************************************************************)
(* The dialog that closes dirty tabs                                       *)
(***************************************************************************)

\* savePendingTabs: an untitled document is saved under a name first, then the
\* files are saved one after another.
SavePendingTabs ==
  /\ dialog.prompt # NoPrompt /\ dialog.saveAs = No /\ op = NoOp
  /\ dialog.saver = <<>> /\ dialog.of = NoPrompt
  /\ dialog' = IF Untitled \in dialog.prompt.dirty
               THEN [dialog EXCEPT !.saveAs = Untitled]
               ELSE [dialog EXCEPT !.saver = dialog.prompt.paths, !.of = dialog.prompt]
  /\ UNCHANGED <<disk, tabs, edits, loads, op, ghost>>

\* One turn of the loop; a save that cannot start ends it.
SaveNext ==
  /\ dialog.saver # <<>>
  /\ LET p == Head(dialog.saver)
     IN  /\ ~Saving(p)
         /\ IF edits.draft[p] = No
            THEN dialog' = [dialog EXCEPT !.saver = Tail(@)] /\ UNCHANGED op
            ELSE IF CanSave(p) THEN op' = SaveOf(p) /\ UNCHANGED dialog
            ELSE dialog' = [dialog EXCEPT !.saver = <<>>, !.of = NoPrompt] /\ UNCHANGED op
  /\ UNCHANGED <<disk, tabs, edits, loads, ghost>>

\* After the loop: nothing closes while any of the tabs has a draft.
SavedPendingTabs ==
  LET ps == ToSet(dialog.of.paths)
      dirty == \E p \in ps : edits.draft[p] # No
  IN  /\ dialog.of # NoPrompt /\ dialog.saver = <<>>
      /\ dialog' = [dialog EXCEPT !.of = NoPrompt, !.prompt = IF dirty THEN @ ELSE NoPrompt]
      /\ IF dirty THEN UNCHANGED <<tabs, loads, edits>>
         ELSE Closed(ps) /\ edits' = Emptied(Forget(edits, ps))
      /\ UNCHANGED <<disk, op, ghost>>

\* discardPendingTabs: the backup of an untitled document is deleted first
\* (this may fail), then the drafts go and the tabs close.
DiscardPendingTabs ==
  /\ dialog.prompt # NoPrompt /\ dialog.saveAs = No /\ dialog.discards = NoPrompt
  /\ dialog' = [dialog EXCEPT !.discards = dialog.prompt]
  /\ UNCHANGED <<disk, tabs, edits, loads, op, ghost>>

DiscardEnds ==
  LET d == dialog.discards
  IN  /\ d # NoPrompt
      /\ \/ /\ dialog' = [dialog EXCEPT !.discards = NoPrompt, !.prompt = NoPrompt]
            /\ Closed(ToSet(d.paths))
            /\ edits' = Emptied(Forget([edits EXCEPT !.draft =
                 [p \in Paths |-> IF p \in d.dirty THEN No ELSE edits.draft[p]]], ToSet(d.paths)))
            /\ ghost' = [ghost EXCEPT !.typed =
                 [p \in Paths |-> IF p \in d.dirty THEN {} ELSE ghost.typed[p]]]
         \/ /\ Untitled \in d.dirty
            /\ dialog' = [dialog EXCEPT !.discards = NoPrompt]
            /\ UNCHANGED <<tabs, loads, edits, ghost>>
      /\ UNCHANGED <<disk, op>>

\* A dialog is dismissed, whatever it started.
Cancel ==
  /\ dialog.prompt # NoPrompt \/ dialog.saveAs # No
  /\ dialog' = IF dialog.saveAs # No THEN [dialog EXCEPT !.saveAs = No]
               ELSE [dialog EXCEPT !.prompt = NoPrompt]
  /\ ghost' = [ghost EXCEPT !.dismissed = @ \/ op # NoOp \/ dialog.discards # NoPrompt]
  /\ UNCHANGED <<disk, tabs, edits, loads, op>>

(***************************************************************************)
(* Save As, and renames                                                    *)
(***************************************************************************)

SubmitSaveAs(to) ==
  /\ dialog.saveAs = Untitled /\ op = NoOp /\ edits.doc # No
  /\ op' = [state |-> "sent", kind |-> "create", path |-> Untitled, to |-> to,
            text |-> edits.doc, closing |-> dialog.prompt]
  /\ UNCHANGED <<disk, tabs, edits, loads, dialog, ghost>>

Rebound(t, from, to) ==
  [open |-> [i \in DOMAIN t.open |-> IF t.open[i] = from THEN to ELSE t.open[i]],
   current |-> IF t.current = from THEN to ELSE t.current]

\* saveUntitledDocument's answer, then onSaved: the tab has the new path, the
\* draft is gone, and what was being closed (when Save As was submitted) closes.
SaveAsEnds ==
  LET was == op.closing
      rebound == Rebound(tabs, Untitled, op.to)
      rest == was.dirty \ {Untitled}
      others == SelectSeq(was.paths, LAMBDA p : p # Untitled)
      closing == IF was = NoPrompt THEN {}
                 ELSE {op.to} \union (IF rest = {} THEN ToSet(others) ELSE {})
  IN  /\ op # NoOp /\ op.kind = "create" /\ op.state = "done"
      /\ tabs' = Closing(rebound, closing)
      /\ loads' = IF tabs'.current = tabs.current THEN loads ELSE Begun(tabs'.current)
      /\ edits' = Emptied([edits EXCEPT !.base = [@ EXCEPT ![Untitled] = No, ![op.to] = op.text],
                             !.draft[Untitled] = No, !.doc = No])
      /\ dialog' = [dialog EXCEPT !.saveAs = No,
                      !.prompt = IF was = NoPrompt THEN @ ELSE IF rest = {} THEN NoPrompt
                                 ELSE [paths |-> others, dirty |-> rest]]
      /\ op' = NoOp
      /\ ghost' = [ghost EXCEPT !.typed[op.to] = @ \union ghost.typed[Untitled],
                     !.typed[Untitled] = {}]
      /\ UNCHANGED disk

OpRefused ==
  /\ op # NoOp /\ op.kind \in {"create", "rename"} /\ op.state = "refused"
  /\ op' = NoOp
  /\ UNCHANGED <<disk, tabs, edits, loads, dialog, ghost>>

\* renameWorktreeEntry, from the Explorer.
Rename(from, to) ==
  /\ Idle /\ op = NoOp /\ from # to /\ disk[from] # No
  /\ op' = [state |-> "sent", kind |-> "rename", path |-> from, to |-> to]
  /\ ghost' = Acted
  /\ UNCHANGED <<disk, tabs, edits, loads, dialog>>

\* What f, a map from paths, becomes: where two entries meet, the one that was
\* set last in the map stays.
Moved(f, from, to) ==
  IF f[from] = No THEN {f}
  ELSE {[f EXCEPT ![to] = kept, ![from] = No] : kept \in {f[from], f[to]} \ {No}}

RenameEnds ==
  /\ op # NoOp /\ op.kind = "rename" /\ op.state = "done"
  /\ tabs' = Rebound(tabs, op.path, op.to)
  /\ \E bases \in Moved(edits.base, op.path, op.to), drafts \in Moved(edits.draft, op.path, op.to) :
       edits' = [edits EXCEPT !.base = bases, !.draft = drafts]
  /\ loads' = IF tabs'.current = tabs.current THEN loads ELSE Begun(tabs'.current)
  /\ ghost' = [ghost EXCEPT !.typed[op.to] = @ \union ghost.typed[op.path],
                 !.typed[op.path] = {},
                 !.held[op.to] = @ \union ghost.held[op.path],
                 !.met = @ \/ (edits.draft[op.path] # No /\ edits.draft[op.to] # No)]
  /\ op' = NoOp
  /\ UNCHANGED <<disk, dialog>>

\* Another program writes or deletes a file.
OutsideChange(p, text) ==
  /\ CanAct /\ disk[p] # text
  /\ disk' = [disk EXCEPT ![p] = text]
  /\ ghost' = [Acted EXCEPT !.held[p] = @ \union (IF text = No THEN {} ELSE {text})]
  /\ UNCHANGED <<tabs, edits, loads, op, dialog>>

DocumentsInit ==
  /\ disk = [p \in Files |-> IF p \in OnDisk THEN Empty ELSE No]
  /\ tabs = [open |-> <<>>, current |-> No]
  /\ edits = [base |-> [p \in Paths |-> No], draft |-> [p \in Paths |-> No], doc |-> No,
              shown |-> [path |-> No, text |-> No]]
  /\ loads = <<NoLoad, NoLoad>>
  /\ op = NoOp
  /\ dialog = [prompt |-> NoPrompt, saveAs |-> No, saver |-> <<>>, of |-> NoPrompt,
               discards |-> NoPrompt]
  /\ ghost = [typed |-> [p \in Paths |-> {}],
              held |-> [p \in Files |-> IF p \in OnDisk THEN {Empty} ELSE {}],
              acts |-> 0, created |-> FALSE, dismissed |-> FALSE, met |-> FALSE]

\* The loop goes on as soon as the save it waits for has ended.
LoopRuns == /\ dialog.of # NoPrompt
            /\ dialog.saver = <<>> \/ ~Saving(Head(dialog.saver))

HandlerOrAnswer ==
  \/ Reload \/ NewUntitled \/ Serve \/ SaveEnds \/ SavePendingTabs
  \/ DiscardPendingTabs \/ DiscardEnds \/ Cancel \/ SaveAsEnds \/ OpRefused \/ RenameEnds
  \/ \E i \in {1, 2} : ReadFile(i) \/ LoadArrives(i) \/ LoadFails(i)
  \/ \E p \in Paths : SelectRepositoryFile(p) \/ RequestSave(p)
  \/ \E i \in DOMAIN tabs.open : \E ps \in MenuCloses(i) : CloseTabs(ps)
  \/ \E t \in Texts : Type(t)
  \/ \E p \in Files : SubmitSaveAs(p) \/ \E q \in Files : Rename(p, q)
  \/ \E p \in Files, t \in Texts \union {No} : OutsideChange(p, t)

DocumentsNext == IF LoopRuns THEN SaveNext \/ SavedPendingTabs ELSE HandlerOrAnswer

(***************************************************************************)
(* What must hold                                                          *)
(***************************************************************************)

\* What was typed into a file is in its draft or has been in the file, whatever
\* saves, renames, closes, reloads and other programs did since: an answer to
\* an older save must not count newer text as saved (requestSave), and a prompt
\* that saves, discards or cancels must not drop what it did not ask about.
\* A document whose Save As was dismissed while it ran is excepted: its answer
\* drops the draft (onSaved); so are two files with drafts that a rename makes
\* one, when the first one was deleted by another program: the effect on
\* worktreeRename keeps one of the two drafts.
TypedIsKept ==
  \A p \in Files : ~ghost.dismissed /\ ~ghost.met =>
    \A text \in ghost.typed[p] : text \in ghost.held[p] \/ edits.draft[p] = text

=============================================================================
