---------------------------- MODULE FolderPicker ----------------------------
(***************************************************************************)
(* The recent folders of the web client: the list that repository.tsx reads  *)
(* and edits, the folder combobox of DiffsHubHeader.tsx and the list of      *)
(* GitnaHome.tsx, of which one is mounted at a time.                         *)
(*                                                                         *)
(* A query stands for the set of folders whose name or path contains it.     *)
(* What an effect sets is part of the step that made React run it.           *)
(***************************************************************************)
EXTENDS Integers, Sequences, FiniteSets, SequencesExt

CONSTANTS
  RecentFolders,   \* the folders that may be in the catalog
  FirstRecents,    \* those that are, most recent first
  CurrentFolder,   \* the one that is open
  MaxPicks         \* bound on what users and reads do

\* A catalog has a folder once at most.
RecentLists == {s \in Seq(RecentFolders) : \A i, j \in DOMAIN s : s[i] = s[j] => i = j}

ASSUME PickerAssumption == FirstRecents \in RecentLists

NoFolder == [kind |-> "none"]
NoListing == [at |-> "none", list |-> <<>>, removal |-> FALSE]
Quiet == [open |-> FALSE, all |-> TRUE, query |-> {}, active |-> 0, error |-> FALSE]

VARIABLES
  recents,    \* the server's catalog, most recent first
  shown,      \* repository.folders, foldersError and foldersLoading
  listings,   \* the read that counts and one that was superseded
  place,      \* which of the two lists is mounted
  form,       \* the combobox, or Home's search box
  pick,       \* the folder being switched to, and the row's action under way
  rowFocus,   \* the row that has the focus, 0 for none
  picks       \* bound, and the folders removed and not recorded since

pickerVars == <<recents, shown, listings, place, form, pick, rowFocus, picks>>

Counted1 == [picks EXCEPT !.count = @ + 1]
MayPick == picks.count < MaxPicks

\* The places in the list of the folders offered: all but the open one, or those that
\* match the query; how many there are, and the folder of the i-th row.
Offered(s, f) == {p \in DOMAIN s.list : s.list[p] # CurrentFolder /\ (f.all \/ s.list[p] \in f.query)}
OfferedRows(s, f) == Cardinality(Offered(s, f))
FolderAt(s, f, i) ==
  s.list[CHOOSE p \in Offered(s, f) : Cardinality({q \in Offered(s, f) : q <= p}) = i]

\* The list without a folder.
Without(s, f) ==
  IF \E i \in DOMAIN s : s[i] = f THEN RemoveAt(s, CHOOSE i \in DOMAIN s : s[i] = f) ELSE s

\* The highlighted row stays within the list.
Clamped(s, f) ==
  [f EXCEPT !.active = IF @ > OfferedRows(s, f) THEN OfferedRows(s, f) ELSE @]

Lists(s) == shown' = s /\ form' = Clamped(s, form)

(***************************************************************************)
(* The list                                                                *)
(***************************************************************************)

\* Another tab or process opens a folder: it comes first.
Recorded(f) ==
  /\ MayPick /\ recents' = <<f>> \o Without(recents, f)
  /\ picks' = [Counted1 EXCEPT !.gone = @ \ {f}]
  /\ UNCHANGED <<shown, listings, place, form, pick, rowFocus>>

\* refreshFolders: the read before is superseded (at most one such is kept).
Superseding(removal) ==
  /\ listings.now = NoListing \/ listings.old = NoListing
  /\ listings' = [now |-> [at |-> "sent", list |-> <<>>, removal |-> removal],
                  old |-> IF listings.now = NoListing THEN listings.old ELSE listings.now]

RefreshFolders ==
  /\ MayPick /\ picks' = Counted1
  /\ Superseding(FALSE)
  /\ shown' = [shown EXCEPT !.loading = TRUE, !.failed = FALSE]
  /\ UNCHANGED <<recents, place, form, pick, rowFocus>>

ListIsRead(i) ==
  /\ listings[i].at = "sent"
  /\ listings' = [listings EXCEPT ![i].at = "served", ![i].list = recents]
  /\ UNCHANGED <<recents, shown, place, form, pick, rowFocus, picks>>

\* removeRecentFolder returns when the read it made is answered; then Home
\* moves the focus to the row that took the removed one's place.
AfterRemoval(read, s) ==
  LET rows == OfferedRows(s, form)
  IN  IF read.removal
      THEN /\ pick' = [pick EXCEPT !.action = NoFolder]
           /\ rowFocus' = IF place # "home" THEN 0
                          ELSE IF pick.action.row <= rows THEN pick.action.row ELSE rows
      ELSE UNCHANGED <<pick, rowFocus>>

ListArrives(ok) ==
  LET s == IF ok THEN [list |-> listings.now.list, failed |-> FALSE, loading |-> FALSE]
           ELSE [shown EXCEPT !.failed = TRUE, !.loading = FALSE]
  IN  /\ listings.now.at = "served" /\ Lists(s) /\ AfterRemoval(listings.now, s)
      /\ listings' = [listings EXCEPT !.now = NoListing]
      /\ UNCHANGED <<recents, place, picks>>

SupersededListArrives ==
  /\ listings.old.at = "served"
  /\ listings' = [listings EXCEPT !.old = NoListing]
  /\ AfterRemoval(listings.old, shown)
  /\ UNCHANGED <<recents, shown, place, form, picks>>

(***************************************************************************)
(* The forms                                                               *)
(***************************************************************************)

\* The other of the two lists is mounted, with a form of its own; only tried while
\* no action of a row is under way.
GoTo(p) ==
  /\ MayPick /\ place # p /\ place' = p
  /\ form' = Quiet /\ rowFocus' = 0 /\ picks' = Counted1
  /\ pick.to = NoFolder /\ pick.action = NoFolder
  /\ UNCHANGED <<recents, shown, listings, pick>>

FocusForm ==
  /\ MayPick /\ ~form.open /\ form' = [form EXCEPT !.open = TRUE, !.all = form.query = {}]
  /\ picks' = Counted1
  /\ UNCHANGED <<recents, shown, listings, place, pick, rowFocus>>

TypeFolder(q) ==
  /\ MayPick /\ pick.to = NoFolder /\ picks' = Counted1
  /\ form' = [open |-> TRUE, all |-> FALSE, query |-> q, active |-> 0, error |-> FALSE]
  /\ UNCHANGED <<recents, shown, listings, place, pick, rowFocus>>

Arrow(d) ==
  LET n == OfferedRows(shown, form)
  IN  /\ MayPick /\ n > 0 /\ picks' = Counted1
      /\ form' = [form EXCEPT !.open = TRUE,
                    !.active = IF @ = 0 THEN (IF d = 1 THEN 1 ELSE n)
                               ELSE ((@ - 1 + d + n) % n) + 1]
      /\ UNCHANGED <<recents, shown, listings, place, pick, rowFocus>>

\* Escape, or the focus leaves the form.
LeaveForm ==
  /\ form.open /\ form' = Quiet
  /\ UNCHANGED <<recents, shown, listings, place, pick, rowFocus, picks>>

\* A row is clicked, or Enter takes the highlighted one.
SwitchFolder(i) ==
  /\ MayPick /\ i \in 1..OfferedRows(shown, form) /\ pick.to = NoFolder
  /\ ~(pick.action # NoFolder /\ pick.action.folder = FolderAt(shown, form, i))
  /\ pick' = [pick EXCEPT !.to = [kind |-> "switch", folder |-> FolderAt(shown, form, i)]]
  /\ form' = [form EXCEPT !.error = FALSE, !.open = FALSE, !.active = 0]
  /\ picks' = Counted1
  /\ UNCHANGED <<recents, shown, listings, place, rowFocus>>

SwitchEnds(ok) ==
  /\ pick.to # NoFolder
  /\ pick' = [pick EXCEPT !.to = NoFolder]
  /\ form' = [form EXCEPT !.error = ~ok]
  /\ UNCHANGED <<recents, shown, listings, place, rowFocus, picks>>

\* "Open in New Tab" or "Remove from Recent" of a row, one at a time.
RunFolderAction(kind, i) ==
  /\ MayPick /\ i \in 1..OfferedRows(shown, form)
  /\ pick.action = NoFolder /\ pick.to = NoFolder
  /\ pick' = [pick EXCEPT !.action = [kind |-> kind, folder |-> FolderAt(shown, form, i), row |-> i]]
  /\ picks' = Counted1
  /\ UNCHANGED <<recents, shown, listings, place, form, rowFocus>>

RemovalIsServed ==
  /\ pick.action.kind = "remove"
  /\ recents' = Without(recents, pick.action.folder)
  /\ pick' = [pick EXCEPT !.action.kind = "removed"]
  /\ picks' = [picks EXCEPT !.gone = @ \union {pick.action.folder}]
  /\ UNCHANGED <<shown, listings, place, form, rowFocus>>

\* The folder is taken off the list, and the list is read again.
RemovalArrives ==
  LET s == [list |-> Without(shown.list, pick.action.folder), failed |-> FALSE, loading |-> TRUE]
  IN  /\ pick.action.kind = "removed"
      /\ Lists(s)
      /\ pick' = [pick EXCEPT !.action.kind = "refreshing"]
      /\ Superseding(TRUE)
      /\ UNCHANGED <<recents, place, rowFocus, picks>>

FolderActionFails ==
  /\ pick.action.kind \in {"remove", "new-tab"}
  /\ pick' = [pick EXCEPT !.action = NoFolder]
  /\ form' = [form EXCEPT !.error = TRUE]
  /\ UNCHANGED <<recents, shown, listings, place, rowFocus, picks>>

NewTabOpens ==
  /\ pick.action.kind = "new-tab"
  /\ pick' = [pick EXCEPT !.action = NoFolder]
  /\ UNCHANGED <<recents, shown, listings, place, form, rowFocus, picks>>

(***************************************************************************)
(* The specification                                                       *)
(***************************************************************************)

PickerInit ==
  /\ recents = FirstRecents
  /\ shown = [list |-> <<>>, failed |-> FALSE, loading |-> TRUE]
  /\ listings = [now |-> [NoListing EXCEPT !.at = "sent"], old |-> NoListing]
  /\ place \in {"home", "header"} /\ form = Quiet
  /\ pick = [to |-> NoFolder, action |-> NoFolder]
  /\ rowFocus = 0 /\ picks = [count |-> 0, gone |-> {}]

PickerNext ==
  \/ RefreshFolders \/ SupersededListArrives \/ FocusForm \/ LeaveForm
  \/ RemovalIsServed \/ RemovalArrives \/ FolderActionFails \/ NewTabOpens
  \/ \E f \in RecentFolders : Recorded(f)
  \/ \E i \in {"now", "old"} : ListIsRead(i)
  \/ \E ok \in BOOLEAN : ListArrives(ok) \/ SwitchEnds(ok)
  \/ \E p \in {"home", "header"} : GoTo(p)
  \/ \E q \in SUBSET RecentFolders : TypeFolder(q)
  \/ \E d \in {-1, 1} : Arrow(d)
  \/ \E i \in 1..Cardinality(RecentFolders) :
       SwitchFolder(i) \/ \E kind \in {"remove", "new-tab"} : RunFolderAction(kind, i)

(***************************************************************************)
(* What must hold                                                          *)
(***************************************************************************)

\* A folder whose removal has been answered is not offered again unless it was
\* recorded since, though the list it was in may still be read: a read that is
\* older than the removal is superseded by the one that follows it
\* (refreshFolders, removeRecentFolder).  The active row is a row of the list.
RemovedIsNotListed ==
  /\ \A f \in picks.gone : f \in ToSet(shown.list) =>
        pick.action.kind = "removed" /\ pick.action.folder = f
  /\ form.active \in 0..OfferedRows(shown, form)

=============================================================================
