--------------------------- MODULE SourceControl ----------------------------
(***************************************************************************)
(* The operations of the Source Control pane (SourceControlWorkflow.tsx and   *)
(* the operations of repository.tsx): what each does to the repository, the   *)
(* reads that follow it, its dialogs and questions, and what is shown when it *)
(* fails or when its fate is unknown.                                         *)
(*                                                                         *)
(* The connection is up.  A list is read at the moment its answer arrives,    *)
(* and the lists read after a mutation arrive together or fail together; the  *)
(* order of reads of one list is LatestReads.  Merge stands for every operation that git can    *)
(* stop in the middle; a stash is a number.                                   *)
(***************************************************************************)
EXTENDS Naturals, Sequences, FiniteSets, SequencesExt

CONSTANTS
  ChangedFiles,    \* files of the repository
  Sessions,        \* sets of operations: the user keeps to those of one
  MaxSteps,        \* bound on what the user does
  MaxMeddles       \* bound on what other programs do

ListNames == {"snapshot", "graph", "branches", "stashes", "tags"}
Nothing == [op |-> "none", files |-> {}, untracked |-> {}, row |-> 0, stash |-> 0,
            amend |-> FALSE, asked |-> FALSE]
Request(op) == [Nothing EXCEPT !.op = op]

VARIABLES
  git,       \* the repository
  lists,     \* what the client shows, the lists being read, those whose read failed
  mutation,  \* busy: the mutation under way, the reads it waits for, what is next
  screen,    \* dialog, question, errors, the commit message and the amend switch
  told       \* bounds, and the lists that others changed since they were read

controlVars == <<git, lists, mutation, screen, told>>

Value(g, name) ==
  CASE name = "snapshot" -> [files |-> g.files, merge |-> g.merge]
    [] name = "graph"    -> g.log
    [] name = "branches" -> g.side
    [] name = "stashes"  -> g.stashes
    [] name = "tags"     -> g.tags

NoMutation == [request |-> Nothing, then |-> Nothing, at |-> "none", result |-> "none", left |-> FALSE]
Busy == mutation # NoMutation

(***************************************************************************)
(* What git does                                                           *)
(***************************************************************************)

To(g, files, from, to) == [g EXCEPT !.files = [f \in ChangedFiles |->
                            IF f \in files /\ g.files[f] \in from THEN to ELSE @[f]]]

\* The new repository, when the request can be carried out.
Applied(g, r) ==
  CASE r.op = "stage"   -> To(To(g, r.files, {"edited"}, "staged"), r.files, {"untracked"}, "added")
    [] r.op = "unstage" -> To(To(g, r.files, {"staged"}, "edited"), r.files, {"added"}, "untracked")
    [] r.op = "discard" -> To(g, r.files, {"edited"}, "clean")
    [] r.op = "delete"  -> To(g, r.files, {"untracked"}, "gone")
    [] r.op = "commit"  -> [To(g, ChangedFiles, {"staged", "added"}, "clean") EXCEPT
                             !.log = IF r.amend THEN [@ EXCEPT ![Len(@)] = "user"] ELSE Append(@, "user")]
    [] r.op = "stash-push" -> [To(g, ChangedFiles, {"edited", "staged", "added"}, "clean") EXCEPT
                                !.stashes = <<g.next>> \o @, !.next = @ + 1]
    [] r.op \in {"stash-pop", "stash-drop"} -> [g EXCEPT !.stashes = RemoveAt(@, r.row)]
    [] r.op = "stash-apply"  -> g
    [] r.op = "create-tag"   -> [g EXCEPT !.tags = TRUE]
    [] r.op = "delete-tag"   -> [g EXCEPT !.tags = FALSE]
    [] r.op = "create-branch" -> [g EXCEPT !.side = "merged"]
    [] r.op \in {"delete-branch", "force-delete"} -> [g EXCEPT !.side = "none"]
    [] r.op = "merge"        -> [g EXCEPT !.log = Append(@, "merge"), !.side = "merged"]
    [] r.op = "resolve"      -> [g EXCEPT !.merge = "resolved"]
    [] r.op = "merge-continue" -> [g EXCEPT !.merge = "none", !.side = "merged", !.log = Append(@, "merge")]
    [] r.op = "merge-abort"  -> [g EXCEPT !.merge = "none"]
    [] r.op = "push"         -> [g EXCEPT !.pushed = Len(g.log)]
    [] r.op = "push-upstream" -> [g EXCEPT !.pushed = Len(g.log), !.upstream = TRUE]
    [] r.op = "fetch"        -> g

\* Whether git carries it out, as the server sees the repository then.
Possible(g, r) ==
  CASE r.op \in {"stage", "unstage", "discard", "delete"} ->
         \A f \in r.files : g.files[f] \in
            (CASE r.op = "stage" -> {"edited", "untracked"} [] r.op = "unstage" -> {"staged", "added"}
               [] r.op = "discard" -> {"edited"} [] r.op = "delete" -> {"untracked"})
    [] r.op = "commit"         -> g.merge = "none" /\ (r.amend \/ \E f \in ChangedFiles : g.files[f] \in {"staged", "added"})
    [] r.op = "stash-push"     -> \E f \in ChangedFiles : g.files[f] \in {"edited", "staged", "added"}
    [] r.op \in {"stash-pop", "stash-drop", "stash-apply"} -> r.row <= Len(g.stashes)
    [] r.op = "create-tag"     -> ~g.tags
    [] r.op = "delete-tag"     -> g.tags
    [] r.op = "create-branch"  -> g.side = "none"
    [] r.op = "delete-branch"  -> g.side = "merged"
    [] r.op = "force-delete"   -> g.side # "none"
    [] r.op = "merge"          -> g.side = "unmerged" /\ g.merge = "none"
    [] r.op = "resolve"        -> g.merge = "conflict"
    [] r.op = "merge-continue" -> g.merge = "resolved"
    [] r.op = "merge-abort"    -> g.merge # "none"
    [] r.op = "push"           -> g.upstream
    [] OTHER                   -> TRUE

\* A merge that stops at a conflict is a failure that changed the repository.
Failed(g, r) == IF r.op = "merge" /\ Possible(g, r) THEN [g EXCEPT !.merge = "conflict"] ELSE g

\* As it would be if a commit read again only what it changed in the worktree.
ReadsOfWorktree(op) ==
  IF op \in {"stage", "unstage", "discard", "delete", "commit"} THEN {"snapshot"} ELSE ListNames

\* The lists read after an operation.
Reads(op) ==
  IF op \in {"stage", "unstage", "discard", "delete"} THEN {"snapshot"}
  ELSE IF op = "commit" THEN {"snapshot", "graph"} ELSE ListNames

(***************************************************************************)
(* The client                                                              *)
(***************************************************************************)

Stepped == [told EXCEPT !.steps = @ + 1]
MayStep == told.steps < MaxSteps

\* busy and activeOp are set; `then` is what follows when it succeeds.
Start(r, then) ==
  mutation' = [NoMutation EXCEPT !.request = r, !.then = then, !.at = "sent"]

InFront == IF screen.publish THEN "publish" ELSE screen.dialog
Free(where) == MayStep /\ ~Busy /\ screen.question = Nothing /\ InFront = where

\* A button of the pane or of a dialog: disabled while something is under way.
Press(r, where) ==
  /\ r.op \in told.session /\ Free(where)
  /\ Start(r, Nothing) /\ told' = Stepped
  /\ UNCHANGED <<git, lists, screen>>

Shown(kinds) == {f \in ChangedFiles : lists.value["snapshot"].files[f] \in kinds}

Stage(F) == /\ F # {} /\ F \subseteq Shown({"edited", "untracked"})
            /\ Press([Request("stage") EXCEPT !.files = F], "none")
Unstage(F) == /\ F # {} /\ F \subseteq Shown({"staged", "added"})
              /\ Press([Request("unstage") EXCEPT !.files = F], "none")

\* The Commit button asks for staged changes or amend; Ctrl+Enter does not.
SubmitCommit ==
  screen.message /\ Press([Request("commit") EXCEPT !.amend = screen.amend], "none")

\* The composer is disabled while something is under way.
Compose ==
  /\ "commit" \in told.session /\ Free("none") /\ told' = Stepped
  /\ \/ ~screen.message /\ screen' = [screen EXCEPT !.message = TRUE]
     \/ screen' = [screen EXCEPT !.amend = ~@]
  /\ UNCHANGED <<git, lists, mutation>>

\* The branch menu creates a branch and deletes one of those listed.
BranchMenuOperation(op) ==
  /\ \/ op = "create-branch"
     \/ op = "delete-branch" /\ lists.value["branches"] # "none"
  /\ Press(Request(op), "none")

\* The buttons of the header.
HeaderOperation(op) == op \in {"push", "fetch"} /\ Press(Request(op), "none")

\* The conflict panel is there during a merge: it goes on when nothing is unresolved.
ConflictOperation(op) ==
  /\ \/ op = "merge-abort" /\ lists.value["snapshot"].merge # "none"
     \/ op = "resolve" /\ lists.value["snapshot"].merge = "conflict"
     \/ op = "merge-continue" /\ lists.value["snapshot"].merge = "resolved"
  /\ Press(Request(op), "none")

\* Opening a menu or a dialog reads the lists it shows; a new read of a list
\* takes the place of one under way.
OpenDialog(d, shows) ==
  /\ MayStep /\ InFront = "none" /\ screen.question = Nothing
  /\ screen' = [screen EXCEPT !.dialog = d]
  /\ lists' = [lists EXCEPT !.reading = @ \union shows, !.own = @ \ shows]
  /\ told' = Stepped /\ UNCHANGED <<git, mutation>>

DialogOf(d) == CASE d = "stash" -> {"stash-push", "stash-pop", "stash-drop", "stash-apply"}
                 [] d = "tags" -> {"create-tag", "delete-tag"} [] d = "integrate" -> {"merge"}

\* A dialog may be closed while its operation is under way.
CloseDialog ==
  /\ InFront # "none" /\ screen.question = Nothing
  /\ screen' = IF screen.publish THEN [screen EXCEPT !.publish = FALSE]
               ELSE [screen EXCEPT !.dialog = "none", !.dialogError = FALSE]
  /\ mutation' = IF Busy THEN [mutation EXCEPT !.left = TRUE] ELSE mutation
  /\ UNCHANGED <<git, lists, told>>

\* The row of a stash shows the stash and names its place in the list.  The stash
\* is not sent: 0 when another program may have moved it, or the dialog says that it
\* is still loading the list.
Row(op, i) ==
  [Request(op) EXCEPT !.row = i,
     !.stash = IF "stashes" \in lists.reading \union lists.failed \union told.outside THEN 0
               ELSE lists.value["stashes"][i]]

StashOperation(op) ==
  \/ /\ op \in {"stash-apply", "stash-pop"}
     /\ \E i \in 1..Len(lists.value["stashes"]) : Press(Row(op, i), "stash")
  \/ op = "stash-push" /\ Press(Request(op), "stash")

TagOperation(op) == op = "create-tag" /\ Press(Request(op), "tags")

Integrate(op) == op = "merge" /\ lists.value["branches"] # "none" /\ Press(Request(op), "integrate")

PublishBranch(op) == op = "push-upstream" /\ Press(Request(op), "publish")

\* What asks first.  A question about changes keeps them as they were then.
Ask(r, where) ==
  /\ r.op \in told.session /\ Free(where)
  /\ screen' = [screen EXCEPT !.question = [r EXCEPT !.asked = TRUE]]
  /\ told' = Stepped /\ UNCHANGED <<git, lists, mutation>>

AskFirst ==
  \/ \E F \in SUBSET Shown({"edited", "untracked"}) :
       F # {} /\ Ask([Request("discard") EXCEPT !.files = F \ Shown({"untracked"}),
                                             !.untracked = F \intersect Shown({"untracked"})], "none")
  \/ \E i \in 1..Len(lists.value["stashes"]) : Ask(Row("stash-drop", i), "stash")
  \/ lists.value["tags"] /\ Ask(Request("delete-tag"), "tags")

\* discardChanges: the tracked files first, then the untracked ones.
AnswerQuestion(yes) ==
  LET q == screen.question
      delete == [q EXCEPT !.op = "delete", !.files = q.untracked]
  IN  /\ q # Nothing /\ UNCHANGED <<git, lists, told>>
      /\ screen' = [screen EXCEPT !.question = Nothing]
      /\ IF ~yes THEN UNCHANGED mutation
         ELSE /\ ~Busy
              /\ IF q.untracked = {} THEN Start(q, Nothing)
                 ELSE IF q.files = {} THEN Start(delete, Nothing) ELSE Start(q, delete)

Acknowledge ==
  /\ screen.uncertain /\ screen' = [screen EXCEPT !.uncertain = FALSE]
  /\ told' = [told EXCEPT !.unknown = FALSE]
  /\ UNCHANGED <<git, lists, mutation>>

(***************************************************************************)
(* A mutation and the reads after it                                        *)
(***************************************************************************)

\* A failure that is no answer of the server leaves the outcome unknown.  So does a
\* commit that git refused: the server answers 200 and the client throws.
Uncertain(result) ==
  CASE result = "lost" -> {TRUE}
    [] result = "failed" /\ mutation.request.op = "commit" -> BOOLEAN
    [] OTHER -> {FALSE}

\* The answer comes, or is lost; the lists are read again either way.
Answered(result, g) ==
  LET reads == Reads(mutation.request.op)
  IN  /\ mutation.at = "sent"
      /\ git' = g
      /\ mutation' = [mutation EXCEPT !.at = "reading", !.result = result]
      /\ lists' = [lists EXCEPT !.reading = @ \union reads, !.own = @ \union reads]
      /\ \E unknown \in Uncertain(result) :
           screen' = [screen EXCEPT !.error = result # "ok", !.uncertain = @ \/ unknown]
      /\ told' = [told EXCEPT !.unknown = @ \/ result = "lost"]

Mutates ==
  LET r == mutation.request
  IN  \/ Possible(git, r) /\ Answered("ok", Applied(git, r))
      \/ ~Possible(git, r) /\ Answered("failed", git)
      \/ Possible(git, r) /\ r.op = "merge" /\ Answered("failed", Failed(git, r))
      \/ Answered("lost", IF Possible(git, r) THEN Applied(git, r) ELSE git)
      \/ Answered("lost", git)

\* Answers to the newest reads of some lists; `bad` are those that failed.
Listed(names, bad) ==
  /\ lists' = [value |-> [n \in ListNames |-> IF n \in names \ bad THEN Value(git, n) ELSE lists.value[n]],
               failed |-> (lists.failed \ names) \union bad,
               reading |-> lists.reading \ names, own |-> lists.own \ names]
  /\ told' = [told EXCEPT !.outside = @ \ (names \ bad)]
  /\ UNCHANGED <<git, screen>>

\* A list that a dialog reads.
ReadEnds(name, ok) ==
  /\ name \in lists.reading \ lists.own
  /\ Listed({name}, IF ok THEN {} ELSE {name}) /\ UNCHANGED mutation

\* The reads after a mutation, those excepted that a dialog's took the place of.
ReadsEnd(ok) ==
  /\ mutation.at = "reading"
  /\ mutation' = [mutation EXCEPT !.at = "read"]
  /\ Listed(lists.own, IF ok THEN {} ELSE lists.own)

\* What the caller does when the promise settles: dialogs close, questions and
\* the Publish dialog open, the message is cleared, the second half is sent.
Settled(r) ==
  CASE mutation.result = "ok" /\ r.op = "commit" -> [screen EXCEPT !.message = FALSE]
    [] mutation.result = "ok" /\ r.op = "merge"  -> [screen EXCEPT !.dialog = "none", !.dialogError = FALSE]
    [] mutation.result = "ok" /\ r.op = "push-upstream" -> [screen EXCEPT !.publish = FALSE]
    [] mutation.result = "failed" /\ r.op = "push" -> [screen EXCEPT !.publish = TRUE]
    [] mutation.result = "failed" /\ r.op = "delete-branch" /\ lists.value["branches"] # "none" ->
         [screen EXCEPT !.question = [Request("force-delete") EXCEPT !.asked = TRUE]]
    [] OTHER -> IF mutation.result # "ok" /\ screen.dialog # "none" /\ ~mutation.left
                THEN [screen EXCEPT !.dialogError = TRUE] ELSE screen

Settle ==
  /\ mutation.at = "read"
  /\ screen' = Settled(mutation.request)
  /\ IF mutation.result = "ok" /\ mutation.then # Nothing THEN Start(mutation.then, Nothing)
     ELSE mutation' = NoMutation
  /\ UNCHANGED <<git, lists, told>>

\* Another program works in the repository.
Meddle ==
  /\ told.meddles < MaxMeddles
  /\ \/ \E f \in ChangedFiles : /\ git.files[f] \in {"clean", "gone", "edited"}
         /\ git' = [git EXCEPT !.files[f] = CASE @ = "clean" -> "edited" [] @ = "gone" -> "untracked"
                                                [] OTHER -> "staged"]
         /\ told' = [told EXCEPT !.meddles = @ + 1, !.outside = @ \union {"snapshot"}]
         /\ UNCHANGED <<mutation, screen>>
     \/ /\ git' = [git EXCEPT !.stashes = <<git.next>> \o @, !.next = @ + 1]
        /\ told' = [told EXCEPT !.meddles = @ + 1, !.outside = @ \union {"stashes"}]
        /\ mutation' = [mutation EXCEPT !.request.stash = 0]
        /\ screen' = [screen EXCEPT !.question.stash = 0]
  /\ UNCHANGED lists

(***************************************************************************)
(* The specification                                                       *)
(***************************************************************************)

ControlInit ==
  /\ git \in [files : [ChangedFiles -> {"edited", "untracked"}], merge : {"none"}, log : {<<"first">>},
              side : {"unmerged"}, stashes : {<<2, 1>>}, next : {3}, tags : {TRUE},
              pushed : {0}, upstream : BOOLEAN]
  /\ lists = [value |-> [name \in ListNames |-> Value(git, name)], failed |-> {}, reading |-> {}, own |-> {}]
  /\ mutation = NoMutation
  /\ screen = [dialog |-> "none", publish |-> FALSE, question |-> Nothing, error |-> FALSE,
               dialogError |-> FALSE, uncertain |-> FALSE, message |-> FALSE, amend |-> FALSE]
  /\ told \in [session : Sessions, steps : {0}, meddles : {0}, outside : {{}}, unknown : {FALSE}]

ControlNext ==
  \/ \E F \in SUBSET ChangedFiles : Stage(F) \/ Unstage(F)
  \/ SubmitCommit \/ Compose
  \/ \E op \in told.session :
       \/ BranchMenuOperation(op) \/ HeaderOperation(op) \/ ConflictOperation(op)
       \/ StashOperation(op) \/ TagOperation(op) \/ Integrate(op) \/ PublishBranch(op)
  \/ \E d \in {<<"stash", {"stashes"}>>, <<"tags", {"tags", "branches"}>>, <<"integrate", {"branches"}>>} :
       DialogOf(d[1]) \intersect told.session # {} /\ OpenDialog(d[1], d[2])
  \/ CloseDialog \/ AskFirst \/ (\E yes \in BOOLEAN : AnswerQuestion(yes)) \/ Acknowledge
  \/ Mutates \/ Settle \/ Meddle
  \/ \E ok \in BOOLEAN : ReadsEnd(ok) \/ \E name \in ListNames : ReadEnds(name, ok)

(***************************************************************************)
(* What must hold                                                          *)
(***************************************************************************)

\* At rest every list shows the repository: after any operation, of any of the
\* dialogs, in any order with the reads of lists that a dialog opened, only what
\* another program changed, or a read that failed and says so, may be old.  A
\* mutation whose answer was lost has its banner until it is acknowledged.
ListsFollowGit ==
  /\ ~Busy => \A name \in ListNames :
       \/ name \in lists.reading \union lists.failed \union told.outside
       \/ lists.value[name] = Value(git, name)
  /\ told.unknown => screen.uncertain

\* A step takes away only what the user asked for: a stash the row of which was
\* chosen (or another program moved the rows), an untracked file that the answered
\* question named, a branch that is not merged after a second question.  The
\* message goes only into a commit.
LostOnlyAsAsked ==
  LET r == mutation.request
  IN  /\ \A s \in ToSet(git.stashes) \ ToSet(git'.stashes) : r.stash \in {0, s}
      /\ \A f \in ChangedFiles : git.files[f] = "untracked" /\ git'.files[f] = "gone" =>
            r.asked /\ f \in r.untracked
      /\ git.side = "unmerged" /\ git'.side = "none" => r.asked
      /\ screen.message /\ ~screen'.message => Last(git.log) = "user"

=============================================================================
