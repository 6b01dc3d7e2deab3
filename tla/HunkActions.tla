---------------------------- MODULE HunkActions -----------------------------
(***************************************************************************)
(* Staging one hunk: the menu of a file in a review loads the file's diff with *)
(* an identity, offers its hunks, and sends the chosen one back with that       *)
(* identity; the server checks it before git applies the patch                *)
(* (DiffsHubViewer.tsx, GitnaReviewUI.tsx, patch_identity.go, routes_*.go).    *)
(*                                                                         *)
(* One file, one scope.  A diff is its sequence of hunks and is its own digest; *)
(* git applies a hunk it finds in the diff.  Other programs change the file,    *)
(* and the generation follows when the watcher has noticed.                   *)
(***************************************************************************)
EXTENDS Naturals, Sequences, FiniteSets, SequencesExt

CONSTANTS
  FileDiffs,       \* diffs the file may have
  MaxHunkActs,     \* bound on the choices of the user
  MaxHunkChanges,  \* bound on what other programs do
  MaxHunkFaults    \* bound on answers that are lost

NoHunks == [at |-> "none"]
Attempts == 3

VARIABLES
  file,      \* its diff, the generation, whether a change is still to be noticed
  header,    \* the actions of the file's header: key, hunks, identity, loading, error
  diffRead,  \* GET /diff under way
  patch,     \* the patch mutation under way
  hunkActs   \* bounds

hunkVars == <<file, header, diffRead, patch, hunkActs>>

FreshHeader(key) == [key |-> key, hunks |-> <<>>, id |-> NoHunks, loading |-> FALSE, error |-> FALSE]

(***************************************************************************)
(* The folder                                                              *)
(***************************************************************************)

OthersEdit(d) ==
  /\ hunkActs.changes < MaxHunkChanges /\ d # file.diff
  /\ hunkActs' = [hunkActs EXCEPT !.changes = @ + 1]
  /\ file' = [file EXCEPT !.diff = d, !.unnoticed = TRUE]
  /\ patch' = IF patch.at \in {"read", "queued"} THEN [patch EXCEPT !.drift = TRUE] ELSE patch
  /\ UNCHANGED <<header, diffRead>>

WatcherNotices ==
  /\ file.unnoticed /\ file' = [file EXCEPT !.unnoticed = FALSE, !.gen = @ + 1]
  /\ UNCHANGED <<header, diffRead, patch, hunkActs>>

(***************************************************************************)
(* The hunks of a file                                                     *)
(***************************************************************************)

\* A review of a newer generation: the actions are keyed by it and start anew.
ReviewRefreshes ==
  /\ header.key < file.gen /\ header' = FreshHeader(file.gen)
  /\ UNCHANGED <<file, diffRead, patch, hunkActs>>

MayActOnHunk == hunkActs.acts < MaxHunkActs
HunkActed == hunkActs' = [hunkActs EXCEPT !.acts = @ + 1]

ShowHunks ==
  /\ MayActOnHunk /\ HunkActed /\ header.hunks = <<>> /\ ~header.loading
  /\ header' = [header EXCEPT !.loading = TRUE]
  /\ diffRead' = [at |-> "load", key |-> header.key, attempt |-> 1]
  /\ UNCHANGED <<file, patch>>

\* handleDiff: the generation, the diff, and the generation again.
DiffStarts ==
  /\ diffRead.at = "load"
  /\ diffRead' = [at |-> "diff", key |-> diffRead.key, attempt |-> diffRead.attempt, gen |-> file.gen]
  /\ UNCHANGED <<file, header, patch, hunkActs>>

DiffReads ==
  /\ diffRead.at = "diff"
  /\ diffRead' = [at |-> "check", key |-> diffRead.key, attempt |-> diffRead.attempt,
                  gen |-> diffRead.gen, diff |-> file.diff]
  /\ UNCHANGED <<file, header, patch, hunkActs>>

\* What the header that asked does with an answer; a header that is gone does nothing.
LoadEnds(h) ==
  /\ header' = IF diffRead.key = header.key THEN h ELSE header
  /\ diffRead' = NoHunks

DiffFails == LoadEnds([header EXCEPT !.loading = FALSE, !.error = TRUE])

DiffAnswered ==
  /\ diffRead.at = "check"
  /\ IF diffRead.gen # file.gen
     THEN IF diffRead.attempt < Attempts
          THEN /\ diffRead' = [at |-> "load", key |-> diffRead.key, attempt |-> diffRead.attempt + 1]
               /\ UNCHANGED header
          ELSE DiffFails
     ELSE LoadEnds([header EXCEPT !.loading = FALSE, !.hunks = diffRead.diff,
            !.id = IF diffRead.diff = <<>> THEN NoHunks
                   ELSE [at |-> "issued", gen |-> diffRead.gen, diff |-> diffRead.diff]])
  /\ UNCHANGED <<file, patch, hunkActs>>

(***************************************************************************)
(* One hunk is applied                                                     *)
(***************************************************************************)

\* A hunk of the menu: enabled unless an operation is under way.
ChooseHunk(i) ==
  /\ MayActOnHunk /\ HunkActed /\ patch = NoHunks
  /\ i \in DOMAIN header.hunks /\ header.id # NoHunks
  /\ patch' = [at |-> "sent", key |-> header.key, hunk |-> header.hunks[i], id |-> header.id,
               shown |-> header.hunks, current |-> <<>>, drift |-> FALSE]
  /\ header' = [header EXCEPT !.error = FALSE]
  /\ UNCHANGED <<file, diffRead>>

\* The promise of onPatch is rejected: the header forgets the hunks it had.
PatchFails ==
  /\ header' = IF patch.key = header.key
               THEN [header EXCEPT !.hunks = <<>>, !.id = NoHunks, !.error = TRUE]
               ELSE header
  /\ patch' = NoHunks

\* validatePatchMutation, before and after it reads the diff.
IdentityChecked ==
  /\ patch.at = "sent"
  /\ IF patch.id.gen # file.gen THEN PatchFails
     ELSE patch' = [patch EXCEPT !.at = "validating"] /\ UNCHANGED header
  /\ UNCHANGED <<file, diffRead, hunkActs>>

CurrentDiffRead ==
  /\ patch.at = "validating"
  /\ patch' = [patch EXCEPT !.at = "read", !.current = file.diff]
  /\ UNCHANGED <<file, header, diffRead, hunkActs>>

Valid == patch.id.gen = file.gen /\ patch.current # <<>> /\ patch.current = patch.id.diff

CurrentDiffChecked ==
  /\ patch.at = "read"
  /\ IF Valid THEN patch' = [patch EXCEPT !.at = "queued"] /\ UNCHANGED header ELSE PatchFails
  /\ UNCHANGED <<file, diffRead, hunkActs>>

\* The mutation queue runs git, which refuses a hunk that it does not find.
PatchApplied ==
  /\ patch.at = "queued"
  /\ IF \E i \in DOMAIN file.diff : file.diff[i] = patch.hunk
     THEN /\ file' = [file EXCEPT !.diff = RemoveFirst(@, patch.hunk), !.unnoticed = TRUE]
          /\ patch' = [patch EXCEPT !.at = "applied"]
          /\ UNCHANGED header
     ELSE PatchFails /\ UNCHANGED file
  /\ UNCHANGED <<diffRead, hunkActs>>

GenerationAdvances ==
  /\ patch.at = "applied"
  /\ file' = [file EXCEPT !.gen = @ + 1] /\ patch' = [patch EXCEPT !.at = "answered"]
  /\ UNCHANGED <<header, diffRead, hunkActs>>

\* The client is busy until it has refreshed its snapshot; the hunks stay until the
\* review follows.
PatchAnswered ==
  /\ patch.at = "answered" /\ patch' = NoHunks
  /\ UNCHANGED <<file, header, diffRead, hunkActs>>

\* An answer is lost once the server has finished.  A connection that breaks while
\* the server still validates or runs the patch, and a second patch beside such an
\* orphan, are left out.
AnswerIsLost ==
  /\ hunkActs.faults < MaxHunkFaults
  /\ hunkActs' = [hunkActs EXCEPT !.faults = @ + 1]
  /\ \/ patch.at = "answered" /\ PatchFails /\ UNCHANGED diffRead
     \/ diffRead.at = "check" /\ DiffFails /\ UNCHANGED patch
  /\ UNCHANGED file

(***************************************************************************)
(* The specification                                                       *)
(***************************************************************************)

HunksInit ==
  /\ file \in [diff : FileDiffs, gen : {1}, unnoticed : {FALSE}]
  /\ header = FreshHeader(1)
  /\ diffRead = NoHunks
  /\ patch = NoHunks
  /\ hunkActs = [acts |-> 0, changes |-> 0, faults |-> 0]

HunksNext ==
  \/ (\E d \in FileDiffs : OthersEdit(d)) \/ WatcherNotices \/ ReviewRefreshes
  \/ ShowHunks \/ DiffStarts \/ DiffReads \/ DiffAnswered
  \/ (\E i \in DOMAIN header.hunks : ChooseHunk(i))
  \/ IdentityChecked \/ CurrentDiffRead \/ CurrentDiffChecked
  \/ PatchApplied \/ GenerationAdvances \/ PatchAnswered \/ AnswerIsLost

(***************************************************************************)
(* What must hold                                                          *)
(***************************************************************************)

\* When nothing is under way and the review is of the current generation, the
\* hunks in the menu are those of the file and their identity will be accepted,
\* whatever was loaded, staged or changed by others in between.
OfferedHunksAreValid ==
  ~file.unnoticed /\ header.key = file.gen /\ patch = NoHunks /\ header.hunks # <<>> =>
    header.hunks = file.diff /\ header.id.gen = file.gen /\ header.id.diff = file.diff

\* git is given a hunk only when the file's diff is the one that the menu showed,
\* unless another program changed the file after the server compared them.
AppliedAsShown ==
  patch.at = "queued" /\ patch'.at = "applied" => file.diff = patch.shown \/ patch.drift

=============================================================================
