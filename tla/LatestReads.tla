---------------------------- MODULE LatestReads -----------------------------
(***************************************************************************)
(* The lists of the store that are read as a whole, where the last read     *)
(* counts (web/src/diffshub/gitna/repository.tsx): folders, branches with   *)
(* remotes, stashes, tags, conflicts, the files of a comparison, results of *)
(* a quick search, the exact count of files.  They differ in what they      *)
(* check when an answer comes and in what takes them away.                  *)
(*                                                                         *)
(* The lists share nothing but the epoch, so a behaviour is about one kind  *)
(* of list.  An answer may come although its request was cancelled.         *)
(***************************************************************************)
EXTENDS Naturals, FiniteSets

CONSTANTS
  ReadKinds,   \* the lists this instance looks at
  Asks,        \* numbers of the list's reads under way at once
  Targets,     \* what may be compared or searched for
  MaxWorld,    \* bound on the changes of the repository
  MaxReads,    \* bound on the reads the user or a refresh begins
  MaxLosses    \* bound on lost connections

VARIABLES
  kind,        \* which list
  world,       \* the repository's version and the generation the store has seen
  asks,        \* the reads under way
  list         \* the store's fields about the list

readVars == <<kind, world, asks, list>>

Kinds == {"folders", "branches", "stashes", "tags", "conflicts", "compare", "search", "count"}
NoAsk == [state |-> "none", request |-> 0]
Nothing == "nothing"
NoList == [target |-> Nothing, version |-> 0]

\* Lists that belong to a target, and those a repository's end takes away.
Targeted == kind \in {"compare", "search"}
OfGit == kind \in {"branches", "stashes", "tags", "conflicts", "compare", "count"}
\* Lists whose answers are measured by the epoch as well as by their number.
ChecksEpoch == kind \in {"folders", "branches", "stashes", "tags", "compare"}

\* A read takes the first number that is free: which one does not matter.
Unused == {a \in Asks : asks[a] = NoAsk /\ \A e \in Asks : e < a => asks[e] # NoAsk}

RepositoryChanges ==
  /\ world.version < MaxWorld
  /\ world' = [world EXCEPT !.version = @ + 1]
  /\ UNCHANGED <<kind, asks, list>>

\* A read begins: it supersedes the one before.
BeginRead(t) ==
  /\ list.request < MaxReads
  /\ Targeted \/ t = Nothing
  /\ \E a \in Unused :
       /\ list' = [list EXCEPT !.request = @ + 1, !.loading = TRUE, !.begun = TRUE,
                     !.dropped = FALSE, !.since = world.version, !.target = t,
                     !.error = IF kind = "count" THEN @ ELSE FALSE]
       /\ asks' = [asks EXCEPT ![a] =
                     [state |-> "sent", request |-> list'.request, epoch |-> list.epoch,
                      target |-> t, attempt |-> 0, version |-> 0, gen |-> world.seen,
                      parts |-> IF kind = "branches" THEN {"branches", "remotes"}
                                ELSE {"all"}, outcome |-> "ok"]]
  /\ UNCHANGED <<kind, world>>

\* The server answers one part of a read (branches come with remotes, and
\* neither is left behind when the other fails), or refuses it; a count is
\* refused when it is of another generation.
AnswerPart(a) ==
  LET r == asks[a]
      good == IF kind = "count" /\ r.gen # world.version THEN "conflict" ELSE "ok"
  IN  /\ r.state = "sent"
      /\ \E part \in r.parts, outcome \in {good, "error"} :
           asks' = [asks EXCEPT ![a] =
             [@ EXCEPT !.parts = @ \ {part},
                       !.outcome = IF @ = "error" THEN @ ELSE outcome,
                       !.version = IF r.version = 0 THEN world.version ELSE @,
                       !.gen = IF kind = "search" THEN world.version ELSE @,
                       !.state = IF r.parts = {part} THEN "answered" ELSE "sent"]]
      /\ UNCHANGED <<kind, world, list>>

\* As it would be if only a lost stream made an answer late.
OursIfConnected(r) == r.epoch = list.epoch

Ours(r) == r.request = list.request /\ (ChecksEpoch => r.epoch = list.epoch)

Over(a) == asks' = [asks EXCEPT ![a] = NoAsk]

\* The last read's answer is shown, or its failure; a search of an older
\* generation is shown as empty and incomplete.
ReadSucceeds(a) ==
  LET r == asks[a]
  IN  /\ r.state = "answered" /\ r.outcome = "ok" /\ Ours(r)
      /\ kind = "count" => r.gen >= world.seen
      /\ list' = [list EXCEPT !.loading = FALSE,
                    !.shown = [target |-> r.target, version |-> r.version],
                    !.complete = ~(kind = "search" /\ r.gen < world.seen)]
      /\ Over(a)
      /\ UNCHANGED <<kind, world>>

ReadFails(a) ==
  LET r == asks[a]
  IN  /\ r.state = "answered" /\ r.outcome = "error" /\ Ours(r) /\ kind # "count"
      /\ list' = [list EXCEPT !.loading = FALSE, !.error = TRUE,
                    !.shown = IF kind = "compare" THEN NoList ELSE @]
      /\ Over(a)
      /\ UNCHANGED <<kind, world>>

\* A count of another generation than the store's is read again, after a
\* snapshot if the server refused it; after three attempts, or an error, the
\* last exact count stays.
CountAgain(a) ==
  LET r == asks[a]
  IN  /\ kind = "count" /\ r.state = "answered" /\ Ours(r)
      /\ r.outcome # "ok" \/ r.gen < world.seen
      /\ IF r.attempt < 2 /\ r.outcome # "error"
         THEN /\ world' = [world EXCEPT !.seen = IF r.outcome = "conflict" THEN world.version
                                                 ELSE @]
              /\ asks' = [asks EXCEPT ![a] = [@ EXCEPT !.state = "sent", !.parts = {"all"},
                            !.outcome = "ok", !.attempt = @ + 1, !.version = 0,
                            !.gen = world'.seen]]
              /\ UNCHANGED list
         ELSE /\ list' = [list EXCEPT !.loading = FALSE, !.dropped = TRUE]
              /\ Over(a)
              /\ UNCHANGED world
      /\ UNCHANGED kind

SupersededAnswer(a) ==
  /\ asks[a].state = "answered" /\ ~Ours(asks[a])
  /\ Over(a)
  /\ UNCHANGED <<kind, world, list>>

\* A snapshot: a newer generation is seen, and brings the conflicts with it.
SnapshotArrives ==
  /\ world.seen < world.version
  /\ world' = [world EXCEPT !.seen = world.version]
  /\ list' = IF kind # "conflicts" THEN list
             ELSE [list EXCEPT !.request = @ + 1, !.loading = FALSE, !.error = FALSE,
                     !.since = world.version,
                     !.shown = [target |-> Nothing, version |-> world.version]]
  /\ UNCHANGED <<kind, asks>>

\* invalidateReadWork: every number advances and nothing is loading.
LoseStream ==
  /\ list.epoch < MaxLosses
  /\ list' = [list EXCEPT !.epoch = @ + 1, !.request = @ + 1, !.loading = FALSE,
                !.error = FALSE, !.dropped = @ \/ list.loading \/ list.error]
  /\ UNCHANGED <<kind, world, asks>>

\* clearGitState: the folder is no repository (any more).
RepositoryEnds ==
  /\ OfGit /\ list.begun
  /\ list' = [list EXCEPT !.request = @ + 1, !.loading = FALSE, !.error = FALSE,
                !.begun = FALSE, !.target = Nothing, !.shown = NoList]
  /\ UNCHANGED <<kind, world, asks>>

\* clearCompare.
ClearCompare ==
  /\ kind = "compare" /\ list.target # Nothing
  /\ list' = [list EXCEPT !.request = @ + 1, !.error = FALSE,
                !.begun = FALSE, !.target = Nothing, !.shown = NoList]
  /\ UNCHANGED <<kind, world, asks>>

ReadsInit ==
  /\ kind \in ReadKinds
  /\ world = [version |-> 1, seen |-> 1]
  /\ asks = [a \in Asks |-> NoAsk]
  /\ list = [request |-> 0, epoch |-> 0, loading |-> FALSE, error |-> FALSE,
             begun |-> FALSE, dropped |-> FALSE, since |-> 0, target |-> Nothing,
             shown |-> NoList, complete |-> FALSE]

ReadsNext ==
  \/ RepositoryChanges \/ SnapshotArrives \/ LoseStream \/ RepositoryEnds \/ ClearCompare
  \/ \E t \in Targets \union {Nothing} : BeginRead(t)
  \/ \E a \in Asks : \/ AnswerPart(a) \/ ReadSucceeds(a) \/ ReadFails(a) \/ CountAgain(a)
                     \/ SupersededAnswer(a)

(***************************************************************************)
(* What must hold                                                          *)
(***************************************************************************)

\* When a list rests (no read is under way, failed or was given up), it shows
\* what the last read asked for, not older than when that read began: an answer
\* that comes late never takes the place of a newer one.
LastReadIsShown ==
  ~list.loading /\ ~list.error /\ list.begun /\ ~list.dropped =>
    list.shown.target = list.target /\ list.shown.version >= list.since

=============================================================================
