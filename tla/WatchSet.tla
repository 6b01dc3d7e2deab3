------------------------------ MODULE WatchSet ------------------------------
(***************************************************************************)
(* The directories of an ordinary folder that are watched: those that were      *)
(* listed, as the session remembers them (internal/app/folder_session.go), the  *)
(* watcher's own list with its limit (internal/watch/repository.go), and the    *)
(* budget that the watchers of all folders share (internal/watch/budget.go).    *)
(*                                                                         *)
(* A step is a section under the session's or the watcher's lock.  An event     *)
(* stands for all that were noticed and not yet heard (EventStream); the        *)
(* session that forwards it drops the cached listings, and who hears of it      *)
(* lists every directory again that is shown (Explorer).  Listings that are     *)
(* built while they are dropped, and the cache's limit, are in DirectoryIndex;  *)
(* setups that are superseded or stopped are in EventStream: one that follows   *)
(* them finds the watcher of an earlier one, as when a folder was a repository  *)
(* for a moment.                                                                *)
(***************************************************************************)
EXTENDS Naturals, Sequences, FiniteSets, SequencesExt

CONSTANTS
  SubDirs,         \* the directories of the folder's root
  WatchLimits,     \* limits on the directories of one watcher (MaxObservedDirectories)
  WatchBudget,     \* limit on the watches of all watchers (ordinaryWatchBudget.max)
  Watchers,        \* numbers of watchers, in the order of their setups
  MaxWatchActs     \* bound on listings asked for, changes, setups, refusals, others' watches

Root == 0
AllDirs == SubDirs \union {Root}
NoWatcher == 0
NotListed == 0

VARIABLES
  folderDirs,    \* what is on disk
  listedDirs,    \* what is shown of each directory, and the requests
  watchSession,  \* folderSession's part
  watchSets,     \* the watchers
  watchBudget    \* ordinaryWatchBudget, and what other folders have of it; bounds

watchVars == <<folderDirs, listedDirs, watchSession, watchSets, watchBudget>>

NewSet == [open |-> FALSE, order |-> <<>>, live |-> {}, paid |-> 0, short |-> FALSE, created |-> {}, reborn |-> {}]

Acts == folderDirs.steps + listedDirs.asks + watchSession.next - 1 + watchBudget.taken + watchBudget.faults

There(d) == d = Root \/ d \in folderDirs.there
Heard(d) == \E i \in Watchers : watchSets[i].open /\ d \in watchSets[i].live

(***************************************************************************)
(* A watcher's list                                                        *)
(***************************************************************************)

\* The one that is used goes to the end; the root stays in front.
Touched(order, d) ==
  IF d = Root THEN order ELSE Append(SelectSeq(order, LAMBDA e : e # d), d)

\* Those that make room for one more: the least recently used, never the root.
Crowded(order) == {order[i] : i \in {j \in DOMAIN order : j > 1 /\ j <= Len(order) - watchSession.limit + 2}}
Without(order, gone) == SelectSeq(order, LAMBDA e : e \notin gone)

\* observeDirectoryLocked, and what may come of it: room is made before the budget is
\* asked and stays made when it is refused; another folder may take the place that
\* was given back; the root is watched without one; the system may refuse.
Observed(i, d, refused) ==
  IF d \in ToSet(watchSets[i].order)
  THEN {[set |-> [watchSets[i] EXCEPT !.order = Touched(@, d)], budget |-> watchBudget]}
  ELSE LET w     == watchSets[i]
           gone  == Crowded(w.order)
           given == IF Cardinality(gone) < w.paid THEN Cardinality(gone) ELSE w.paid
           room  == [w EXCEPT !.order = Without(@, gone), !.live = @ \ gone, !.reborn = @ \ gone,
                              !.paid = @ - given]
           After(taken) ==
             LET b     == [watchBudget EXCEPT !.used = @ - given + taken, !.others = @ + taken, !.taken = @ + taken]
                 place == IF b.used < WatchBudget THEN 1 ELSE 0
             IN  IF refused \/ (place = 0 /\ d # Root)
                 THEN [set |-> [room EXCEPT !.short = TRUE], budget |-> b]
                 ELSE [set |-> [room EXCEPT !.order = Append(@, d), !.live = @ \union {d},
                                            !.paid = @ + place],
                       budget |-> [b EXCEPT !.used = @ + place]]
       IN  {After(taken) : taken \in {t \in 0..given : Acts + t <= MaxWatchActs}}

\* ObserveDirectory: a watcher that is closed and a directory that is not there change
\* nothing, unless it went away after it was looked at.
Observing(i, d) ==
  LET as_it_was == {[set |-> watchSets[i], budget |-> watchBudget]}
      refusals  == {[o EXCEPT !.budget.faults = @ + 1] : o \in Observed(i, d, TRUE)}
  IN  IF i = NoWatcher THEN {}
      ELSE IF ~watchSets[i].open THEN as_it_was
      ELSE IF ~There(d) THEN as_it_was \union Observed(i, d, TRUE)
      ELSE Observed(i, d, FALSE) \union IF Acts < MaxWatchActs THEN refusals ELSE {}

Observes(i, d) ==
  \E o \in Observing(i, d) : watchSets' = [watchSets EXCEPT ![i] = o.set] /\ watchBudget' = o.budget

(***************************************************************************)
(* The folder, and what a watcher makes of it                              *)
(***************************************************************************)

Changed(ds) == [d \in AllDirs |-> IF d \in ds THEN folderDirs.steps + 2 ELSE folderDirs.state[d]]

\* A change that nobody hears of, of a directory whose listing is cached, or was read
\* for an answer under way: it outlives every answer from the cache.
Noticed(ds) ==
  listedDirs' = [listedDirs EXCEPT
    !.event = @ \/ \E d \in ds : Heard(d),
    !.raced = @ \union {d \in ds :
                ~Heard(d) /\ (listedDirs.at[d] # "none" \/ watchSession.cached[d] # NotListed)}]

ChangeDir(d) ==
  /\ Acts < MaxWatchActs /\ There(d)
  /\ folderDirs' = [folderDirs EXCEPT !.state = Changed({d}), !.steps = @ + 1]
  /\ Noticed({d})
  /\ UNCHANGED <<watchSession, watchSets, watchBudget>>

\* The system forgets the watch; the watcher's list and its budget do not.
RemoveDir(d) ==
  /\ Acts < MaxWatchActs /\ d \in folderDirs.there
  /\ folderDirs' = [folderDirs EXCEPT !.there = @ \ {d}, !.state = Changed({d, Root}), !.steps = @ + 1]
  /\ Noticed({d, Root})
  /\ watchSets' = [i \in Watchers |-> [watchSets[i] EXCEPT !.live = @ \ {d}]]
  /\ UNCHANGED <<watchSession, watchBudget>>

CreateDir(d) ==
  /\ Acts < MaxWatchActs /\ d \in SubDirs \ folderDirs.there
  /\ folderDirs' = [folderDirs EXCEPT !.there = @ \union {d}, !.state = Changed({d, Root}), !.steps = @ + 1]
  /\ Noticed({d, Root})
  /\ watchSets' = [i \in Watchers |->
       [watchSets[i] EXCEPT !.created = IF Root \in watchSets[i].live THEN @ \union {d} ELSE @,
                            !.reborn = IF d \in ToSet(watchSets[i].order) THEN @ \union {d} ELSE @]]
  /\ UNCHANGED <<watchSession, watchBudget>>

\* loop: a directory that was created is watched; one that is already in the list is
\* only used.
CreatedIsObserved(i, d) ==
  /\ d \in watchSets[i].created
  /\ \E o \in Observing(i, d) : /\ watchSets' = [watchSets EXCEPT ![i] = [o.set EXCEPT !.created = @ \ {d}]]
                                /\ watchBudget' = o.budget
  /\ UNCHANGED <<folderDirs, listedDirs, watchSession>>

(***************************************************************************)
(* A listing: the page is read, then its directory is observed             *)
(***************************************************************************)

\* A listing is scanned once and then served from the cache, also when its directory
\* has changed, or gone.
Scan(d) ==
  /\ watchSession.cached[d] = NotListed /\ There(d)
  /\ watchSession' = [watchSession EXCEPT !.cached[d] = folderDirs.state[d]]
  /\ listedDirs' = [listedDirs EXCEPT !.at[d] = "read", !.got[d] = folderDirs.state[d],
                                      !.due = @ \ {d}, !.raced = @ \ {d},
                                      !.asks = IF d \in listedDirs.due THEN @ ELSE @ + 1]

FromCache(d) ==
  /\ watchSession.cached[d] # NotListed /\ UNCHANGED watchSession
  /\ listedDirs' = [listedDirs EXCEPT !.at[d] = "read", !.got[d] = watchSession.cached[d],
                                      !.due = @ \ {d},
                                      !.asks = IF d \in listedDirs.due THEN @ ELSE @ + 1]

ReadDir(d) ==
  /\ listedDirs.at[d] = "none"
  /\ d \in listedDirs.due \/ Acts < MaxWatchActs
  /\ Scan(d) \/ FromCache(d)
  /\ UNCHANGED <<folderDirs, watchSets, watchBudget>>

\* A directory that has gone is no longer shown.
GoneDir(d) ==
  /\ d \in listedDirs.due /\ listedDirs.at[d] = "none" /\ ~There(d)
  /\ watchSession.cached[d] = NotListed
  /\ listedDirs' = [listedDirs EXCEPT !.shown[d] = 0, !.due = @ \ {d}]
  /\ UNCHANGED <<folderDirs, watchSession, watchSets, watchBudget>>

Answered(d) == [listedDirs EXCEPT !.at[d] = "none", !.shown[d] = listedDirs.got[d], !.got[d] = 0,
                                  !.via[d] = NoWatcher]

\* observeDirectory, first half: the session remembers the directory.
Remember(d) ==
  /\ listedDirs.at[d] = "read"
  /\ watchSession' = [watchSession EXCEPT !.lru =
       IF d \in ToSet(@) THEN Touched(@, d) ELSE Append(Without(@, Crowded(@)), d)]
  /\ listedDirs' = IF watchSession.watcher = NoWatcher THEN Answered(d)
                   ELSE [listedDirs EXCEPT !.at[d] = "observe", !.via[d] = watchSession.watcher]
  /\ UNCHANGED <<folderDirs, watchSets, watchBudget>>

\* The second: the watcher that the session had then.
ObserveListed(d) ==
  /\ listedDirs.at[d] = "observe"
  /\ Observes(listedDirs.via[d], d)
  /\ listedDirs' = Answered(d)
  /\ UNCHANGED <<folderDirs, watchSession>>

NothingCached == [d \in AllDirs |-> NotListed]

\* forward: the listings go before the event is sent.
EventForwarded ==
  /\ listedDirs.event
  /\ listedDirs' = [listedDirs EXCEPT !.event = FALSE, !.told = TRUE, !.raced = {}]
  /\ watchSession' = [watchSession EXCEPT !.cached = NothingCached]
  /\ UNCHANGED <<folderDirs, watchSets, watchBudget>>

\* A search that is to be refreshed, or an operation on the folder, drops them too;
\* what is shown elsewhere stays as it is.
ListingsDropped ==
  /\ Acts < MaxWatchActs /\ watchSession.cached # NothingCached
  /\ watchSession' = [watchSession EXCEPT !.cached = NothingCached]
  /\ listedDirs' = [listedDirs EXCEPT !.asks = @ + 1]
  /\ UNCHANGED <<folderDirs, watchSets, watchBudget>>

EventHeard ==
  /\ listedDirs.told
  /\ listedDirs' = [listedDirs EXCEPT !.told = FALSE,
       !.due = {d \in AllDirs : listedDirs.shown[d] # 0 \/ listedDirs.at[d] # "none"}]
  /\ UNCHANGED <<folderDirs, watchSession, watchSets, watchBudget>>

(***************************************************************************)
(* A setup                                                                 *)
(***************************************************************************)

\* New: the root is observed, or the setup fails.
SetupOpens ==
  /\ watchSession.setup = "none"
  /\ watchSession.next \in Watchers /\ Acts < MaxWatchActs
  /\ LET i == watchSession.next
         place == IF watchBudget.used < WatchBudget THEN 1 ELSE 0
     IN  /\ watchSession' = [watchSession EXCEPT !.setup = "open", !.next = i + 1]
         /\ watchSets' = [watchSets EXCEPT ![i] =
              [NewSet EXCEPT !.open = TRUE, !.order = <<Root>>, !.live = {Root}, !.paid = place]]
         /\ watchBudget' = [watchBudget EXCEPT !.used = @ + place]
  /\ UNCHANGED <<folderDirs, listedDirs>>

Released(i) ==
  /\ watchSets' = [watchSets EXCEPT ![i] = NewSet]
  /\ watchBudget' = [watchBudget EXCEPT !.used = @ - watchSets[i].paid]

\* The session takes the watcher and a copy of what it remembers.
SetupInstalls ==
  /\ watchSession.setup = "open"
  /\ watchSession' = [watchSession EXCEPT !.setup = "replay", !.watcher = watchSession.next - 1,
                        !.previous = watchSession.watcher, !.replay = watchSession.lru]
  /\ UNCHANGED <<folderDirs, listedDirs, watchSets, watchBudget>>

Replays ==
  /\ watchSession.setup = "replay" /\ watchSession.replay # <<>>
  /\ Observes(watchSession.next - 1, Head(watchSession.replay))
  /\ watchSession' = [watchSession EXCEPT !.replay = Tail(@)]
  /\ UNCHANGED <<folderDirs, listedDirs>>

\* The watcher before it is closed, and everything that is shown is listed again.
SetupEnds ==
  /\ watchSession.setup = "replay" /\ watchSession.replay = <<>>
  /\ watchSession' = [watchSession EXCEPT !.setup = "none", !.previous = NoWatcher,
                                          !.cached = NothingCached]
  /\ IF watchSession.previous = NoWatcher THEN UNCHANGED <<watchSets, watchBudget>>
     ELSE Released(watchSession.previous)
  /\ listedDirs' = [listedDirs EXCEPT !.told = TRUE, !.raced = {}]
  /\ UNCHANGED folderDirs

\* Watchers of other folders.
OthersTake ==
  /\ Acts < MaxWatchActs /\ watchBudget.used < WatchBudget
  /\ watchBudget' = [watchBudget EXCEPT !.used = @ + 1, !.others = @ + 1, !.taken = @ + 1]
  /\ UNCHANGED <<folderDirs, listedDirs, watchSession, watchSets>>

OthersGive ==
  /\ watchBudget.others > 0
  /\ watchBudget' = [watchBudget EXCEPT !.used = @ - 1, !.others = @ - 1]
  /\ UNCHANGED <<folderDirs, listedDirs, watchSession, watchSets>>

(***************************************************************************)
(* The specification                                                       *)
(***************************************************************************)

WatchInit ==
  /\ folderDirs = [there |-> SubDirs, state |-> [d \in AllDirs |-> 1], steps |-> 0]
  /\ listedDirs = [shown |-> [d \in AllDirs |-> 0], got |-> [d \in AllDirs |-> 0],
                   at |-> [d \in AllDirs |-> "none"], via |-> [d \in AllDirs |-> NoWatcher],
                   due |-> {}, raced |-> {}, event |-> FALSE, told |-> FALSE, asks |-> 0]
  /\ \E limit \in WatchLimits :
       watchSession = [watcher |-> NoWatcher, next |-> 1, setup |-> "none", previous |-> NoWatcher,
                       replay |-> <<>>, lru |-> <<Root>>, limit |-> limit,
                       cached |-> NothingCached]
  /\ watchSets = [i \in Watchers |-> NewSet]
  /\ watchBudget = [used |-> 0, others |-> 0, taken |-> 0, faults |-> 0]

WatchNext ==
  \/ \E d \in AllDirs : ChangeDir(d) \/ ReadDir(d) \/ GoneDir(d) \/ Remember(d) \/ ObserveListed(d)
  \/ \E d \in SubDirs : RemoveDir(d) \/ CreateDir(d) \/ \E i \in Watchers : CreatedIsObserved(i, d)
  \/ EventForwarded \/ ListingsDropped \/ EventHeard \/ SetupOpens \/ SetupInstalls \/ Replays \/ SetupEnds
  \/ OthersTake \/ OthersGive

(***************************************************************************)
(* What must hold                                                          *)
(***************************************************************************)

AtRest ==
  /\ ~listedDirs.event /\ ~listedDirs.told /\ listedDirs.due = {} /\ \A d \in AllDirs : listedDirs.at[d] = "none"
  /\ watchSession.setup = "none" /\ watchSession.watcher # NoWatcher
  /\ \A i \in Watchers : watchSets[i].created = {}

\* The budget counts the watches that the open watchers have paid for, and no more
\* than they have; at rest one watcher is open, a directory that is shown is in its
\* list, unless that is full or a watch was refused, and one that is watched is shown
\* as it is.  Two directories are excepted: one whose listing was overtaken by a change
\* while nobody watched it, until the next event or setup has it scanned again (the
\* cache serves the old one until then), and one that was removed and created again
\* while it was in the list.
WatchesAreHeld ==
  /\ watchBudget.used = watchBudget.others + FoldSet(LAMBDA i, n : n + watchSets[i].paid, 0, Watchers)
  /\ \A i \in Watchers : watchSets[i].open => watchSets[i].paid <= Len(watchSets[i].order)
  /\ AtRest =>
       LET w == watchSets[watchSession.watcher]
       IN  /\ \A i \in Watchers : watchSets[i].open => i = watchSession.watcher
           /\ \A d \in AllDirs : There(d) /\ listedDirs.shown[d] # 0 =>
                /\ d \in ToSet(w.order) \/ Len(w.order) = watchSession.limit \/ w.short
                /\ d \in w.live /\ d \notin listedDirs.raced => listedDirs.shown[d] = folderDirs.state[d]
                /\ d \in ToSet(w.order) => d \in w.live \/ d \in w.reborn
=============================================================================
