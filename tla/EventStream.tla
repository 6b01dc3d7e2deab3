---------------------------- MODULE EventStream -----------------------------
(***************************************************************************)
(* How a change on disk reaches a client: watchers (internal/watch) that   *)
(* debounce what the operating system tells them into kinds of             *)
(* invalidation, the folder session (internal/app/folder_session.go) that  *)
(* sets watchers up, replaces and stops them and forwards their events to  *)
(* one channel, and the hub (internal/server/sse.go) that fans the channel *)
(* out to the subscribers.  No stage blocks on a slower one: a full buffer *)
(* is compacted, files-invalidated standing for snapshot-invalidated too.  *)
(*                                                                         *)
(* Setup i, the watcher it builds and the goroutine that forwards its      *)
(* events are all called i.                                                *)
(***************************************************************************)
EXTENDS Naturals, Sequences, FiniteSets

CONSTANTS
  Subscribers,   \* event streams
  Capacity,      \* length of a watcher's, the session's and a subscriber's buffer
  MaxSetups,     \* bound: how often a watcher is set up
  MaxChanges,    \* bound: changes on disk, and overflows of the kernel's queue
  GitSetups,     \* the setups whose folder is a repository: they scan it too
  None

Setups == 1..MaxSetups
Kinds == {"files", "snapshot", "graph"}

\* What a client reads again when it hears of a kind.
Covers(kind) == IF kind = "files" THEN {"files", "snapshot"} ELSE {kind}
Covered(kinds) == UNION {Covers(k) : k \in kinds}

\* A change to file contents, to the set of files (or the index), to refs.
Changes == {"content", "membership", "refs"}
KindsOf(change) ==
  CASE change = "content" -> {"snapshot"}
    [] change = "membership" -> {"files"}
    [] change = "refs" -> {"snapshot", "graph"}

ASSUME EventAssumption ==
  /\ Capacity \in Nat \ {0, 1} /\ MaxSetups \in Nat \ {0} /\ MaxChanges \in Nat
  /\ GitSetups \subseteq Setups /\ None \notin Setups /\ None \notin Changes

\* What the periodic fingerprint tells apart, and emits.
FallbackKinds(change) == IF change = "refs" THEN <<"snapshot", "graph">> ELSE <<"files">>

VARIABLES
  \* watchers
  watcher,     \* none, building, live or closed
  pending,     \* kinds waiting for the debounce timer
  events,      \* its buffered events
  drift,       \* changes since the last fingerprint; None before the first
  \* the session
  setup,       \* a setup goroutine's place
  cancelled,   \* its context
  previous,    \* the watcher it replaced
  installed,   \* s.watcher
  latest,      \* s.watchID, as long as the session is open
  forward,     \* a forwarding goroutine: none, idle, the event in hand, or done
  stop,        \* session.stop
  source,      \* s.events
  \* the hub
  hub,         \* open or closed
  stream,      \* a subscriber: none, open or closed
  buffer,
  \* history
  unseen,      \* what a subscriber has not been told to read again since it changed
  changes

watcherVars == <<watcher, pending, events, drift>>
setupVars == <<setup, cancelled, previous, installed, latest>>
sourceVars == <<forward, stop, source>>
streamVars == <<stream, buffer>>
vars == <<watcherVars, setupVars, sourceVars, hub, streamVars, unseen, changes>>

WatcherTypes ==
  /\ watcher \in [Setups -> {"none", "building", "live", "closed"}]
  /\ pending \in [Setups -> SUBSET Kinds]
  /\ events \in [Setups -> Seq(Kinds)] /\ \A i \in Setups : Len(events[i]) <= Capacity
  /\ drift \in [Setups -> (SUBSET Changes) \cup {{None}}]

SetupTypes ==
  /\ setup \in [Setups -> {"none", "waiting", "building", "built", "failed", "installed",
                           "files", "graph", "done"}]
  /\ cancelled \in [Setups -> BOOLEAN]
  /\ previous \in [Setups -> Setups \cup {None}]
  /\ installed \in Setups \cup {None} /\ latest \in Setups

SourceTypes ==
  /\ forward \in [Setups -> {"none", "idle", "done"} \cup Kinds]
  /\ stop \in {"open", "setups", "flush", "watcher", "forwards", "stopped"}
  /\ source \in Seq(Kinds) /\ Len(source) <= Capacity

HubTypes ==
  /\ hub \in {"open", "closed"}
  /\ stream \in [Subscribers -> {"none", "open", "closed"}]
  /\ buffer \in [Subscribers -> Seq(Kinds)] /\ \A s \in Subscribers : Len(buffer[s]) <= Capacity
  /\ unseen \in [Subscribers -> SUBSET Kinds]
  /\ changes \in Nat

TypeOK == WatcherTypes /\ SetupTypes /\ SourceTypes /\ HubTypes

\* newFolderSession has called startWatcher.
Init ==
  /\ watcher = [i \in Setups |-> IF i = 1 THEN "building" ELSE "none"]
  /\ pending = [i \in Setups |-> {}] /\ events = [i \in Setups |-> <<>>]
  /\ drift = [i \in Setups |-> {None}]
  /\ setup = [i \in Setups |-> IF i = 1 THEN "building" ELSE "none"]
  /\ cancelled = [i \in Setups |-> FALSE] /\ previous = [i \in Setups |-> None]
  /\ installed = None /\ latest = 1
  /\ forward = [i \in Setups |-> "none"] /\ stop = "open" /\ source = <<>>
  /\ hub = "open"
  /\ stream = [s \in Subscribers |-> "none"] /\ buffer = [s \in Subscribers |-> <<>>]
  /\ unseen = [s \in Subscribers |-> {}] /\ changes = 0

-----------------------------------------------------------------------------
(* emit, and enqueueSubscriberInvalidation: never block, lose no meaning.  *)

Elements(q) == {q[i] : i \in DOMAIN q}
Compacted(kinds) ==
  (IF "files" \in kinds THEN <<"files">>
   ELSE IF "snapshot" \in kinds THEN <<"snapshot">> ELSE <<>>)
  \o IF "graph" \in kinds THEN <<"graph">> ELSE <<>>

\* As it would be if a full buffer dropped the event.
Dropped(q, kind) == IF Len(q) < Capacity THEN Append(q, kind) ELSE q

\* As it would be if compaction only removed duplicates.
Uncompacted(q, kind) ==
  IF Len(q) < Capacity THEN Append(q, kind)
  ELSE SelectSeq(<<"files", "snapshot", "graph">>, LAMBDA k : k \in Elements(q) \cup {kind})

Enqueued(q, kind) ==
  IF Len(q) < Capacity THEN Append(q, kind) ELSE Compacted(Elements(q) \cup {kind})

-----------------------------------------------------------------------------
(* The disk.  A live watcher notices a change, unless it has a fallback    *)
(* scan to find what the operating system did not tell, which is then      *)
(* something that git status shows (a second edit of a modified file is    *)
(* not); one that is being built may or may not notice.                    *)

Change(change) ==
  /\ changes < MaxChanges /\ changes' = changes + 1
  /\ \E noticed \in SUBSET {i \in Setups : watcher[i] \in {"building", "live"}} :
       /\ \A i \in Setups : watcher[i] = "live" /\ drift[i] = {None} => i \in noticed
       /\ pending' = [i \in Setups |->
                        IF i \in noticed THEN pending[i] \cup KindsOf(change) ELSE pending[i]]
  /\ drift' = [i \in Setups |->
                 IF drift[i] = {None} THEN drift[i] ELSE drift[i] \cup {change}]
  /\ unseen' = [s \in Subscribers |->
                  IF stream[s] = "open" THEN unseen[s] \cup Covered(KindsOf(change)) ELSE {}]
  /\ UNCHANGED <<watcher, events, setupVars, sourceVars, hub, streamVars>>

\* The kernel's queue overflowed.
Overflow(i) ==
  /\ watcher[i] = "live" /\ changes < MaxChanges /\ changes' = changes + 1
  /\ pending' = [pending EXCEPT ![i] = @ \cup {"files", "graph"}]
  /\ UNCHANGED <<watcher, events, drift, setupVars, sourceVars, hub, streamVars, unseen>>

\* A debounce timer fires: the pending kinds are emitted one after another.
Flush(i) ==
  /\ watcher[i] = "live"
  /\ \E kind \in pending[i] :
       /\ kind = "snapshot" => "files" \notin pending[i]
       /\ events' = [events EXCEPT ![i] = Enqueued(@, kind)]
       /\ pending' = [pending EXCEPT ![i] = @ \ Covers(kind)]
  /\ UNCHANGED <<watcher, drift, setupVars, sourceVars, hub, streamVars, unseen, changes>>

\* The fallback's first fingerprint, and any later one.
Fingerprint(i) ==
  /\ watcher[i] = "live" /\ i \in GitSetups /\ drift[i] = {None}
  /\ drift' = [drift EXCEPT ![i] = {}]
  /\ UNCHANGED <<watcher, pending, events, setupVars, sourceVars, hub, streamVars, unseen,
                 changes>>

Fallback(i) ==
  /\ watcher[i] = "live" /\ drift[i] # {None}
  /\ \E change \in drift[i] :
       LET kinds == FallbackKinds(change)
           once == Enqueued(events[i], kinds[1]) IN
       /\ events' = [events EXCEPT ![i] = IF Len(kinds) = 2 THEN Enqueued(once, kinds[2]) ELSE once]
       /\ drift' = [drift EXCEPT ![i] =
                      {c \in @ : FallbackKinds(c) # kinds}]
  /\ UNCHANGED <<watcher, pending, setupVars, sourceVars, hub, streamVars, unseen, changes>>

-----------------------------------------------------------------------------
(* The session's watcher setups.                                           *)

SetupTo(i, from, to) == setup[i] = from /\ setup' = [setup EXCEPT ![i] = to]
SetupGone(i) == setup[i] \in {"failed", "done"}

\* Close drops what is pending; what is buffered can still be read.
Closed(i) ==
  /\ watcher' = [watcher EXCEPT ![i] = "closed"]
  /\ pending' = [pending EXCEPT ![i] = {}]
  /\ drift' = [drift EXCEPT ![i] = {None}]
  /\ UNCHANGED events

\* refresh, once the adapter has switched.
StartWatcher ==
  /\ stop = "open" /\ latest < MaxSetups
  /\ latest' = latest + 1
  /\ cancelled' = [cancelled EXCEPT ![latest] = setup[latest] \in {"waiting", "building", "built"}]
  /\ setup' = [setup EXCEPT ![latest + 1] = "waiting"]
  /\ UNCHANGED <<watcherVars, previous, installed, sourceVars, hub, streamVars, unseen, changes>>

\* A setup waits for the one before it, or for its own cancellation.
BeginSetup(i) ==
  /\ SetupTo(i, "waiting", "building")
  /\ ~cancelled[i] /\ SetupGone(i - 1)
  /\ watcher' = [watcher EXCEPT ![i] = "building"]
  /\ UNCHANGED <<pending, events, drift, cancelled, previous, installed, latest, sourceVars,
                 hub, streamVars, unseen, changes>>

CancelledSetup(i) ==
  /\ SetupTo(i, "waiting", "failed")
  /\ cancelled[i]
  /\ UNCHANGED <<watcherVars, cancelled, previous, installed, latest, sourceVars, hub, streamVars,
                 unseen, changes>>

\* newWatcher returns; its context may have ended too late for it to notice.
Build(i) ==
  /\ SetupTo(i, "building", "built")
  /\ watcher' = [watcher EXCEPT ![i] = "live"]
  /\ UNCHANGED <<pending, events, drift, cancelled, previous, installed, latest, sourceVars,
                 hub, streamVars, unseen, changes>>

BuildFails(i) ==
  /\ SetupTo(i, "building", "failed")
  /\ Closed(i)
  /\ UNCHANGED <<cancelled, previous, installed, latest, sourceVars, hub, streamVars, unseen,
                 changes>>

Superseded(i) == stop # "open" \/ i # latest

Install(i) ==
  /\ SetupTo(i, "built", "installed")
  /\ ~Superseded(i)
  /\ previous' = [previous EXCEPT ![i] = installed]
  /\ installed' = i
  /\ forward' = [forward EXCEPT ![i] = "idle"]
  /\ UNCHANGED <<watcherVars, cancelled, latest, stop, source, hub, streamVars, unseen, changes>>

\* As it would be if the unwanted watcher were left to the collector.
DiscardUnclosed(i) ==
  /\ SetupTo(i, "built", "failed")
  /\ Superseded(i)
  /\ UNCHANGED <<watcherVars, cancelled, previous, installed, latest, sourceVars, hub, streamVars,
                 unseen, changes>>

Discard(i) ==
  /\ SetupTo(i, "built", "failed")
  /\ Superseded(i)
  /\ Closed(i)
  /\ UNCHANGED <<cancelled, previous, installed, latest, sourceVars, hub, streamVars, unseen,
                 changes>>

ClosePrevious(i) ==
  /\ SetupTo(i, "installed", "files")
  /\ IF previous[i] = None THEN UNCHANGED watcherVars ELSE Closed(previous[i])
  /\ previous' = [previous EXCEPT ![i] = None]
  /\ UNCHANGED <<cancelled, installed, latest, sourceVars, hub, streamVars, unseen,
                 changes>>

\* As it would be if changes during the walk were left to the next event.
NotReconciled(i) ==
  /\ \E step \in {"files", "graph"} : SetupTo(i, step, "done")
  /\ UNCHANGED <<watcherVars, cancelled, previous, installed, latest, sourceVars, hub,
                 streamVars, unseen, changes>>

\* The two events that stand for whatever changed during the setup.
Reconcile(i) ==
  /\ \/ /\ Len(source) < Capacity
        /\ \/ SetupTo(i, "files", "graph") /\ source' = Append(source, "files")
           \/ SetupTo(i, "graph", "done") /\ source' = Append(source, "graph")
     \/ /\ stop # "open"
        /\ \E step \in {"files", "graph"} : SetupTo(i, step, "done")
        /\ UNCHANGED source
  /\ UNCHANGED <<watcherVars, cancelled, previous, installed, latest, forward, stop, hub,
                 streamVars, unseen, changes>>

-----------------------------------------------------------------------------
(* forward: one goroutine per installed watcher.                           *)

ForwardTo(i, to) == forward' = [forward EXCEPT ![i] = to]

Receive(i) ==
  /\ forward[i] = "idle" /\ events[i] # <<>>
  /\ ForwardTo(i, Head(events[i]))
  /\ events' = [events EXCEPT ![i] = Tail(@)]
  /\ UNCHANGED <<watcher, pending, drift, setupVars, stop, source, hub, streamVars, unseen,
                 changes>>

Send(i) ==
  /\ forward[i] \in Kinds /\ Len(source) < Capacity
  /\ source' = Append(source, forward[i])
  /\ ForwardTo(i, "idle")
  /\ UNCHANGED <<watcherVars, setupVars, stop, hub, streamVars, unseen, changes>>

\* The channel is closed and empty, or the session's context has ended.
ForwardEnds(i) ==
  /\ \/ forward[i] = "idle" /\ watcher[i] = "closed" /\ events[i] = <<>>
     \/ forward[i] \in Kinds /\ stop # "open"
  /\ ForwardTo(i, "done")
  /\ UNCHANGED <<watcherVars, setupVars, stop, source, hub, streamVars, unseen, changes>>

-----------------------------------------------------------------------------
(* session.stop: it takes the watcher, ends the context, then waits.       *)

BeginStop ==
  /\ stop = "open" /\ stop' = "setups"
  /\ cancelled' = [i \in Setups |->
                     cancelled[i] \/ (i = latest /\ setup[i] \in {"waiting", "building", "built"})]
  /\ UNCHANGED <<watcherVars, setup, previous, installed, latest, forward, source, hub,
                 streamVars, unseen, changes>>

\* As it would be without setups.Wait.
StopUnwaited ==
  /\ stop = "setups" /\ stop' = "flush"
  /\ UNCHANGED <<watcherVars, setupVars, forward, source, hub, streamVars, unseen, changes>>

StopSetups ==
  /\ stop = "setups" /\ stop' = "flush"
  /\ \A i \in Setups : setup[i] = "none" \/ SetupGone(i)
  /\ UNCHANGED <<watcherVars, setupVars, forward, source, hub, streamVars, unseen, changes>>

\* The catalog's Flush returns, if it does: FolderCatalog says when it may not.
StopFlushes ==
  /\ stop = "flush" /\ stop' = "watcher"
  /\ UNCHANGED <<watcherVars, setupVars, forward, source, hub, streamVars, unseen, changes>>

\* As it would be if the end of the context were left to end the watcher.
StopWatcherUnclosed ==
  /\ stop = "watcher" /\ stop' = "forwards"
  /\ installed' = None
  /\ UNCHANGED <<watcherVars, setup, cancelled, previous, latest, forward, source, hub,
                 streamVars, unseen, changes>>

StopWatcher ==
  /\ stop = "watcher" /\ stop' = "forwards"
  /\ IF installed = None THEN UNCHANGED watcherVars ELSE Closed(installed)
  /\ installed' = None
  /\ UNCHANGED <<setup, cancelled, previous, latest, forward, source, hub, streamVars, unseen,
                 changes>>

StopForwards ==
  /\ stop = "forwards" /\ stop' = "stopped"
  /\ \A i \in Setups : forward[i] \in {"none", "done"}
  /\ UNCHANGED <<watcherVars, setupVars, forward, source, hub, streamVars, unseen, changes>>

-----------------------------------------------------------------------------
(* The hub and its subscribers.                                            *)

Dispatch ==
  /\ source # <<>> /\ source' = Tail(source)
  /\ buffer' = [s \in Subscribers |->
                  IF stream[s] = "open" THEN Enqueued(buffer[s], Head(source)) ELSE buffer[s]]
  /\ UNCHANGED <<watcherVars, setupVars, forward, stop, hub, stream, unseen, changes>>

CloseHub ==
  /\ hub = "open" /\ source = <<>> /\ stop = "stopped"
  /\ hub' = "closed"
  /\ stream' = [s \in Subscribers |-> IF stream[s] = "open" THEN "closed" ELSE stream[s]]
  /\ UNCHANGED <<watcherVars, setupVars, sourceVars, buffer, unseen, changes>>

\* A client reads everything after it has subscribed.
Subscribe(s) ==
  /\ stream[s] = "none" /\ hub # "closed"
  /\ stream' = [stream EXCEPT ![s] = "open"]
  /\ UNCHANGED <<watcherVars, setupVars, sourceVars, hub, buffer, unseen, changes>>

Unsubscribe(s) ==
  /\ stream[s] \in {"open", "closed"}
  /\ stream' = [stream EXCEPT ![s] = "none"]
  /\ buffer' = [buffer EXCEPT ![s] = <<>>] /\ unseen' = [unseen EXCEPT ![s] = {}]
  /\ UNCHANGED <<watcherVars, setupVars, sourceVars, hub, changes>>

Hear(s) ==
  /\ buffer[s] # <<>>
  /\ unseen' = [unseen EXCEPT ![s] = @ \ Covers(Head(buffer[s]))]
  /\ buffer' = [buffer EXCEPT ![s] = Tail(@)]
  /\ UNCHANGED <<watcherVars, setupVars, sourceVars, hub, stream, changes>>

-----------------------------------------------------------------------------
SetupStep(i) ==
  BeginSetup(i) \/ CancelledSetup(i) \/ Build(i) \/ BuildFails(i) \/ Install(i) \/ Discard(i)
  \/ ClosePrevious(i) \/ Reconcile(i)
WatcherStep(i) == Flush(i) \/ Fingerprint(i) \/ Fallback(i)
ForwardStep(i) == Receive(i) \/ Send(i) \/ ForwardEnds(i)
StopStep == StopSetups \/ StopWatcher \/ StopForwards
HubStep == Dispatch \/ CloseHub

Quiescent ==
  /\ hub = "closed" /\ changes = MaxChanges /\ \A s \in Subscribers : stream[s] = "none"
  /\ UNCHANGED vars

Next ==
  \/ \E change \in Changes : Change(change)
  \/ \E i \in Setups : Overflow(i) \/ WatcherStep(i) \/ SetupStep(i) \/ ForwardStep(i)
  \/ StartWatcher \/ BeginStop \/ StopStep \/ StopFlushes
  \/ HubStep
  \/ \E s \in Subscribers : Subscribe(s) \/ Unsubscribe(s) \/ Hear(s)
  \/ Quiescent

Spec == Init /\ [][Next]_vars

(* Goroutines that can step do, timers fire, walks of the disk end, and    *)
(* clients read their streams.  Nobody has to start, stop or subscribe,    *)
(* and the catalog's Flush need not return.                                *)
FairSpec ==
  /\ Spec
  /\ \A i \in Setups :
       WF_vars(WatcherStep(i)) /\ WF_vars(SetupStep(i)) /\ SF_vars(ForwardStep(i))
       /\ SF_vars(Reconcile(i))
  /\ WF_vars(StopStep) /\ WF_vars(HubStep)
  /\ \A s \in Subscribers : WF_vars(Hear(s))

-----------------------------------------------------------------------------
(* Nobody watches when the last setup failed and none was installed.       *)
Unwatched == stop # "open" \/ (installed = None /\ setup[latest] = "failed")

\* What setup i will reconcile, if it gets that far.
ToReconcile(i) ==
  CASE setup[i] \in {"installed", "files"} -> Kinds
    [] setup[i] = "graph" -> {"graph"}
    [] OTHER -> {}

Reconciling ==
  IF setup[latest] \in {"waiting", "building", "built"} THEN Kinds
  ELSE UNION {ToReconcile(i) : i \in Setups}

AtWatcher(i) ==
  pending[i] \cup Elements(events[i]) \cup (Kinds \cap {forward[i]})
  \cup UNION {Elements(FallbackKinds(c)) : c \in drift[i] \ {None}}

\* What is on its way to a subscriber.
Coming(s) ==
  Reconciling
  \cup Covered((UNION {AtWatcher(i) : i \in {j \in Setups : j = installed \/ forward[j] # "none"}})
               \cup Elements(source) \cup Elements(buffer[s]))

(* A change that a subscriber has not been told of is on its way to it,    *)
(* however often watchers are replaced and buffers are compacted.          *)
NothingLost ==
  ~Unwatched => \A s \in Subscribers : stream[s] = "open" => unseen[s] \subseteq Coming(s)

(* The session closes its channel only when no setup and no forwarding     *)
(* goroutine is left that could send on it.                                *)
NoSendOnClosedSource ==
  stop = "stopped" =>
    \A i \in Setups : (setup[i] = "none" \/ SetupGone(i)) /\ forward[i] \in {"none", "done"}

(* Every watcher that was built has been closed when the session has       *)
(* stopped.  Until then one whose setup has ended is installed, or a later *)
(* setup has it in hand to close.                                          *)
WatchersAreReleased ==
  /\ stop = "stopped" => \A i \in Setups : watcher[i] \in {"none", "closed"}
  /\ \A i \in Setups : watcher[i] = "live" /\ SetupGone(i) =>
       i = installed \/ \E j \in Setups : setup[j] = "installed" /\ previous[j] = i

(* Every open stream hears of every change, unless nobody watches any      *)
(* more.                                                                   *)
ChangesArrive ==
  \A s \in Subscribers, k \in Kinds :
    (stream[s] = "open" /\ k \in unseen[s]) ~> (stream[s] # "open" \/ k \notin unseen[s] \/ Unwatched)

(* Once stop was called it returns and every stream is closed, although    *)
(* nobody reads them, unless it stands in the catalog's Flush for good:    *)
(* that is all it can be kept by.                                          *)
StopEnds == (stop # "open") ~> (hub = "closed" \/ [](stop = "flush"))
=============================================================================
