-------------------------- MODULE EventStreamProofs --------------------------
(* What holds of the event stream for any number of subscribers, setups    *)
(* and changes, and any length of the buffers from two: no change is lost  *)
(* on its way to a stream, the closed channel is never sent on, and every  *)
(* watcher that was built is closed.                                       *)
EXTENDS EventStream, TLAPS

-----------------------------------------------------------------------------
(* The inductive invariant.                                                *)

\* Where a setup is tells where its watcher is.
SetupsAgree ==
  \A i \in Setups :
    /\ setup[i] = "none" <=> i > latest
    /\ setup[i] \in {"none", "waiting"} => watcher[i] = "none"
    /\ setup[i] = "building" <=> watcher[i] = "building"
    /\ setup[i] = "built" => watcher[i] = "live"
    /\ setup[i] = "failed" => watcher[i] \in {"none", "closed"}
    /\ forward[i] # "none" <=> setup[i] \in {"installed", "files", "graph", "done"}

\* The installed watcher is live, and is not one that a setup will close.
InstalledIsLive ==
  /\ installed # None => watcher[installed] = "live" /\ forward[installed] # "none"
  /\ stop = "open" /\ installed = None => \A i \in Setups : forward[i] = "none"
  /\ \A i \in Setups :
       previous[i] # None => previous[i] # installed /\ forward[previous[i]] # "none"

\* stop waits for the setups, takes the watcher and waits for the goroutines.
StopOrder ==
  /\ stop \in {"flush", "watcher", "forwards", "stopped"} =>
       \A i \in Setups : setup[i] = "none" \/ SetupGone(i)
  /\ stop \in {"forwards", "stopped"} => installed = None
  /\ stop = "stopped" => \A i \in Setups : forward[i] \in {"none", "done"}

\* A live watcher that was installed is, or a later setup has it to close.
LiveAreHeld ==
  \A i \in Setups : watcher[i] = "live" /\ forward[i] # "none" =>
    i = installed \/ \E j \in Setups : setup[j] = "installed" /\ previous[j] = i

NothingBeforeSubscribing == \A s \in Subscribers : stream[s] = "none" => unseen[s] = {}

\* While a watcher is installed, what a stream has not been told of is still
\* to be reconciled, at a watcher, in the session's channel or in its buffer.
Owed(k) == \E i \in Setups : k \in ToReconcile(i)
Queued(q, k) == k \in Covered(Elements(q))
Drifting(i) == UNION {Elements(FallbackKinds(c)) : c \in drift[i] \ {None}}
At(i, k) ==
  \/ k \in Covered(pending[i]) \/ Queued(events[i], k)
  \/ forward[i] \in Kinds /\ k \in Covers(forward[i])
  \/ k \in Covered(Drifting(i))
AtSome(k) == \E i \in Setups : forward[i] # "none" /\ At(i, k)
Safe(s, k) == Owed(k) \/ AtSome(k) \/ Queued(source, k) \/ Queued(buffer[s], k)
Told ==
  stop = "open" /\ installed # None =>
    \A s \in Subscribers, k \in Kinds : stream[s] = "open" /\ k \in unseen[s] => Safe(s, k)

Inv ==
  /\ TypeOK /\ SetupsAgree /\ InstalledIsLive /\ StopOrder /\ LiveAreHeld
  /\ NothingBeforeSubscribing /\ Told

-----------------------------------------------------------------------------
(* Kinds and queues.                                                       *)

\* files stands for snapshot too, any other kind for itself.
LEMMA Stands ==
  ASSUME NEW S, NEW k PROVE k \in Covered(S) <=> k \in S \/ (k = "snapshot" /\ "files" \in S)
  BY DEF Covered, Covers

\* A queue that takes an event holds it, and what it held.
LEMMA Appended ==
  ASSUME NEW q \in Seq(Kinds), NEW k \in Kinds
  PROVE  /\ Append(q, k) \in Seq(Kinds) /\ Len(Append(q, k)) = Len(q) + 1
         /\ Elements(Append(q, k)) = Elements(q) \cup {k}
<1>1. Append(q, k) \in Seq(Kinds) /\ Len(Append(q, k)) = Len(q) + 1
  OBVIOUS
<1>2. ASSUME NEW x \in Elements(Append(q, k)) PROVE x \in Elements(q) \cup {k}
  BY <1>1 DEF Elements
<1>3. ASSUME NEW i \in DOMAIN q PROVE q[i] \in Elements(Append(q, k))
  BY <1>1 DEF Elements
<1>4. k \in Elements(Append(q, k))
  <2>1. Len(q) + 1 \in DOMAIN Append(q, k) /\ Append(q, k)[Len(q) + 1] = k
    OBVIOUS
  <2>2. QED
    BY <2>1 DEF Elements
<1>5. QED
  BY <1>1, <1>2, <1>3, <1>4 DEF Elements

\* Taking the head of a queue leaves the rest.
LEMMA Parted ==
  ASSUME NEW q \in Seq(Kinds), q # <<>>
  PROVE  /\ Head(q) \in Kinds /\ Tail(q) \in Seq(Kinds) /\ Len(Tail(q)) = Len(q) - 1
         /\ Elements(q) = {Head(q)} \cup Elements(Tail(q))
<1>1. Head(q) \in Kinds /\ Tail(q) \in Seq(Kinds) /\ Len(Tail(q)) = Len(q) - 1 /\ Len(q) \in Nat
  OBVIOUS
<1>2. \A i \in DOMAIN Tail(q) : Tail(q)[i] = q[i + 1] /\ i + 1 \in DOMAIN q
  BY <1>1
<1>3. ASSUME NEW i \in DOMAIN q PROVE q[i] = Head(q) \/ q[i] \in Elements(Tail(q))
  <2>1. CASE i = 1
    BY <2>1
  <2>2. CASE i # 1
    <3>1. i - 1 \in DOMAIN Tail(q) /\ (i - 1) + 1 = i
      BY <1>1, <2>2
    <3>2. QED
      BY <1>2, <3>1 DEF Elements
  <2>3. QED
    BY <2>1, <2>2
<1>4. 1 \in DOMAIN q /\ Head(q) = q[1]
  BY <1>1
<1>5. Elements(q) \subseteq {Head(q)} \cup Elements(Tail(q))
  BY <1>3 DEF Elements
<1>6. {Head(q)} \cup Elements(Tail(q)) \subseteq Elements(q)
  BY <1>2, <1>4 DEF Elements
<1>7. QED
  BY <1>1, <1>5, <1>6

\* Compaction keeps the meaning in two events at most.
LEMMA CompactedKeeps ==
  ASSUME NEW S \in SUBSET Kinds
  PROVE  /\ Compacted(S) \in Seq(Kinds) /\ Len(Compacted(S)) <= 2
         /\ Covered(Elements(Compacted(S))) = Covered(S)
<1> DEFINE a == IF "files" \in S THEN <<"files">>
                ELSE IF "snapshot" \in S THEN <<"snapshot">> ELSE <<>>
           c == IF "graph" \in S THEN <<"graph">> ELSE <<>>
<1>1. /\ a \in Seq(Kinds) /\ Len(a) \in Nat /\ Len(a) <= 1
      /\ c \in Seq(Kinds) /\ Len(c) \in Nat /\ Len(c) <= 1
  <2>1. ASSUME NEW k \in Kinds PROVE <<k>> \in Seq(Kinds) /\ Len(<<k>>) = 1
    OBVIOUS
  <2>2. <<>> \in Seq(Kinds) /\ Len(<<>>) = 0
    OBVIOUS
  <2>3. "files" \in Kinds /\ "snapshot" \in Kinds /\ "graph" \in Kinds
    BY DEF Kinds
  <2>4. CASE "files" \in S
    BY <2>1, <2>2, <2>3, <2>4
  <2>5. CASE "files" \notin S /\ "snapshot" \in S
    BY <2>1, <2>2, <2>3, <2>5
  <2>6. CASE "files" \notin S /\ "snapshot" \notin S
    BY <2>1, <2>2, <2>3, <2>6
  <2>7. QED
    BY <2>4, <2>5, <2>6
<1>2. Elements(a) = {x \in S : x = "files" \/ (x = "snapshot" /\ "files" \notin S)}
  BY DEF Elements
<1>3. Elements(c) = {x \in S : x = "graph"}
  BY DEF Elements
<1>4. Compacted(S) = a \o c
  BY DEF Compacted
<1> HIDE DEF a, c
<1>5. /\ a \o c \in Seq(Kinds) /\ Len(a \o c) <= 2
      /\ \A i \in DOMAIN (a \o c) : (a \o c)[i] \in Elements(a) \cup Elements(c)
  BY <1>1 DEF Elements
<1>6. \A i \in DOMAIN a : i \in DOMAIN (a \o c) /\ (a \o c)[i] = a[i]
  BY <1>1
<1>7. \A i \in DOMAIN c : Len(a) + i \in DOMAIN (a \o c) /\ (a \o c)[Len(a) + i] = c[i]
  BY <1>1
<1>8. Elements(a \o c) = Elements(a) \cup Elements(c)
  BY <1>5, <1>6, <1>7 DEF Elements
<1>9. Covered(Elements(a) \cup Elements(c)) = Covered(S)
  <2>1. ASSUME NEW k PROVE k \in Covered(Elements(a) \cup Elements(c)) <=> k \in Covered(S)
    <3>1. Elements(a) \cup Elements(c) = {x \in S : x = "snapshot" => "files" \notin S}
      BY <1>2, <1>3 DEF Kinds
    <3> DEFINE T == {x \in S : x = "snapshot" => "files" \notin S}
    <3>2. k \in T \/ (k = "snapshot" /\ "files" \in T)
            <=> k \in S \/ (k = "snapshot" /\ "files" \in S)
      OBVIOUS
    <3> HIDE DEF T
    <3>3. k \in Covered(T) <=> k \in Covered(S)
      BY <3>2, Stands
    <3>4. QED
      BY <3>1, <3>3 DEF T
  <2>2. QED
    BY <2>1
<1>10. QED
  BY <1>4, <1>5, <1>8, <1>9

\* A queue takes an event without outgrowing its bound or losing a meaning.
LEMMA EnqueuedKeeps ==
  ASSUME NEW q \in Seq(Kinds), Len(q) <= Capacity, NEW kind \in Kinds
  PROVE  /\ Enqueued(q, kind) \in Seq(Kinds) /\ Len(Enqueued(q, kind)) <= Capacity
         /\ \A k : k \in Covers(kind) \/ Queued(q, k) => Queued(Enqueued(q, kind), k)
<1>1. Elements(q) \subseteq Kinds
  BY DEF Elements
<1>2. Covered(Elements(q) \cup {kind}) = Covered(Elements(q)) \cup Covers(kind)
  BY DEF Covered
<1>3. CASE Len(q) < Capacity
  <2>1. Enqueued(q, kind) = Append(q, kind) /\ Len(q) \in Nat /\ Capacity \in Nat
    BY <1>3, EventAssumption DEF Enqueued
  <2>2. /\ Append(q, kind) \in Seq(Kinds) /\ Len(Append(q, kind)) = Len(q) + 1
        /\ Elements(Append(q, kind)) = Elements(q) \cup {kind}
    BY Appended
  <2>3. Len(Append(q, kind)) <= Capacity
    BY <1>3, <2>1, <2>2
  <2>4. Covered(Elements(Append(q, kind))) = Covered(Elements(q)) \cup Covers(kind)
    BY <1>2, <2>2
  <2>5. QED
    BY <2>1, <2>2, <2>3, <2>4 DEF Queued
<1>4. CASE ~(Len(q) < Capacity)
  <2> DEFINE S == Elements(q) \cup {kind}
  <2>1. Enqueued(q, kind) = Compacted(S) /\ S \in SUBSET Kinds
    BY <1>1, <1>4 DEF Enqueued
  <2>2. /\ Compacted(S) \in Seq(Kinds) /\ Len(Compacted(S)) <= 2
        /\ Covered(Elements(Compacted(S))) = Covered(S)
    BY <2>1, CompactedKeeps
  <2>3. Len(Compacted(S)) <= Capacity
    BY <2>2, EventAssumption
  <2>4. QED
    BY <1>2, <2>1, <2>2, <2>3 DEF Queued
<1>5. QED
  BY <1>3, <1>4

-----------------------------------------------------------------------------
(* What a few steps do.                                                    *)

\* A fallback emits what it found, one kind or two.
LEMMA FallbackKeeps ==
  ASSUME TypeOK, NEW i \in Setups, Fallback(i)
  PROVE  /\ events' \in [Setups -> Seq(Kinds)] /\ Len(events'[i]) <= Capacity
         /\ drift' \in [Setups -> (SUBSET Changes) \cup {{None}}]
         /\ \A k : Queued(events[i], k) \/ k \in Covered(Drifting(i)) =>
              Queued(events'[i], k) \/ k \in Covered(Drifting(i)')
<1>1. /\ events \in [Setups -> Seq(Kinds)] /\ Len(events[i]) <= Capacity
      /\ drift[i] \in (SUBSET Changes) \cup {{None}}
  BY DEF TypeOK, WatcherTypes
<1>2. PICK change \in drift[i] :
        LET kinds == FallbackKinds(change)
            once == Enqueued(events[i], kinds[1]) IN
        /\ events' = [events EXCEPT ![i] =
                        IF Len(kinds) = 2 THEN Enqueued(once, kinds[2]) ELSE once]
        /\ drift' = [drift EXCEPT ![i] = {c \in @ : FallbackKinds(c) # kinds}]
  BY DEF Fallback
<1>3. change \in Changes /\ drift[i] \in SUBSET Changes
  <2>1. drift[i] # {None}
    BY DEF Fallback
  <2>2. drift[i] \in SUBSET Changes
    BY <1>1, <2>1
  <2>3. QED
    BY <1>2, <2>2
<1>4. drift' \in [Setups -> (SUBSET Changes) \cup {{None}}]
  <2> DEFINE left == {c \in drift[i] : FallbackKinds(c) # FallbackKinds(change)}
  <2>1. drift' = [drift EXCEPT ![i] = left] /\ left \in SUBSET Changes
    BY <1>2, <1>3
  <2> HIDE DEF left
  <2>2. QED
    BY <2>1 DEF TypeOK, WatcherTypes
<1> DEFINE kinds == FallbackKinds(change)
           once == Enqueued(events[i], kinds[1])
           after == IF Len(kinds) = 2 THEN Enqueued(once, kinds[2]) ELSE once
<1>5. kinds \in {<<"files">>, <<"snapshot", "graph">>}
  BY DEF FallbackKinds
<1>6. events' = [events EXCEPT ![i] = after] /\ events'[i] = after
  BY <1>1, <1>2
<1>7. /\ after \in Seq(Kinds) /\ Len(after) <= Capacity
      /\ \A k : Queued(events[i], k) \/ k \in Covered(Elements(kinds)) => Queued(after, k)
  <2>1. CASE kinds = <<"files">>
    <3>1. Len(kinds) = 1 /\ kinds[1] = "files" /\ "files" \in Kinds /\ Elements(kinds) = {"files"}
      BY <2>1 DEF Kinds, Elements
    <3>2. after = Enqueued(events[i], "files")
      BY <3>1
    <3>3. Covered(Elements(kinds)) = Covers("files")
      BY <3>1 DEF Covered
    <3> HIDE DEF kinds, after
    <3>4. QED
      BY <1>1, <3>1, <3>2, <3>3, EnqueuedKeeps
  <2>2. CASE kinds = <<"snapshot", "graph">>
    <3>1. /\ Len(kinds) = 2 /\ kinds[1] = "snapshot" /\ kinds[2] = "graph"
          /\ Elements(kinds) = {"snapshot", "graph"}
      BY <2>2 DEF Elements
    <3>2. after = Enqueued(once, "graph") /\ once = Enqueued(events[i], "snapshot")
      BY <3>1
    <3>3. Covered(Elements(kinds)) = Covers("snapshot") \cup Covers("graph")
      BY <3>1 DEF Covered
    <3>4. "snapshot" \in Kinds /\ "graph" \in Kinds
      BY DEF Kinds
    <3> HIDE DEF kinds, after, once
    <3>5. /\ once \in Seq(Kinds) /\ Len(once) <= Capacity
          /\ \A k : k \in Covers("snapshot") \/ Queued(events[i], k) => Queued(once, k)
      BY <1>1, <3>2, <3>4, EnqueuedKeeps
    <3>6. /\ after \in Seq(Kinds) /\ Len(after) <= Capacity
          /\ \A k : k \in Covers("graph") \/ Queued(once, k) => Queued(after, k)
      BY <3>2, <3>4, <3>5, EnqueuedKeeps
    <3>7. QED
      BY <3>3, <3>5, <3>6
  <2>3. QED
    BY <1>5, <2>1, <2>2
<1>8. drift'[i] = {c \in drift[i] : FallbackKinds(c) # kinds}
  BY <1>2 DEF TypeOK, WatcherTypes
<1> HIDE DEF kinds, after, once
<1>9. Drifting(i) \subseteq Elements(kinds) \cup Drifting(i)'
  BY <1>8 DEF Drifting
<1>10. Covered(Drifting(i)) \subseteq Covered(Elements(kinds)) \cup Covered(Drifting(i)')
  BY <1>9 DEF Covered
<1>11. QED
  BY <1>1, <1>6, <1>7, <1>10, <1>4

\* A forwarding goroutine that exists goes on existing.
LEMMA Forwarding ==
  ASSUME TypeOK, NEW i \in Setups, ForwardStep(i)
  PROVE  \A j \in Setups : forward'[j] # "none" <=> forward[j] # "none"
<1>1. forward \in [Setups -> {"none", "idle", "done"} \cup Kinds] /\ "none" \notin Kinds
  BY DEF TypeOK, SourceTypes, Kinds
<1>2. CASE Receive(i)
  <2>1. events[i] \in Seq(Kinds) /\ events[i] # <<>>
    BY <1>2 DEF Receive, TypeOK, WatcherTypes
  <2>2. Head(events[i]) \in Kinds
    BY <2>1, Parted
  <2>3. QED
    BY <1>1, <1>2, <2>2 DEF Receive, ForwardTo
<1>3. CASE Send(i)
  BY <1>1, <1>3 DEF Send, ForwardTo
<1>4. CASE ForwardEnds(i)
  BY <1>1, <1>4 DEF ForwardEnds, ForwardTo
<1>5. QED
  BY <1>2, <1>3, <1>4 DEF ForwardStep

-----------------------------------------------------------------------------
(* Every step keeps the types.                                            *)

\* The watchers.
LEMMA WatcherTypesStep == Inv /\ [Next]_vars => WatcherTypes'
<1> SUFFICES ASSUME Inv, [Next]_vars PROVE WatcherTypes'
  OBVIOUS
<1> DEFINE seen == <<watcher, pending, events, drift>>
<1>0. TypeOK
  BY DEF Inv
<1> USE EventAssumption, <1>0 DEF WatcherTypes, TypeOK
<1>1. ASSUME NEW change \in Changes, Change(change) PROVE WatcherTypes'
  <2>1. KindsOf(change) \in SUBSET Kinds
    BY DEF KindsOf, Kinds, Changes
  <2>2. pending' \in [Setups -> SUBSET Kinds]
    BY <1>1, <2>1 DEF Change
  <2>3. drift' \in [Setups -> (SUBSET Changes) \cup {{None}}]
    BY <1>1 DEF Change
  <2>4. QED
    BY <1>1, <2>2, <2>3 DEF Change
<1>2. ASSUME NEW i \in Setups, Overflow(i) PROVE WatcherTypes'
  BY <1>2 DEF Overflow, Kinds
<1>3. ASSUME NEW i \in Setups, Flush(i) PROVE WatcherTypes'
  <2>1. PICK kind \in pending[i] : events' = [events EXCEPT ![i] = Enqueued(@, kind)]
    BY <1>3 DEF Flush
  <2>2. /\ events[i] \in Seq(Kinds) /\ Len(events[i]) <= Capacity /\ kind \in Kinds
    OBVIOUS
  <2>3. Enqueued(events[i], kind) \in Seq(Kinds) /\ Len(Enqueued(events[i], kind)) <= Capacity
    BY <2>2, EnqueuedKeeps
  <2>4. pending' \in [Setups -> SUBSET Kinds]
    BY <1>3 DEF Flush
  <2>5. UNCHANGED <<watcher, drift>>
    BY <1>3 DEF Flush
  <2>6. QED
    BY <2>1, <2>3, <2>4, <2>5
<1>4. ASSUME NEW i \in Setups, Fingerprint(i) PROVE WatcherTypes'
  BY <1>4 DEF Fingerprint
<1>5. ASSUME NEW i \in Setups, Fallback(i) PROVE WatcherTypes'
  <2>1. events' \in [Setups -> Seq(Kinds)] /\ Len(events'[i]) <= Capacity
    BY <1>5, FallbackKeeps
  <2>2. \A j \in Setups : j # i => events'[j] = events[j]
    BY <1>5 DEF Fallback
  <2>3. drift' \in [Setups -> (SUBSET Changes) \cup {{None}}]
    BY <1>5, FallbackKeeps
  <2>4. UNCHANGED <<watcher, pending>>
    BY <1>5 DEF Fallback
  <2>5. QED
    BY <2>1, <2>2, <2>3, <2>4
<1>6. ASSUME NEW i \in Setups, BeginSetup(i) PROVE WatcherTypes'
  BY <1>6 DEF BeginSetup, SetupTo, SetupGone
<1>7. ASSUME NEW i \in Setups, Build(i) PROVE WatcherTypes'
  BY <1>7 DEF Build, SetupTo
<1>8. ASSUME NEW i \in Setups, BuildFails(i) PROVE WatcherTypes'
  BY <1>8 DEF BuildFails, SetupTo, Closed
<1>9. ASSUME NEW i \in Setups, Discard(i) PROVE WatcherTypes'
  BY <1>9 DEF Discard, SetupTo, Closed
<1>10. ASSUME NEW i \in Setups, ClosePrevious(i) PROVE WatcherTypes'
  BY <1>10 DEF ClosePrevious, SetupTo, Closed, watcherVars
<1>11. ASSUME NEW i \in Setups, Receive(i) PROVE WatcherTypes'
  <2>1. /\ Tail(events[i]) \in Seq(Kinds) /\ Len(Tail(events[i])) = Len(events[i]) - 1
        /\ Len(events[i]) \in Nat
    BY <1>11, Parted DEF Receive
  <2>2. events' = [events EXCEPT ![i] = Tail(@)] /\ UNCHANGED <<watcher, pending, drift>>
    BY <1>11 DEF Receive
  <2>3. QED
    BY <2>1, <2>2
<1>12. CASE StopWatcher
  BY <1>12 DEF StopWatcher, Closed, watcherVars
<1>13. ASSUME UNCHANGED seen PROVE WatcherTypes'
  BY <1>13
<1>14. ASSUME NEW i \in Setups,
             CancelledSetup(i) \/ Install(i) \/ Reconcile(i) \/ Send(i) \/ ForwardEnds(i)
      PROVE  UNCHANGED seen
  BY <1>14 DEF CancelledSetup, Install, Reconcile, Send, ForwardEnds, watcherVars
<1>15. ASSUME NEW s \in Subscribers,
             Subscribe(s) \/ Unsubscribe(s) \/ Hear(s)
      PROVE  UNCHANGED seen
  BY <1>15 DEF Subscribe, Unsubscribe, Hear, watcherVars
<1>16. ASSUME StartWatcher \/ BeginStop \/ StopSetups \/ StopFlushes \/ StopForwards \/ Dispatch \/ CloseHub
      PROVE  UNCHANGED seen
  BY <1>16 DEF StartWatcher, BeginStop, StopSetups, StopFlushes, StopForwards, Dispatch, CloseHub,
     watcherVars
<1>17. CASE UNCHANGED vars
  BY <1>17, <1>13 DEF vars, watcherVars
<1>18. QED
  BY <1>1, <1>2, <1>3, <1>4, <1>5, <1>6, <1>7, <1>8, <1>9, <1>10, <1>11, <1>12, <1>13,
     <1>14, <1>15, <1>16, <1>17
     DEF Next, WatcherStep, SetupStep, ForwardStep, StopStep, HubStep, Quiescent

\* The setups.
LEMMA SetupTypesStep == Inv /\ [Next]_vars => SetupTypes'
<1> SUFFICES ASSUME Inv, [Next]_vars PROVE SetupTypes'
  OBVIOUS
<1> DEFINE seen == <<setup, cancelled, previous, installed, latest>>
<1>0. TypeOK
  BY DEF Inv
<1> USE EventAssumption, <1>0 DEF SetupTypes, TypeOK, Setups
<1>1. ASSUME NEW i \in Setups, BeginSetup(i) PROVE SetupTypes'
  BY <1>1 DEF BeginSetup, SetupTo, SetupGone
<1>2. ASSUME NEW i \in Setups, CancelledSetup(i) PROVE SetupTypes'
  BY <1>2 DEF CancelledSetup, SetupTo
<1>3. ASSUME NEW i \in Setups, Build(i) PROVE SetupTypes'
  BY <1>3 DEF Build, SetupTo
<1>4. ASSUME NEW i \in Setups, BuildFails(i) PROVE SetupTypes'
  BY <1>4 DEF BuildFails, SetupTo, Closed
<1>5. ASSUME NEW i \in Setups, Install(i) PROVE SetupTypes'
  BY <1>5 DEF Install, SetupTo, Superseded
<1>6. ASSUME NEW i \in Setups, Discard(i) PROVE SetupTypes'
  BY <1>6 DEF Discard, SetupTo, Closed
<1>7. ASSUME NEW i \in Setups, ClosePrevious(i) PROVE SetupTypes'
  BY <1>7 DEF ClosePrevious, SetupTo, Closed
<1>8. ASSUME NEW i \in Setups, Reconcile(i) PROVE SetupTypes'
  BY <1>8 DEF Reconcile, SetupTo
<1>9. CASE StartWatcher
  BY <1>9 DEF StartWatcher
<1>10. CASE BeginStop
  BY <1>10 DEF BeginStop
<1>11. CASE StopWatcher
  BY <1>11 DEF StopWatcher, Closed
<1>12. ASSUME UNCHANGED seen PROVE SetupTypes'
  BY <1>12
<1>13. ASSUME NEW change \in Changes,
             Change(change)
      PROVE  UNCHANGED seen
  BY <1>13 DEF Change, setupVars
<1>14. ASSUME NEW i \in Setups,
             Overflow(i) \/ Flush(i) \/ Fingerprint(i) \/ Fallback(i) \/ Receive(i)
             \/ Send(i) \/ ForwardEnds(i)
      PROVE  UNCHANGED seen
  BY <1>14 DEF Overflow, Flush, Fingerprint, Fallback, Receive, Send, ForwardEnds, setupVars
<1>15. ASSUME NEW s \in Subscribers,
             Subscribe(s) \/ Unsubscribe(s) \/ Hear(s)
      PROVE  UNCHANGED seen
  BY <1>15 DEF Subscribe, Unsubscribe, Hear, setupVars
<1>16. ASSUME StopSetups \/ StopFlushes \/ StopForwards \/ Dispatch \/ CloseHub
      PROVE  UNCHANGED seen
  BY <1>16 DEF StopSetups, StopFlushes, StopForwards, Dispatch, CloseHub, setupVars
<1>17. CASE UNCHANGED vars
  BY <1>17, <1>12 DEF vars, setupVars
<1>18. QED
  BY <1>1, <1>2, <1>3, <1>4, <1>5, <1>6, <1>7, <1>8, <1>9, <1>10, <1>11, <1>12, <1>13,
     <1>14, <1>15, <1>16, <1>17
     DEF Next, WatcherStep, SetupStep, ForwardStep, StopStep, HubStep, Quiescent

\* The session's channel and the goroutines that feed it.
LEMMA SourceTypesStep == Inv /\ [Next]_vars => SourceTypes'
<1> SUFFICES ASSUME Inv, [Next]_vars PROVE SourceTypes'
  OBVIOUS
<1> DEFINE seen == <<forward, stop, source>>
<1>0. TypeOK
  BY DEF Inv
<1> USE EventAssumption, <1>0 DEF SourceTypes, TypeOK
<1>1. ASSUME NEW i \in Setups, Install(i) PROVE SourceTypes'
  BY <1>1 DEF Install, SetupTo, Superseded
<1>2. ASSUME NEW i \in Setups, Reconcile(i) PROVE SourceTypes'
  <2>1. CASE UNCHANGED source
    BY <1>2, <2>1 DEF Reconcile
  <2>2. ASSUME NEW k \in {"files", "graph"}, source' = Append(source, k), Len(source) < Capacity
        PROVE  SourceTypes'
    <3>1. k \in Kinds /\ Len(source) \in Nat
      BY DEF Kinds
    <3>2. Append(source, k) \in Seq(Kinds) /\ Len(Append(source, k)) = Len(source) + 1
      BY <3>1, Appended
    <3>3. Len(source') <= Capacity
      BY <2>2, <3>1, <3>2
    <3>4. QED
      BY <1>2, <2>2, <3>2, <3>3 DEF Reconcile
  <2>3. QED
    BY <1>2, <2>1, <2>2 DEF Reconcile
<1>3. ASSUME NEW i \in Setups, Receive(i) PROVE SourceTypes'
  <2>1. Head(events[i]) \in Kinds
    BY <1>3, Parted DEF Receive, WatcherTypes
  <2>2. QED
    BY <1>3, <2>1 DEF Receive, ForwardTo
<1>4. ASSUME NEW i \in Setups, Send(i) PROVE SourceTypes'
  <2>1. source' = Append(source, forward[i]) /\ Len(source) < Capacity /\ forward[i] \in Kinds
    BY <1>4 DEF Send
  <2>2. /\ Append(source, forward[i]) \in Seq(Kinds) /\ Len(source) \in Nat
        /\ Len(Append(source, forward[i])) = Len(source) + 1
    BY <2>1, Appended
  <2>3. Len(source') <= Capacity
    BY <2>1, <2>2
  <2>4. QED
    BY <1>4, <2>1, <2>2, <2>3 DEF Send, ForwardTo
<1>5. ASSUME NEW i \in Setups, ForwardEnds(i) PROVE SourceTypes'
  BY <1>5 DEF ForwardEnds, ForwardTo
<1>6. CASE BeginStop
  BY <1>6 DEF BeginStop
<1>7. CASE StopSetups \/ StopFlushes
  BY <1>7 DEF StopSetups, StopFlushes, SetupGone
<1>8. CASE StopWatcher
  BY <1>8 DEF StopWatcher, Closed
<1>9. CASE StopForwards
  BY <1>9 DEF StopForwards
<1>10. CASE Dispatch
  <2>1. Tail(source) \in Seq(Kinds) /\ Len(Tail(source)) = Len(source) - 1 /\ Len(source) \in Nat
    BY <1>10, Parted DEF Dispatch
  <2>2. source' = Tail(source) /\ UNCHANGED <<forward, stop>>
    BY <1>10 DEF Dispatch
  <2>3. QED
    BY <2>1, <2>2
<1>11. ASSUME UNCHANGED seen PROVE SourceTypes'
  BY <1>11
<1>12. ASSUME NEW change \in Changes,
             Change(change)
      PROVE  UNCHANGED seen
  BY <1>12 DEF Change, sourceVars
<1>13. ASSUME NEW i \in Setups,
             Overflow(i) \/ Flush(i) \/ Fingerprint(i) \/ Fallback(i) \/ BeginSetup(i)
             \/ CancelledSetup(i) \/ Build(i) \/ BuildFails(i) \/ Discard(i)
             \/ ClosePrevious(i)
      PROVE  UNCHANGED seen
  BY <1>13 DEF Overflow, Flush, Fingerprint, Fallback, BeginSetup, CancelledSetup, Build,
     BuildFails, Closed, Discard, ClosePrevious, sourceVars
<1>14. ASSUME NEW s \in Subscribers,
             Subscribe(s) \/ Unsubscribe(s) \/ Hear(s)
      PROVE  UNCHANGED seen
  BY <1>14 DEF Subscribe, Unsubscribe, Hear, sourceVars
<1>15. ASSUME StartWatcher \/ CloseHub
      PROVE  UNCHANGED seen
  BY <1>15 DEF StartWatcher, CloseHub, sourceVars
<1>16. CASE UNCHANGED vars
  BY <1>16, <1>11 DEF vars, sourceVars
<1>17. QED
  BY <1>1, <1>2, <1>3, <1>4, <1>5, <1>6, <1>7, <1>8, <1>9, <1>10, <1>11, <1>12, <1>13,
     <1>14, <1>15, <1>16
     DEF Next, WatcherStep, SetupStep, ForwardStep, StopStep, HubStep, Quiescent

\* The hub and its streams.
LEMMA HubTypesStep == Inv /\ [Next]_vars => HubTypes'
<1> SUFFICES ASSUME Inv, [Next]_vars PROVE HubTypes'
  OBVIOUS
<1> DEFINE seen == <<hub, unseen, changes, stream, buffer>>
<1>0. TypeOK
  BY DEF Inv
<1> USE EventAssumption, <1>0 DEF HubTypes, TypeOK
<1>1. ASSUME NEW change \in Changes, Change(change) PROVE HubTypes'
  <2>1. Covered(KindsOf(change)) \in SUBSET Kinds
    BY DEF KindsOf, Kinds, Changes, Covered, Covers
  <2>2. unseen' \in [Subscribers -> SUBSET Kinds]
    BY <1>1, <2>1 DEF Change
  <2>3. QED
    BY <1>1, <2>2 DEF Change, streamVars
<1>2. ASSUME NEW i \in Setups, Overflow(i) PROVE HubTypes'
  BY <1>2 DEF Overflow, streamVars
<1>3. ASSUME NEW s \in Subscribers, Subscribe(s) PROVE HubTypes'
  BY <1>3 DEF Subscribe
<1>4. ASSUME NEW s \in Subscribers, Unsubscribe(s) PROVE HubTypes'
  <2>1. <<>> \in Seq(Kinds) /\ Len(<<>>) = 0
    OBVIOUS
  <2>2. stream' \in [Subscribers -> {"none", "open", "closed"}] /\ UNCHANGED <<hub, changes>>
    BY <1>4 DEF Unsubscribe
  <2>3. unseen' \in [Subscribers -> SUBSET Kinds] /\ buffer' = [buffer EXCEPT ![s] = <<>>]
    BY <1>4 DEF Unsubscribe
  <2>4. QED
    BY <2>1, <2>2, <2>3
<1>5. ASSUME NEW s \in Subscribers, Hear(s) PROVE HubTypes'
  <2>1. buffer[s] \in Seq(Kinds) /\ buffer[s] # <<>> /\ Len(buffer[s]) <= Capacity
    BY <1>5 DEF Hear
  <2>2. /\ Tail(buffer[s]) \in Seq(Kinds) /\ Len(Tail(buffer[s])) = Len(buffer[s]) - 1
        /\ Len(buffer[s]) \in Nat
    BY <2>1, Parted
  <2>3. buffer' = [buffer EXCEPT ![s] = Tail(@)] /\ unseen' \in [Subscribers -> SUBSET Kinds]
    BY <1>5 DEF Hear
  <2>4. UNCHANGED <<hub, stream, changes>>
    BY <1>5 DEF Hear
  <2>5. QED
    BY <2>1, <2>2, <2>3, <2>4
<1>6. CASE Dispatch
  <2>1. source \in Seq(Kinds) /\ source # <<>>
    BY <1>6 DEF Dispatch, SourceTypes
  <2>2. Head(source) \in Kinds
    BY <2>1, Parted
  <2>3. ASSUME NEW s \in Subscribers
        PROVE  /\ Enqueued(buffer[s], Head(source)) \in Seq(Kinds)
               /\ Len(Enqueued(buffer[s], Head(source))) <= Capacity
    BY <2>2, EnqueuedKeeps
  <2>4. buffer' = [s \in Subscribers |->
                     IF stream[s] = "open" THEN Enqueued(buffer[s], Head(source)) ELSE buffer[s]]
    BY <1>6 DEF Dispatch
  <2>5. /\ buffer' \in [Subscribers -> Seq(Kinds)]
        /\ \A s \in Subscribers : Len(buffer'[s]) <= Capacity
    BY <2>3, <2>4
  <2>6. QED
    BY <1>6, <2>5 DEF Dispatch
<1>7. CASE CloseHub
  BY <1>7 DEF CloseHub
<1>8. ASSUME UNCHANGED seen PROVE HubTypes'
  BY <1>8
<1>9. ASSUME NEW i \in Setups,
             Flush(i) \/ Fingerprint(i) \/ Fallback(i) \/ BeginSetup(i)
             \/ CancelledSetup(i) \/ Build(i) \/ BuildFails(i) \/ Install(i) \/ Discard(i)
             \/ ClosePrevious(i) \/ Reconcile(i) \/ Receive(i) \/ Send(i) \/ ForwardEnds(i)
      PROVE  UNCHANGED seen
  BY <1>9 DEF Flush, Fingerprint, Fallback, BeginSetup, CancelledSetup, Build, BuildFails,
     Closed, Install, Discard, ClosePrevious, Reconcile, Receive, Send, ForwardEnds,
     streamVars
<1>10. ASSUME StartWatcher \/ BeginStop \/ StopSetups \/ StopFlushes \/ StopWatcher \/ StopForwards
      PROVE  UNCHANGED seen
  BY <1>10 DEF StartWatcher, BeginStop, StopSetups, StopFlushes, StopWatcher, Closed, StopForwards,
     streamVars
<1>11. CASE UNCHANGED vars
  BY <1>11, <1>8 DEF vars, streamVars
<1>12. QED
  BY <1>1, <1>2, <1>3, <1>4, <1>5, <1>6, <1>7, <1>8, <1>9, <1>10, <1>11
     DEF Next, WatcherStep, SetupStep, ForwardStep, StopStep, HubStep, Quiescent

-----------------------------------------------------------------------------
(* Setups, the watchers they build, and stop.                             *)

\* Where a setup is tells where its watcher is.
LEMMA SetupsAgreeStep == Inv /\ [Next]_vars => SetupsAgree'
<1> SUFFICES ASSUME Inv, [Next]_vars PROVE SetupsAgree'
  OBVIOUS
<1> DEFINE seen == <<setup, latest, watcher, forward>>
<1>0. TypeOK /\ SetupsAgree /\ InstalledIsLive
  BY DEF Inv
<1>1. /\ setup = [i \in Setups |-> setup[i]] /\ latest \in Setups
      /\ watcher \in [Setups -> {"none", "building", "live", "closed"}]
      /\ forward \in [Setups -> {"none", "idle", "done"} \cup Kinds]
      /\ previous \in [Setups -> Setups \cup {None}] /\ installed \in Setups \cup {None}
  BY <1>0 DEF TypeOK, WatcherTypes, SetupTypes, SourceTypes
<1> USE EventAssumption, <1>0, <1>1 DEF SetupsAgree, Setups
<1>2. ASSUME NEW i \in Setups, BeginSetup(i) PROVE SetupsAgree'
  BY <1>2 DEF BeginSetup, SetupTo, SetupGone, sourceVars
<1>3. ASSUME NEW i \in Setups, CancelledSetup(i) PROVE SetupsAgree'
  BY <1>3 DEF CancelledSetup, SetupTo, watcherVars, sourceVars
<1>4. ASSUME NEW i \in Setups, Build(i) PROVE SetupsAgree'
  BY <1>4 DEF Build, SetupTo, sourceVars
<1>5. ASSUME NEW i \in Setups, BuildFails(i) PROVE SetupsAgree'
  BY <1>5 DEF BuildFails, SetupTo, Closed, sourceVars
<1>6. ASSUME NEW i \in Setups, Install(i) PROVE SetupsAgree'
  BY <1>6 DEF Install, SetupTo, Superseded, watcherVars
<1>7. ASSUME NEW i \in Setups, Discard(i) PROVE SetupsAgree'
  BY <1>7 DEF Discard, SetupTo, Closed, sourceVars
<1>8. ASSUME NEW i \in Setups, ClosePrevious(i) PROVE SetupsAgree'
  BY <1>8 DEF ClosePrevious, SetupTo, Closed, watcherVars, sourceVars, InstalledIsLive
<1>9. ASSUME NEW i \in Setups, Reconcile(i) PROVE SetupsAgree'
  BY <1>9 DEF Reconcile, SetupTo, watcherVars
<1>10. ASSUME NEW i \in Setups, Receive(i) PROVE SetupsAgree'
  <2>1. \A j \in Setups : forward'[j] # "none" <=> forward[j] # "none"
    BY <1>10, Forwarding DEF ForwardStep
  <2>2. UNCHANGED <<setup, latest, watcher>>
    BY <1>10 DEF Receive, watcherVars, setupVars
  <2>3. QED
    BY <2>1, <2>2
<1>11. ASSUME NEW i \in Setups, Send(i) PROVE SetupsAgree'
  <2>1. \A j \in Setups : forward'[j] # "none" <=> forward[j] # "none"
    BY <1>11, Forwarding DEF ForwardStep
  <2>2. UNCHANGED <<setup, latest, watcher>>
    BY <1>11 DEF Send, watcherVars, setupVars
  <2>3. QED
    BY <2>1, <2>2
<1>12. ASSUME NEW i \in Setups, ForwardEnds(i) PROVE SetupsAgree'
  <2>1. \A j \in Setups : forward'[j] # "none" <=> forward[j] # "none"
    BY <1>12, Forwarding DEF ForwardStep
  <2>2. UNCHANGED <<setup, latest, watcher>>
    BY <1>12 DEF ForwardEnds, watcherVars, setupVars
  <2>3. QED
    BY <2>1, <2>2
<1>13. CASE StartWatcher
  BY <1>13 DEF StartWatcher, watcherVars, sourceVars
<1>14. CASE StopWatcher
  BY <1>14 DEF StopWatcher, Closed, watcherVars, InstalledIsLive
<1>15. ASSUME UNCHANGED seen PROVE SetupsAgree'
  BY <1>15
<1>16. ASSUME NEW change \in Changes,
             Change(change)
      PROVE  UNCHANGED seen
  BY <1>16 DEF Change, setupVars, sourceVars
<1>17. ASSUME NEW i \in Setups,
             Overflow(i) \/ Flush(i) \/ Fingerprint(i) \/ Fallback(i)
      PROVE  UNCHANGED seen
  BY <1>17 DEF Overflow, Flush, Fingerprint, Fallback, setupVars, sourceVars
<1>18. ASSUME NEW s \in Subscribers,
             Subscribe(s) \/ Unsubscribe(s) \/ Hear(s)
      PROVE  UNCHANGED seen
  BY <1>18 DEF Subscribe, Unsubscribe, Hear, watcherVars, setupVars, sourceVars
<1>19. ASSUME BeginStop \/ StopSetups \/ StopFlushes \/ StopForwards \/ Dispatch \/ CloseHub
      PROVE  UNCHANGED seen
  BY <1>19 DEF BeginStop, StopSetups, StopFlushes, StopForwards, Dispatch, CloseHub, watcherVars,
     setupVars, sourceVars
<1>20. CASE UNCHANGED vars
  BY <1>20, <1>15 DEF vars, watcherVars, setupVars, sourceVars
<1>21. QED
  BY <1>2, <1>3, <1>4, <1>5, <1>6, <1>7, <1>8, <1>9, <1>10, <1>11, <1>12, <1>13, <1>14,
     <1>15, <1>16, <1>17, <1>18, <1>19, <1>20
     DEF Next, WatcherStep, SetupStep, ForwardStep, StopStep, HubStep, Quiescent

\* The installed watcher is live.
LEMMA InstalledIsLiveStep == Inv /\ [Next]_vars => InstalledIsLive'
<1> SUFFICES ASSUME Inv, [Next]_vars PROVE InstalledIsLive'
  OBVIOUS
<1> DEFINE seen == <<installed, watcher, forward, stop, previous>>
<1>0. TypeOK /\ SetupsAgree /\ InstalledIsLive
  BY DEF Inv
<1>1. /\ installed \in Setups \cup {None}
      /\ watcher \in [Setups -> {"none", "building", "live", "closed"}]
      /\ forward \in [Setups -> {"none", "idle", "done"} \cup Kinds]
      /\ stop \in {"open", "setups", "flush", "watcher", "forwards", "stopped"}
      /\ previous \in [Setups -> Setups \cup {None}] /\ setup = [i \in Setups |-> setup[i]]
  BY <1>0 DEF TypeOK, WatcherTypes, SetupTypes, SourceTypes
<1> USE EventAssumption, <1>0, <1>1 DEF InstalledIsLive
<1>2. ASSUME NEW i \in Setups, BeginSetup(i) PROVE InstalledIsLive'
  BY <1>2 DEF BeginSetup, SetupTo, SetupGone, sourceVars, SetupsAgree
<1>3. ASSUME NEW i \in Setups, Build(i) PROVE InstalledIsLive'
  BY <1>3 DEF Build, SetupTo, sourceVars, SetupsAgree
<1>4. ASSUME NEW i \in Setups, BuildFails(i) PROVE InstalledIsLive'
  BY <1>4 DEF BuildFails, SetupTo, Closed, sourceVars, SetupsAgree
<1>5. ASSUME NEW i \in Setups, Install(i) PROVE InstalledIsLive'
  BY <1>5 DEF Install, SetupTo, Superseded, watcherVars, SetupsAgree
<1>6. ASSUME NEW i \in Setups, Discard(i) PROVE InstalledIsLive'
  BY <1>6 DEF Discard, SetupTo, Closed, sourceVars, SetupsAgree
<1>7. ASSUME NEW i \in Setups, ClosePrevious(i) PROVE InstalledIsLive'
  BY <1>7 DEF ClosePrevious, SetupTo, Closed, watcherVars, sourceVars
<1>8. ASSUME NEW i \in Setups, Receive(i) PROVE InstalledIsLive'
  <2>1. \A j \in Setups : forward'[j] # "none" <=> forward[j] # "none"
    BY <1>8, Forwarding DEF ForwardStep
  <2>2. UNCHANGED <<installed, watcher, stop, previous>>
    BY <1>8 DEF Receive, watcherVars, setupVars
  <2>3. QED
    BY <2>1, <2>2
<1>9. ASSUME NEW i \in Setups, Send(i) PROVE InstalledIsLive'
  <2>1. \A j \in Setups : forward'[j] # "none" <=> forward[j] # "none"
    BY <1>9, Forwarding DEF ForwardStep
  <2>2. UNCHANGED <<installed, watcher, stop, previous>>
    BY <1>9 DEF Send, watcherVars, setupVars
  <2>3. QED
    BY <2>1, <2>2
<1>10. ASSUME NEW i \in Setups, ForwardEnds(i) PROVE InstalledIsLive'
  <2>1. \A j \in Setups : forward'[j] # "none" <=> forward[j] # "none"
    BY <1>10, Forwarding DEF ForwardStep
  <2>2. UNCHANGED <<installed, watcher, stop, previous>>
    BY <1>10 DEF ForwardEnds, watcherVars, setupVars
  <2>3. QED
    BY <2>1, <2>2
<1>11. CASE BeginStop
  BY <1>11 DEF BeginStop, watcherVars
<1>12. CASE StopSetups \/ StopFlushes
  BY <1>12 DEF StopSetups, StopFlushes, SetupGone, watcherVars, setupVars
<1>13. CASE StopWatcher
  BY <1>13 DEF StopWatcher, Closed, watcherVars
<1>14. CASE StopForwards
  BY <1>14 DEF StopForwards, watcherVars, setupVars
<1>15. ASSUME UNCHANGED seen PROVE InstalledIsLive'
  BY <1>15
<1>16. ASSUME NEW change \in Changes,
             Change(change)
      PROVE  UNCHANGED seen
  BY <1>16 DEF Change, setupVars, sourceVars
<1>17. ASSUME NEW i \in Setups,
             Overflow(i) \/ Flush(i) \/ Fingerprint(i) \/ Fallback(i) \/ CancelledSetup(i)
             \/ Reconcile(i)
      PROVE  UNCHANGED seen
  BY <1>17 DEF Overflow, Flush, Fingerprint, Fallback, CancelledSetup, Reconcile,
     watcherVars, setupVars, sourceVars
<1>18. ASSUME NEW s \in Subscribers,
             Subscribe(s) \/ Unsubscribe(s) \/ Hear(s)
      PROVE  UNCHANGED seen
  BY <1>18 DEF Subscribe, Unsubscribe, Hear, watcherVars, setupVars, sourceVars
<1>19. ASSUME StartWatcher \/ Dispatch \/ CloseHub
      PROVE  UNCHANGED seen
  BY <1>19 DEF StartWatcher, Dispatch, CloseHub, watcherVars, setupVars, sourceVars
<1>20. CASE UNCHANGED vars
  BY <1>20, <1>15 DEF vars, watcherVars, setupVars, sourceVars
<1>21. QED
  BY <1>2, <1>3, <1>4, <1>5, <1>6, <1>7, <1>8, <1>9, <1>10, <1>11, <1>12, <1>13, <1>14,
     <1>15, <1>16, <1>17, <1>18, <1>19, <1>20
     DEF Next, WatcherStep, SetupStep, ForwardStep, StopStep, HubStep, Quiescent

\* stop waits for what it started.
LEMMA StopOrderStep == Inv /\ [Next]_vars => StopOrder'
<1> SUFFICES ASSUME Inv, [Next]_vars PROVE StopOrder'
  OBVIOUS
<1> DEFINE seen == <<setup, installed, forward, stop>>
<1>0. TypeOK /\ StopOrder /\ InstalledIsLive
  BY DEF Inv
<1>1. /\ setup = [i \in Setups |-> setup[i]] /\ installed \in Setups \cup {None}
      /\ forward \in [Setups -> {"none", "idle", "done"} \cup Kinds]
      /\ stop \in {"open", "setups", "flush", "watcher", "forwards", "stopped"}
      /\ events \in [Setups -> Seq(Kinds)]
  BY <1>0 DEF TypeOK, WatcherTypes, SetupTypes, SourceTypes
<1> USE EventAssumption, <1>0, <1>1 DEF StopOrder, SetupGone
<1>2. ASSUME NEW i \in Setups, BeginSetup(i) PROVE StopOrder'
  BY <1>2 DEF BeginSetup, SetupTo, SetupGone, sourceVars
<1>3. ASSUME NEW i \in Setups, CancelledSetup(i) PROVE StopOrder'
  BY <1>3 DEF CancelledSetup, SetupTo, sourceVars
<1>4. ASSUME NEW i \in Setups, Build(i) PROVE StopOrder'
  BY <1>4 DEF Build, SetupTo, sourceVars
<1>5. ASSUME NEW i \in Setups, BuildFails(i) PROVE StopOrder'
  BY <1>5 DEF BuildFails, SetupTo, Closed, sourceVars
<1>6. ASSUME NEW i \in Setups, Install(i) PROVE StopOrder'
  BY <1>6 DEF Install, SetupTo, Superseded
<1>7. ASSUME NEW i \in Setups, Discard(i) PROVE StopOrder'
  BY <1>7 DEF Discard, SetupTo, Closed, sourceVars
<1>8. ASSUME NEW i \in Setups, ClosePrevious(i) PROVE StopOrder'
  BY <1>8 DEF ClosePrevious, SetupTo, Closed, sourceVars
<1>9. ASSUME NEW i \in Setups, Reconcile(i) PROVE StopOrder'
  BY <1>9 DEF Reconcile, SetupTo
<1>10. ASSUME NEW i \in Setups, Receive(i) PROVE StopOrder'
  BY <1>10 DEF Receive, ForwardTo, setupVars
<1>11. ASSUME NEW i \in Setups, Send(i) PROVE StopOrder'
  BY <1>11 DEF Send, ForwardTo, setupVars, Kinds
<1>12. ASSUME NEW i \in Setups, ForwardEnds(i) PROVE StopOrder'
  BY <1>12 DEF ForwardEnds, ForwardTo, setupVars
<1>13. CASE StartWatcher
  BY <1>13 DEF StartWatcher, sourceVars
<1>14. CASE BeginStop
  BY <1>14 DEF BeginStop
<1>15. CASE StopSetups \/ StopFlushes
  BY <1>15 DEF StopSetups, StopFlushes, SetupGone, setupVars
<1>16. CASE StopWatcher
  BY <1>16 DEF StopWatcher, Closed
<1>17. CASE StopForwards
  BY <1>17 DEF StopForwards, setupVars
<1>18. ASSUME UNCHANGED seen PROVE StopOrder'
  BY <1>18
<1>19. ASSUME NEW change \in Changes,
             Change(change)
      PROVE  UNCHANGED seen
  BY <1>19 DEF Change, setupVars, sourceVars
<1>20. ASSUME NEW i \in Setups,
             Overflow(i) \/ Flush(i) \/ Fingerprint(i) \/ Fallback(i)
      PROVE  UNCHANGED seen
  BY <1>20 DEF Overflow, Flush, Fingerprint, Fallback, setupVars, sourceVars
<1>21. ASSUME NEW s \in Subscribers,
             Subscribe(s) \/ Unsubscribe(s) \/ Hear(s)
      PROVE  UNCHANGED seen
  BY <1>21 DEF Subscribe, Unsubscribe, Hear, setupVars, sourceVars
<1>22. ASSUME Dispatch \/ CloseHub
      PROVE  UNCHANGED seen
  BY <1>22 DEF Dispatch, CloseHub, setupVars, sourceVars
<1>23. CASE UNCHANGED vars
  BY <1>23, <1>18 DEF vars, setupVars, sourceVars
<1>24. QED
  BY <1>2, <1>3, <1>4, <1>5, <1>6, <1>7, <1>8, <1>9, <1>10, <1>11, <1>12, <1>13, <1>14,
     <1>15, <1>16, <1>17, <1>18, <1>19, <1>20, <1>21, <1>22, <1>23
     DEF Next, WatcherStep, SetupStep, ForwardStep, StopStep, HubStep, Quiescent

\* Every live watcher is in someone's hands.
LEMMA LiveAreHeldStep == Inv /\ [Next]_vars => LiveAreHeld'
<1> SUFFICES ASSUME Inv, [Next]_vars PROVE LiveAreHeld'
  OBVIOUS
<1> DEFINE seen == <<watcher, forward, installed, setup, previous>>
<1>0. TypeOK /\ SetupsAgree /\ InstalledIsLive /\ LiveAreHeld
  BY DEF Inv
<1>1. /\ watcher \in [Setups -> {"none", "building", "live", "closed"}]
      /\ forward \in [Setups -> {"none", "idle", "done"} \cup Kinds]
      /\ installed \in Setups \cup {None} /\ setup = [i \in Setups |-> setup[i]]
      /\ previous \in [Setups -> Setups \cup {None}] /\ latest \in Setups
  BY <1>0 DEF TypeOK, WatcherTypes, SetupTypes, SourceTypes
<1> USE EventAssumption, <1>0, <1>1 DEF LiveAreHeld
<1>2. ASSUME NEW i \in Setups, BeginSetup(i) PROVE LiveAreHeld'
  BY <1>2 DEF BeginSetup, SetupTo, SetupGone, sourceVars, SetupsAgree
<1>3. ASSUME NEW i \in Setups, CancelledSetup(i) PROVE LiveAreHeld'
  BY <1>3 DEF CancelledSetup, SetupTo, watcherVars, sourceVars
<1>4. ASSUME NEW i \in Setups, Build(i) PROVE LiveAreHeld'
  <2>1. \A j \in Setups : watcher'[j] = "live" /\ forward[j] # "none" => watcher[j] = "live"
    BY <1>4 DEF Build, SetupTo, SetupsAgree
  <2>2. /\ UNCHANGED <<forward, installed, previous>>
        /\ \A j \in Setups : setup[j] = "installed" => setup'[j] = "installed"
    BY <1>4 DEF Build, SetupTo, sourceVars
  <2>3. QED
    BY <2>1, <2>2
<1>5. ASSUME NEW i \in Setups, BuildFails(i) PROVE LiveAreHeld'
  BY <1>5 DEF BuildFails, SetupTo, Closed, sourceVars
<1>6. ASSUME NEW i \in Setups, Install(i) PROVE LiveAreHeld'
  BY <1>6 DEF Install, SetupTo, Superseded, watcherVars, SetupsAgree, InstalledIsLive
<1>7. ASSUME NEW i \in Setups, Discard(i) PROVE LiveAreHeld'
  BY <1>7 DEF Discard, SetupTo, Closed, sourceVars
<1>8. ASSUME NEW i \in Setups, ClosePrevious(i) PROVE LiveAreHeld'
  <2>1. /\ setup[i] = "installed" /\ setup' = [setup EXCEPT ![i] = "files"]
        /\ UNCHANGED <<forward, installed>> /\ previous' = [previous EXCEPT ![i] = None]
    BY <1>8 DEF ClosePrevious, SetupTo, sourceVars
  <2>2. \A j \in Setups : watcher'[j] = "live" => watcher[j] = "live" /\ j # previous[i]
    BY <1>8 DEF ClosePrevious, Closed, watcherVars
  <2>3. ASSUME NEW j \in Setups, watcher'[j] = "live", forward'[j] # "none", j # installed
        PROVE  \E n \in Setups : setup'[n] = "installed" /\ previous'[n] = j
    <3>1. PICK n \in Setups : setup[n] = "installed" /\ previous[n] = j
      BY <2>1, <2>2, <2>3
    <3>2. n # i
      BY <2>2, <2>3, <3>1
    <3>3. QED
      BY <2>1, <3>1, <3>2
  <2>4. QED
    BY <2>1, <2>3
<1>9. ASSUME NEW i \in Setups, Reconcile(i) PROVE LiveAreHeld'
  BY <1>9 DEF Reconcile, SetupTo, watcherVars
<1>10. ASSUME NEW i \in Setups, Receive(i) PROVE LiveAreHeld'
  <2>1. \A j \in Setups : forward'[j] # "none" <=> forward[j] # "none"
    BY <1>10, Forwarding DEF ForwardStep
  <2>2. UNCHANGED <<watcher, installed, setup, previous>>
    BY <1>10 DEF Receive, watcherVars, setupVars
  <2>3. QED
    BY <2>1, <2>2
<1>11. ASSUME NEW i \in Setups, Send(i) PROVE LiveAreHeld'
  <2>1. \A j \in Setups : forward'[j] # "none" <=> forward[j] # "none"
    BY <1>11, Forwarding DEF ForwardStep
  <2>2. UNCHANGED <<watcher, installed, setup, previous>>
    BY <1>11 DEF Send, watcherVars, setupVars
  <2>3. QED
    BY <2>1, <2>2
<1>12. ASSUME NEW i \in Setups, ForwardEnds(i) PROVE LiveAreHeld'
  <2>1. \A j \in Setups : forward'[j] # "none" <=> forward[j] # "none"
    BY <1>12, Forwarding DEF ForwardStep
  <2>2. UNCHANGED <<watcher, installed, setup, previous>>
    BY <1>12 DEF ForwardEnds, watcherVars, setupVars
  <2>3. QED
    BY <2>1, <2>2
<1>13. CASE StartWatcher
  <2>1. latest + 1 \in Setups /\ setup[latest + 1] = "none"
    BY <1>13 DEF StartWatcher, SetupsAgree, Setups
  <2>2. /\ UNCHANGED <<watcher, forward, installed, previous>>
        /\ \A j \in Setups : setup[j] = "installed" => setup'[j] = "installed"
    BY <1>13, <2>1 DEF StartWatcher, watcherVars, sourceVars
  <2>3. QED
    BY <2>2
<1>14. CASE StopWatcher
  BY <1>14 DEF StopWatcher, Closed, watcherVars
<1>15. ASSUME UNCHANGED seen PROVE LiveAreHeld'
  BY <1>15
<1>16. ASSUME NEW change \in Changes,
             Change(change)
      PROVE  UNCHANGED seen
  BY <1>16 DEF Change, setupVars, sourceVars
<1>17. ASSUME NEW i \in Setups,
             Overflow(i) \/ Flush(i) \/ Fingerprint(i) \/ Fallback(i)
      PROVE  UNCHANGED seen
  BY <1>17 DEF Overflow, Flush, Fingerprint, Fallback, setupVars, sourceVars
<1>18. ASSUME NEW s \in Subscribers,
             Subscribe(s) \/ Unsubscribe(s) \/ Hear(s)
      PROVE  UNCHANGED seen
  BY <1>18 DEF Subscribe, Unsubscribe, Hear, watcherVars, setupVars, sourceVars
<1>19. ASSUME BeginStop \/ StopSetups \/ StopFlushes \/ StopForwards \/ Dispatch \/ CloseHub
      PROVE  UNCHANGED seen
  BY <1>19 DEF BeginStop, StopSetups, StopFlushes, StopForwards, Dispatch, CloseHub, watcherVars,
     setupVars, sourceVars
<1>20. CASE UNCHANGED vars
  BY <1>20, <1>15 DEF vars, watcherVars, setupVars, sourceVars
<1>21. QED
  BY <1>2, <1>3, <1>4, <1>5, <1>6, <1>7, <1>8, <1>9, <1>10, <1>11, <1>12, <1>13, <1>14,
     <1>15, <1>16, <1>17, <1>18, <1>19, <1>20
     DEF Next, WatcherStep, SetupStep, ForwardStep, StopStep, HubStep, Quiescent

-----------------------------------------------------------------------------
(* What a stream has not been told of.                                    *)

\* A stream is owed nothing before it is open.
LEMMA NothingBeforeSubscribingStep == Inv /\ [Next]_vars => NothingBeforeSubscribing'
<1> SUFFICES ASSUME Inv, [Next]_vars PROVE NothingBeforeSubscribing'
  OBVIOUS
<1> DEFINE seen == <<stream, unseen>>
<1>0. TypeOK /\ NothingBeforeSubscribing
  BY DEF Inv
<1>1. /\ stream \in [Subscribers -> {"none", "open", "closed"}]
      /\ unseen \in [Subscribers -> SUBSET Kinds]
  BY <1>0 DEF TypeOK, HubTypes
<1> USE EventAssumption, <1>0, <1>1 DEF NothingBeforeSubscribing
<1>2. ASSUME NEW change \in Changes, Change(change) PROVE NothingBeforeSubscribing'
  BY <1>2 DEF Change, streamVars
<1>3. ASSUME NEW s \in Subscribers, Subscribe(s) PROVE NothingBeforeSubscribing'
  BY <1>3 DEF Subscribe
<1>4. ASSUME NEW s \in Subscribers, Unsubscribe(s) PROVE NothingBeforeSubscribing'
  BY <1>4 DEF Unsubscribe
<1>5. ASSUME NEW s \in Subscribers, Hear(s) PROVE NothingBeforeSubscribing'
  BY <1>5 DEF Hear
<1>6. CASE CloseHub
  BY <1>6 DEF CloseHub
<1>7. ASSUME UNCHANGED seen PROVE NothingBeforeSubscribing'
  BY <1>7
<1>8. ASSUME NEW i \in Setups,
             Overflow(i) \/ Flush(i) \/ Fingerprint(i) \/ Fallback(i) \/ BeginSetup(i)
             \/ CancelledSetup(i) \/ Build(i) \/ BuildFails(i) \/ Install(i) \/ Discard(i)
             \/ ClosePrevious(i) \/ Reconcile(i) \/ Receive(i) \/ Send(i) \/ ForwardEnds(i)
      PROVE  UNCHANGED seen
  BY <1>8 DEF Overflow, Flush, Fingerprint, Fallback, BeginSetup, CancelledSetup, Build,
     BuildFails, Closed, Install, Discard, ClosePrevious, Reconcile, Receive, Send,
     ForwardEnds, streamVars
<1>9. ASSUME StartWatcher \/ BeginStop \/ StopSetups \/ StopFlushes \/ StopWatcher \/ StopForwards \/ Dispatch
      PROVE  UNCHANGED seen
  BY <1>9 DEF StartWatcher, BeginStop, StopSetups, StopFlushes, StopWatcher, Closed, StopForwards,
     Dispatch, streamVars
<1>10. CASE UNCHANGED vars
  BY <1>10, <1>7 DEF vars, streamVars
<1>11. QED
  BY <1>2, <1>3, <1>4, <1>5, <1>6, <1>7, <1>8, <1>9, <1>10
     DEF Next, WatcherStep, SetupStep, ForwardStep, StopStep, HubStep, Quiescent

\* Every step keeps what a stream has not been told of on its way to it.
LEMMA ToldStep == Inv /\ [Next]_vars => Told'
<1> SUFFICES ASSUME Inv, [Next]_vars PROVE Told'
  OBVIOUS
<1> DEFINE seen == <<stop, installed, stream, unseen, setup, forward, pending, events,
                     drift, source, buffer>>
<1>0. TypeOK /\ SetupsAgree /\ InstalledIsLive /\ NothingBeforeSubscribing /\ Told
  BY DEF Inv
<1>1. /\ stop \in {"open", "setups", "flush", "watcher", "forwards", "stopped"}
      /\ installed \in Setups \cup {None}
      /\ stream \in [Subscribers -> {"none", "open", "closed"}]
      /\ unseen \in [Subscribers -> SUBSET Kinds] /\ setup = [i \in Setups |-> setup[i]]
      /\ forward \in [Setups -> {"none", "idle", "done"} \cup Kinds]
      /\ pending \in [Setups -> SUBSET Kinds] /\ events \in [Setups -> Seq(Kinds)]
      /\ drift \in [Setups -> (SUBSET Changes) \cup {{None}}] /\ source \in Seq(Kinds)
      /\ buffer \in [Subscribers -> Seq(Kinds)]
      /\ watcher \in [Setups -> {"none", "building", "live", "closed"}]
      /\ latest \in Setups
  BY <1>0 DEF TypeOK, WatcherTypes, SetupTypes, SourceTypes, HubTypes
<1> USE EventAssumption, <1>0, <1>1 DEF Told
<1>2. ASSUME NEW change \in Changes, Change(change) PROVE Told'
  <2> SUFFICES ASSUME stop' = "open", installed' # None, NEW t \in Subscribers, NEW k \in Kinds,
                      stream'[t] = "open", k \in unseen'[t]
               PROVE  Safe(t, k)'
    OBVIOUS
  <2>1. UNCHANGED <<stop, installed, stream, setup, forward, watcher, events, source,
                    buffer>>
    BY <1>2 DEF Change, setupVars, sourceVars, streamVars
  <2>2. \A j \in Setups :
          /\ pending[j] \subseteq pending'[j]
          /\ watcher[j] = "live" /\ drift[j] = {None} => KindsOf(change) \subseteq pending'[j]
    BY <1>2 DEF Change
  <2>3. \A j \in Setups : drift'[j] = IF drift[j] = {None} THEN drift[j] ELSE drift[j] \cup {change}
    BY <1>2 DEF Change
  <2>4. unseen'[t] = unseen[t] \cup Covered(KindsOf(change))
    BY <1>2, <2>1 DEF Change
  <2>5. CASE k \in unseen[t]
    <3>1. \A j \in Setups : drift[j] \subseteq drift'[j]
      BY <2>3
    <3>2. \A j \in Setups : At(j, k) => At(j, k)'
      BY <2>1, <2>2, <3>1 DEF At, Drifting, Queued, Covered
    <3>3. Safe(t, k)
      BY <2>1, <2>5
    <3>4. Owed(k)' = Owed(k) /\ (AtSome(k) => AtSome(k)')
      BY <2>1, <3>2 DEF Owed, AtSome, ToReconcile
    <3>5. QED
      BY <2>1, <3>3, <3>4 DEF Safe, Queued
  <2>6. CASE k \in Covered(KindsOf(change))
    <3>1. installed \in Setups /\ watcher[installed] = "live" /\ forward[installed] # "none"
      BY <2>1 DEF InstalledIsLive
    <3>2. CASE drift[installed] = {None}
      <4>1. k \in Covered(pending'[installed])
        <5>1. KindsOf(change) \subseteq pending'[installed]
          BY <2>2, <3>1, <3>2
        <5>2. QED
          BY <2>6, <5>1 DEF Covered
      <4>2. QED
        BY <2>1, <3>1, <4>1 DEF Safe, AtSome, At
    <3>3. CASE drift[installed] # {None}
      <4>1. change \in drift'[installed] \ {None}
        BY <2>3, <3>1, <3>3
      <4>2. k \in Covered(Elements(FallbackKinds(change)))
        <5>1. CASE change = "refs"
          <6>1. Elements(<<"snapshot", "graph">>) = {"snapshot", "graph"}
            BY DEF Elements
          <6>2. /\ FallbackKinds(change) = <<"snapshot", "graph">>
                /\ KindsOf(change) = {"snapshot", "graph"}
            BY <5>1 DEF FallbackKinds, KindsOf
          <6>3. QED
            BY <2>6, <6>1, <6>2
        <5>2. CASE change # "refs"
          <6>1. Elements(<<"files">>) = {"files"}
            BY DEF Elements
          <6>2. FallbackKinds(change) = <<"files">> /\ KindsOf(change) \in {{"snapshot"}, {"files"}}
            BY <5>2 DEF FallbackKinds, KindsOf, Changes
          <6>3. k \in {"files", "snapshot"}
            <7>1. k \in KindsOf(change) \/ (k = "snapshot" /\ "files" \in KindsOf(change))
              BY <2>6, Stands
            <7>2. QED
              BY <6>2, <7>1
          <6>4. {"files", "snapshot"} \subseteq Covered({"files"})
            BY DEF Covered, Covers
          <6>5. QED
            BY <6>1, <6>2, <6>3, <6>4
        <5>3. QED
          BY <5>1, <5>2
      <4>3. k \in Covered(Drifting(installed)')
        BY <2>1, <4>1, <4>2 DEF Drifting, Covered
      <4>4. QED
        BY <2>1, <3>1, <4>3 DEF Safe, AtSome, At
    <3>4. QED
      BY <3>2, <3>3
  <2>7. QED
    BY <2>4, <2>5, <2>6
<1>3. ASSUME NEW i \in Setups, Overflow(i) PROVE Told'
  <2> SUFFICES ASSUME stop' = "open", installed' # None, NEW t \in Subscribers, NEW k \in Kinds,
                      stream'[t] = "open", k \in unseen'[t]
               PROVE  Safe(t, k)'
    OBVIOUS
  <2>1. UNCHANGED <<stop, installed, stream, unseen, setup, forward, events, drift,
                    source, buffer>>
    BY <1>3 DEF Overflow, setupVars, sourceVars, streamVars
  <2>2. \A j \in Setups : pending[j] \subseteq pending'[j]
    BY <1>3 DEF Overflow
  <2>3. \A j \in Setups : At(j, k) => At(j, k)'
    BY <2>1, <2>2 DEF At, Drifting, Queued, Covered
  <2>4. Safe(t, k)
    BY <2>1
  <2>5. QED
    BY <2>1, <2>3, <2>4 DEF Safe, Owed, AtSome, ToReconcile, Queued
<1>4. ASSUME NEW i \in Setups, Flush(i) PROVE Told'
  <2> SUFFICES ASSUME stop' = "open", installed' # None, NEW t \in Subscribers, NEW k \in Kinds,
                      stream'[t] = "open", k \in unseen'[t]
               PROVE  Safe(t, k)'
    OBVIOUS
  <2>1. UNCHANGED <<stop, installed, stream, unseen, setup, forward, drift, source, buffer>>
    BY <1>4 DEF Flush, setupVars, sourceVars, streamVars
  <2>2. PICK kind \in pending[i] :
          /\ events' = [events EXCEPT ![i] = Enqueued(@, kind)]
          /\ pending' = [pending EXCEPT ![i] = @ \ Covers(kind)]
    BY <1>4 DEF Flush
  <2>3. events[i] \in Seq(Kinds) /\ Len(events[i]) <= Capacity /\ kind \in Kinds
    BY DEF TypeOK, WatcherTypes
  <2>4. k \in Covers(kind) \/ Queued(events[i], k) => Queued(events'[i], k)
    BY <2>2, <2>3, EnqueuedKeeps
  <2>5. k \in Covered(pending[i]) => k \in Covered(pending'[i]) \/ k \in Covers(kind)
    BY <2>2 DEF Covered, Covers
  <2>6. At(i, k) => At(i, k)'
    BY <2>1, <2>4, <2>5 DEF At, Drifting, Queued
  <2>7. \A j \in Setups : j # i => pending'[j] = pending[j] /\ events'[j] = events[j]
    BY <2>2
  <2>8. \A j \in Setups : At(j, k) => At(j, k)'
    BY <2>1, <2>6, <2>7 DEF At, Drifting, Queued
  <2>9. Safe(t, k)
    BY <2>1
  <2>10. QED
    BY <2>1, <2>8, <2>9 DEF Safe, Owed, AtSome, ToReconcile, Queued
<1>5. ASSUME NEW i \in Setups, Fingerprint(i) PROVE Told'
  <2> SUFFICES ASSUME stop' = "open", installed' # None, NEW t \in Subscribers, NEW k \in Kinds,
                      stream'[t] = "open", k \in unseen'[t]
               PROVE  Safe(t, k)'
    OBVIOUS
  <2>1. UNCHANGED <<stop, installed, stream, unseen, setup, forward, pending, events,
                    source, buffer>>
    BY <1>5 DEF Fingerprint, setupVars, sourceVars, streamVars
  <2>2. \A j \in Setups : drift'[j] \ {None} = drift[j] \ {None}
    BY <1>5 DEF Fingerprint
  <2>3. Safe(t, k)
    BY <2>1
  <2>4. QED
    BY <2>1, <2>2, <2>3 DEF Safe, Owed, AtSome, At, Drifting, ToReconcile, Queued
<1>6. ASSUME NEW i \in Setups, Fallback(i) PROVE Told'
  <2> SUFFICES ASSUME stop' = "open", installed' # None, NEW t \in Subscribers, NEW k \in Kinds,
                      stream'[t] = "open", k \in unseen'[t]
               PROVE  Safe(t, k)'
    OBVIOUS
  <2>1. UNCHANGED <<stop, installed, stream, unseen, setup, forward, pending, source,
                    buffer>>
    BY <1>6 DEF Fallback, setupVars, sourceVars, streamVars
  <2>2. Queued(events[i], k) \/ k \in Covered(Drifting(i)) =>
          Queued(events'[i], k) \/ k \in Covered(Drifting(i)')
    BY <1>6, FallbackKeeps
  <2>3. At(i, k) => At(i, k)'
    BY <2>1, <2>2 DEF At
  <2>4. \A j \in Setups : j # i => drift'[j] = drift[j] /\ events'[j] = events[j]
    BY <1>6 DEF Fallback
  <2>5. \A j \in Setups : At(j, k) => At(j, k)'
    BY <2>1, <2>3, <2>4 DEF At, Drifting, Queued
  <2>6. Safe(t, k)
    BY <2>1
  <2>7. QED
    BY <2>1, <2>5, <2>6 DEF Safe, Owed, AtSome, ToReconcile, Queued
<1>7. ASSUME NEW i \in Setups, BeginSetup(i) PROVE Told'
  <2> SUFFICES ASSUME stop' = "open", installed' # None, NEW t \in Subscribers, NEW k \in Kinds,
                      stream'[t] = "open", k \in unseen'[t]
               PROVE  Safe(t, k)'
    OBVIOUS
  <2>1. UNCHANGED <<stop, installed, stream, unseen, forward, pending, events, drift,
                    source, buffer>>
    BY <1>7 DEF BeginSetup, sourceVars, streamVars
  <2>2. \A j \in Setups : ToReconcile(j)' = ToReconcile(j)
    BY <1>7 DEF BeginSetup, SetupTo, ToReconcile
  <2>3. Safe(t, k)
    BY <2>1
  <2>4. Owed(k) => Owed(k)'
    BY <2>2 DEF Owed
  <2>5. AtSome(k) => AtSome(k)'
    BY <2>1 DEF AtSome, At, Drifting, Queued
  <2>6. QED
    BY <2>1, <2>3, <2>4, <2>5 DEF Safe, Queued
<1>8. ASSUME NEW i \in Setups, CancelledSetup(i) PROVE Told'
  <2> SUFFICES ASSUME stop' = "open", installed' # None, NEW t \in Subscribers, NEW k \in Kinds,
                      stream'[t] = "open", k \in unseen'[t]
               PROVE  Safe(t, k)'
    OBVIOUS
  <2>1. UNCHANGED <<stop, installed, stream, unseen, forward, pending, events, drift,
                    source, buffer>>
    BY <1>8 DEF CancelledSetup, sourceVars, streamVars, watcherVars
  <2>2. \A j \in Setups : ToReconcile(j)' = ToReconcile(j)
    BY <1>8 DEF CancelledSetup, SetupTo, ToReconcile
  <2>3. Safe(t, k)
    BY <2>1
  <2>4. Owed(k) => Owed(k)'
    BY <2>2 DEF Owed
  <2>5. AtSome(k) => AtSome(k)'
    BY <2>1 DEF AtSome, At, Drifting, Queued
  <2>6. QED
    BY <2>1, <2>3, <2>4, <2>5 DEF Safe, Queued
<1>9. ASSUME NEW i \in Setups, Build(i) PROVE Told'
  <2> SUFFICES ASSUME stop' = "open", installed' # None, NEW t \in Subscribers, NEW k \in Kinds,
                      stream'[t] = "open", k \in unseen'[t]
               PROVE  Safe(t, k)'
    OBVIOUS
  <2>1. UNCHANGED <<stop, installed, stream, unseen, forward, pending, events, drift,
                    source, buffer>>
    BY <1>9 DEF Build, sourceVars, streamVars
  <2>2. \A j \in Setups : ToReconcile(j)' = ToReconcile(j)
    BY <1>9 DEF Build, SetupTo, ToReconcile
  <2>3. Safe(t, k)
    BY <2>1
  <2>4. Owed(k) => Owed(k)'
    BY <2>2 DEF Owed
  <2>5. AtSome(k) => AtSome(k)'
    BY <2>1 DEF AtSome, At, Drifting, Queued
  <2>6. QED
    BY <2>1, <2>3, <2>4, <2>5 DEF Safe, Queued
<1>10. ASSUME NEW i \in Setups, BuildFails(i) PROVE Told'
  <2> SUFFICES ASSUME stop' = "open", installed' # None, NEW t \in Subscribers, NEW k \in Kinds,
                      stream'[t] = "open", k \in unseen'[t]
               PROVE  Safe(t, k)'
    OBVIOUS
  <2>1. UNCHANGED <<stop, installed, stream, unseen, forward, events, source, buffer>>
    BY <1>10 DEF BuildFails, Closed, sourceVars, streamVars
  <2>2. \A j \in Setups : ToReconcile(j)' = ToReconcile(j)
    BY <1>10 DEF BuildFails, SetupTo, ToReconcile
  <2>3. \A j \in Setups : forward[j] # "none" => pending'[j] = pending[j] /\ drift'[j] = drift[j]
    BY <1>10 DEF BuildFails, SetupTo, Closed, SetupsAgree
  <2>4. Safe(t, k)
    BY <2>1
  <2>5. Owed(k) => Owed(k)'
    BY <2>2 DEF Owed
  <2>6. AtSome(k) => AtSome(k)'
    BY <2>1, <2>3 DEF AtSome, At, Drifting, Queued
  <2>7. QED
    BY <2>1, <2>4, <2>5, <2>6 DEF Safe, Queued
<1>11. ASSUME NEW i \in Setups, Install(i) PROVE Told'
  <2> SUFFICES ASSUME stop' = "open", installed' # None, NEW t \in Subscribers, NEW k \in Kinds,
                      stream'[t] = "open", k \in unseen'[t]
               PROVE  Safe(t, k)'
    OBVIOUS
  <2>1. setup'[i] = "installed"
    BY <1>11 DEF Install, SetupTo
  <2>2. k \in ToReconcile(i)'
    BY <2>1 DEF ToReconcile
  <2>3. QED
    BY <2>2 DEF Safe, Owed
<1>12. ASSUME NEW i \in Setups, Discard(i) PROVE Told'
  <2> SUFFICES ASSUME stop' = "open", installed' # None, NEW t \in Subscribers, NEW k \in Kinds,
                      stream'[t] = "open", k \in unseen'[t]
               PROVE  Safe(t, k)'
    OBVIOUS
  <2>1. UNCHANGED <<stop, installed, stream, unseen, forward, events, source, buffer>>
    BY <1>12 DEF Discard, Closed, sourceVars, streamVars
  <2>2. \A j \in Setups : ToReconcile(j)' = ToReconcile(j)
    BY <1>12 DEF Discard, SetupTo, ToReconcile
  <2>3. \A j \in Setups : forward[j] # "none" => pending'[j] = pending[j] /\ drift'[j] = drift[j]
    BY <1>12 DEF Discard, SetupTo, Closed, SetupsAgree
  <2>4. Safe(t, k)
    BY <2>1
  <2>5. Owed(k) => Owed(k)'
    BY <2>2 DEF Owed
  <2>6. AtSome(k) => AtSome(k)'
    BY <2>1, <2>3 DEF AtSome, At, Drifting, Queued
  <2>7. QED
    BY <2>1, <2>4, <2>5, <2>6 DEF Safe, Queued
<1>13. ASSUME NEW i \in Setups, ClosePrevious(i) PROVE Told'
  <2> SUFFICES ASSUME stop' = "open", installed' # None, NEW t \in Subscribers, NEW k \in Kinds,
                      stream'[t] = "open", k \in unseen'[t]
               PROVE  Safe(t, k)'
    OBVIOUS
  <2>1. setup'[i] = "files"
    BY <1>13 DEF ClosePrevious, SetupTo
  <2>2. k \in ToReconcile(i)'
    BY <2>1 DEF ToReconcile
  <2>3. QED
    BY <2>2 DEF Safe, Owed
<1>14. ASSUME NEW i \in Setups, Reconcile(i) PROVE Told'
  <2> SUFFICES ASSUME stop' = "open", installed' # None, NEW t \in Subscribers, NEW k \in Kinds,
                      stream'[t] = "open", k \in unseen'[t]
               PROVE  Safe(t, k)'
    OBVIOUS
  <2>1. /\ UNCHANGED <<stop, installed, stream, unseen, forward, pending, events, drift,
                       buffer>>
        /\ stop = "open"
    BY <1>14 DEF Reconcile, watcherVars, streamVars
  <2>2. Safe(t, k)
    BY <2>1
  <2>3. AtSome(k)' = AtSome(k) /\ Queued(buffer[t], k)' = Queued(buffer[t], k)
    BY <2>1 DEF AtSome, At, Drifting, Queued
  <2>4. ASSUME NEW kind \in Kinds, source' = Append(source, kind)
        PROVE  k \in Covers(kind) \/ Queued(source, k) => Queued(source, k)'
    <3>1. Elements(source') = Elements(source) \cup {kind}
      BY <2>4, Appended
    <3>2. QED
      BY <3>1 DEF Queued, Covered
  <2>5. \A j \in Setups : j # i => ToReconcile(j)' = ToReconcile(j)
    BY <1>14 DEF Reconcile, SetupTo, ToReconcile
  <2>6. CASE SetupTo(i, "files", "graph") /\ source' = Append(source, "files")
    <3>1. "files" \in Kinds /\ (k \in Covers("files") \/ k = "graph")
      BY DEF Kinds, Covers
    <3>2. ToReconcile(i)' = {"graph"}
      BY <2>6 DEF SetupTo, ToReconcile
    <3>3. k \in Covers("files") => Queued(source, k)'
      BY <2>4, <2>6, <3>1
    <3>4. k = "graph" => Owed(k)'
      BY <3>2 DEF Owed
    <3>5. QED
      BY <3>1, <3>3, <3>4 DEF Safe
  <2>7. CASE SetupTo(i, "graph", "done") /\ source' = Append(source, "graph")
    <3>1. "graph" \in Kinds /\ "graph" \in Covers("graph")
      BY DEF Kinds, Covers
    <3>2. ToReconcile(i) = {"graph"}
      BY <2>7 DEF SetupTo, ToReconcile
    <3>3. Queued(source, k) \/ k = "graph" => Queued(source, k)'
      BY <2>4, <2>7, <3>1
    <3>4. ASSUME NEW j \in Setups, k \in ToReconcile(j) PROVE Owed(k)' \/ k = "graph"
      <4>1. CASE j = i
        BY <3>2, <3>4, <4>1
      <4>2. CASE j # i
        <5>1. k \in ToReconcile(j)'
          BY <2>5, <3>4, <4>2
        <5>2. QED
          BY <5>1 DEF Owed
      <4>3. QED
        BY <4>1, <4>2
    <3>5. QED
      BY <2>2, <2>3, <3>3, <3>4 DEF Safe, Owed
  <2>8. QED
    BY <1>14, <2>1, <2>6, <2>7 DEF Reconcile
<1>15. ASSUME NEW i \in Setups, Receive(i) PROVE Told'
  <2> SUFFICES ASSUME stop' = "open", installed' # None, NEW t \in Subscribers, NEW k \in Kinds,
                      stream'[t] = "open", k \in unseen'[t]
               PROVE  Safe(t, k)'
    OBVIOUS
  <2>1. UNCHANGED <<stop, installed, stream, unseen, setup, pending, drift, source, buffer>>
    BY <1>15 DEF Receive, setupVars, streamVars
  <2>2. /\ events[i] \in Seq(Kinds) /\ events[i] # <<>> /\ forward[i] = "idle"
        /\ events' = [events EXCEPT ![i] = Tail(@)]
        /\ forward' = [forward EXCEPT ![i] = Head(events[i])]
    BY <1>15 DEF Receive, ForwardTo
  <2>3. /\ Head(events[i]) \in Kinds
        /\ Elements(events[i]) = {Head(events[i])} \cup Elements(Tail(events[i]))
    BY <2>2, Parted
  <2>4. Queued(events[i], k) => k \in Covers(Head(events[i])) \/ Queued(Tail(events[i]), k)
    BY <2>3 DEF Queued, Covered
  <2>5. events'[i] = Tail(events[i]) /\ forward'[i] = Head(events[i]) /\ forward[i] \notin Kinds
    BY <2>2 DEF Kinds
  <2>6. At(i, k) => At(i, k)'
    BY <2>1, <2>3, <2>4, <2>5 DEF At, Drifting
  <2>7. \A j \in Setups : j # i => events'[j] = events[j] /\ forward'[j] = forward[j]
    BY <2>2
  <2>8. \A j \in Setups : At(j, k) => At(j, k)'
    BY <2>1, <2>6, <2>7 DEF At, Drifting, Queued
  <2>9. \A j \in Setups : forward'[j] # "none" <=> forward[j] # "none"
    BY <1>15, Forwarding DEF ForwardStep
  <2>10. Safe(t, k)
    BY <2>1
  <2>11. QED
    BY <2>1, <2>8, <2>9, <2>10 DEF Safe, Owed, AtSome, ToReconcile, Queued
<1>16. ASSUME NEW i \in Setups, Send(i) PROVE Told'
  <2> SUFFICES ASSUME stop' = "open", installed' # None, NEW t \in Subscribers, NEW k \in Kinds,
                      stream'[t] = "open", k \in unseen'[t]
               PROVE  Safe(t, k)'
    OBVIOUS
  <2>1. UNCHANGED <<stop, installed, stream, unseen, setup, pending, events, drift, buffer>>
    BY <1>16 DEF Send, watcherVars, setupVars, streamVars
  <2>2. /\ forward[i] \in Kinds /\ source' = Append(source, forward[i])
        /\ forward' = [forward EXCEPT ![i] = "idle"]
    BY <1>16 DEF Send, ForwardTo
  <2>3. Elements(source') = Elements(source) \cup {forward[i]}
    BY <2>2, Appended
  <2>4. k \in Covers(forward[i]) \/ Queued(source, k) => Queued(source, k)'
    BY <2>3 DEF Queued, Covered
  <2>5. \A j \in Setups : j # i => forward'[j] = forward[j]
    BY <2>2
  <2>6. \A j \in Setups : At(j, k) => At(j, k)' \/ Queued(source, k)'
    BY <2>1, <2>4, <2>5 DEF At, Drifting, Queued
  <2>7. \A j \in Setups : forward'[j] # "none" <=> forward[j] # "none"
    BY <1>16, Forwarding DEF ForwardStep
  <2>8. Safe(t, k)
    BY <2>1
  <2>9. Owed(k)' = Owed(k) /\ Queued(buffer[t], k)' = Queued(buffer[t], k)
    BY <2>1 DEF Owed, ToReconcile, Queued
  <2>10. QED
    BY <2>4, <2>6, <2>7, <2>8, <2>9 DEF Safe, AtSome
<1>17. ASSUME NEW i \in Setups, ForwardEnds(i) PROVE Told'
  <2> SUFFICES ASSUME stop' = "open", installed' # None, NEW t \in Subscribers, NEW k \in Kinds,
                      stream'[t] = "open", k \in unseen'[t]
               PROVE  Safe(t, k)'
    OBVIOUS
  <2>1. /\ UNCHANGED <<stop, installed, stream, unseen, setup, pending, events, drift,
                       source, buffer>>
        /\ forward[i] = "idle" /\ forward' = [forward EXCEPT ![i] = "done"]
    BY <1>17 DEF ForwardEnds, ForwardTo, watcherVars, setupVars, streamVars
  <2>2. \A j \in Setups : /\ forward[j] \in Kinds => forward'[j] = forward[j]
                         /\ forward'[j] # "none" <=> forward[j] # "none"
    BY <2>1 DEF Kinds
  <2>3. Safe(t, k)
    BY <2>1
  <2>4. QED
    BY <2>1, <2>2, <2>3 DEF Safe, Owed, AtSome, At, Drifting, ToReconcile, Queued
<1>18. ASSUME NEW s \in Subscribers, Subscribe(s) PROVE Told'
  <2> SUFFICES ASSUME stop' = "open", installed' # None, NEW t \in Subscribers, NEW k \in Kinds,
                      stream'[t] = "open", k \in unseen'[t]
               PROVE  Safe(t, k)'
    OBVIOUS
  <2>1. UNCHANGED <<stop, installed, unseen, setup, forward, pending, events, drift,
                    source, buffer>>
    BY <1>18 DEF Subscribe, watcherVars, setupVars, sourceVars
  <2>2. t # s
    BY <1>18, <2>1 DEF Subscribe, NothingBeforeSubscribing
  <2>3. stream[t] = "open"
    BY <1>18, <2>2 DEF Subscribe
  <2>4. Safe(t, k)
    BY <2>1, <2>3
  <2>5. QED
    BY <2>1, <2>4 DEF Safe, Owed, AtSome, At, Drifting, ToReconcile, Queued
<1>19. ASSUME NEW s \in Subscribers, Unsubscribe(s) PROVE Told'
  <2> SUFFICES ASSUME stop' = "open", installed' # None, NEW t \in Subscribers, NEW k \in Kinds,
                      stream'[t] = "open", k \in unseen'[t]
               PROVE  Safe(t, k)'
    OBVIOUS
  <2>1. UNCHANGED <<stop, installed, setup, forward, pending, events, drift, source>>
    BY <1>19 DEF Unsubscribe, watcherVars, setupVars, sourceVars
  <2>2. t # s
    BY <1>19 DEF Unsubscribe
  <2>3. stream[t] = "open" /\ k \in unseen[t] /\ buffer'[t] = buffer[t]
    BY <1>19, <2>2 DEF Unsubscribe
  <2>4. Safe(t, k)
    BY <2>1, <2>3
  <2>5. QED
    BY <2>1, <2>3, <2>4 DEF Safe, Owed, AtSome, At, Drifting, ToReconcile, Queued
<1>20. ASSUME NEW s \in Subscribers, Hear(s) PROVE Told'
  <2> SUFFICES ASSUME stop' = "open", installed' # None, NEW t \in Subscribers, NEW k \in Kinds,
                      stream'[t] = "open", k \in unseen'[t]
               PROVE  Safe(t, k)'
    OBVIOUS
  <2>1. UNCHANGED <<stop, installed, stream, setup, forward, pending, events, drift,
                    source>>
    BY <1>20 DEF Hear, watcherVars, setupVars, sourceVars
  <2>2. Owed(k)' = Owed(k) /\ AtSome(k)' = AtSome(k) /\ Queued(source, k)' = Queued(source, k)
    BY <2>1 DEF Owed, ToReconcile, AtSome, At, Drifting, Queued
  <2>3. CASE t # s
    <3>1. buffer'[t] = buffer[t] /\ unseen'[t] = unseen[t]
      BY <1>20, <2>3 DEF Hear
    <3>2. Safe(t, k)
      BY <2>1, <3>1
    <3>3. QED
      BY <2>2, <3>1, <3>2 DEF Safe, Queued
  <2>4. CASE t = s
    <3>1. /\ buffer[s] # <<>> /\ buffer[s] \in Seq(Kinds) /\ buffer'[s] = Tail(buffer[s])
          /\ unseen'[s] = unseen[s] \ Covers(Head(buffer[s]))
      BY <1>20 DEF Hear
    <3>2. Elements(buffer[s]) = {Head(buffer[s])} \cup Elements(buffer'[s])
      BY <3>1, Parted
    <3>3. Queued(buffer[s], k) => Queued(buffer[s], k)'
      BY <2>4, <3>1, <3>2 DEF Queued, Covered
    <3>4. Safe(t, k)
      BY <2>1, <2>4, <3>1
    <3>5. QED
      BY <2>2, <2>4, <3>3, <3>4 DEF Safe
  <2>5. QED
    BY <2>3, <2>4
<1>21. CASE StartWatcher
  <2> SUFFICES ASSUME stop' = "open", installed' # None, NEW t \in Subscribers, NEW k \in Kinds,
                      stream'[t] = "open", k \in unseen'[t]
               PROVE  Safe(t, k)'
    OBVIOUS
  <2>1. UNCHANGED <<stop, installed, stream, unseen, forward, pending, events, drift,
                    source, buffer>>
    BY <1>21 DEF StartWatcher, watcherVars, sourceVars, streamVars
  <2>2. latest + 1 \in Setups /\ setup[latest + 1] = "none" /\ setup'[latest + 1] = "waiting"
    BY <1>21 DEF StartWatcher, SetupsAgree, Setups
  <2>3. \A j \in Setups : j # latest + 1 => setup'[j] = setup[j]
    BY <1>21 DEF StartWatcher
  <2>4. \A j \in Setups : ToReconcile(j)' = ToReconcile(j)
    BY <2>2, <2>3 DEF ToReconcile
  <2>5. Safe(t, k)
    BY <2>1
  <2>6. Owed(k) => Owed(k)'
    BY <2>4 DEF Owed
  <2>7. AtSome(k) => AtSome(k)'
    BY <2>1 DEF AtSome, At, Drifting, Queued
  <2>8. QED
    BY <2>1, <2>5, <2>6, <2>7 DEF Safe, Queued
<1>22. CASE BeginStop
  BY <1>22 DEF BeginStop, watcherVars, streamVars
<1>23. CASE StopSetups \/ StopFlushes
  BY <1>23 DEF StopSetups, StopFlushes, SetupGone, watcherVars, setupVars, streamVars
<1>24. CASE StopWatcher
  BY <1>24 DEF StopWatcher, Closed, watcherVars, streamVars
<1>25. CASE StopForwards
  BY <1>25 DEF StopForwards, watcherVars, setupVars, streamVars
<1>26. CASE Dispatch
  <2> SUFFICES ASSUME stop' = "open", installed' # None, NEW t \in Subscribers, NEW k \in Kinds,
                      stream'[t] = "open", k \in unseen'[t]
               PROVE  Safe(t, k)'
    OBVIOUS
  <2>1. /\ UNCHANGED <<stop, installed, stream, unseen, setup, forward, pending, events,
                       drift>>
        /\ source # <<>> /\ source' = Tail(source)
    BY <1>26 DEF Dispatch, watcherVars, setupVars
  <2>2. buffer'[t] = Enqueued(buffer[t], Head(source))
    BY <1>26, <2>1 DEF Dispatch
  <2>3. Head(source) \in Kinds /\ Elements(source) = {Head(source)} \cup Elements(source')
    BY <2>1, Parted
  <2>4. k \in Covers(Head(source)) \/ Queued(buffer[t], k) => Queued(buffer[t], k)'
    BY <2>2, <2>3, EnqueuedKeeps DEF TypeOK, HubTypes
  <2>5. Queued(source, k) => k \in Covers(Head(source)) \/ Queued(source, k)'
    BY <2>3 DEF Queued, Covered
  <2>6. Owed(k)' = Owed(k) /\ AtSome(k)' = AtSome(k)
    BY <2>1 DEF Owed, ToReconcile, AtSome, At, Drifting, Queued
  <2>7. Safe(t, k)
    BY <2>1
  <2>8. QED
    BY <2>4, <2>5, <2>6, <2>7 DEF Safe
<1>27. CASE CloseHub
  BY <1>27 DEF CloseHub, watcherVars, setupVars, sourceVars
<1>28. ASSUME UNCHANGED seen PROVE Told'
  BY <1>28 DEF Safe, Owed, AtSome, At, Drifting, ToReconcile, Queued
<1>29. CASE UNCHANGED vars
  BY <1>29, <1>28 DEF vars, watcherVars, setupVars, sourceVars, streamVars
<1>30. QED
  BY <1>2, <1>3, <1>4, <1>5, <1>6, <1>7, <1>8, <1>9, <1>10, <1>11, <1>12, <1>13, <1>14,
     <1>15, <1>16, <1>17, <1>18, <1>19, <1>20, <1>21, <1>22, <1>23, <1>24, <1>25, <1>26,
     <1>27, <1>28, <1>29
     DEF Next, WatcherStep, SetupStep, ForwardStep, StopStep, HubStep, Quiescent

-----------------------------------------------------------------------------
(* The invariant holds at the start, and every step keeps it.              *)

LEMMA InitInv == Init => Inv
<1> SUFFICES ASSUME Init PROVE Inv
  OBVIOUS
<1> USE EventAssumption
<1>1. 1 \in Setups /\ \A i \in Setups : i > 1 \/ i = 1
  BY DEF Setups
<1>2. \A i \in Setups :
        /\ setup[i] = (IF i = 1 THEN "building" ELSE "none")
        /\ watcher[i] = (IF i = 1 THEN "building" ELSE "none")
        /\ forward[i] = "none" /\ previous[i] = None
  BY DEF Init
<1>3. TypeOK
  <2>1. WatcherTypes
    BY DEF Init, WatcherTypes
  <2>2. SetupTypes
    BY <1>1 DEF Init, SetupTypes
  <2>3. SourceTypes /\ HubTypes
    BY DEF Init, SourceTypes, HubTypes
  <2>4. QED
    BY <2>1, <2>2, <2>3 DEF TypeOK
<1>4. SetupsAgree
  BY <1>1, <1>2 DEF Init, SetupsAgree, Setups
<1>5. InstalledIsLive
  BY <1>2 DEF Init, InstalledIsLive
<1>6. StopOrder /\ LiveAreHeld
  BY <1>2 DEF Init, StopOrder, LiveAreHeld
<1>7. NothingBeforeSubscribing /\ Told
  BY DEF Init, NothingBeforeSubscribing, Told
<1>8. QED
  BY <1>3, <1>4, <1>5, <1>6, <1>7 DEF Inv

LEMMA NextInv == Inv /\ [Next]_vars => Inv'
<1> SUFFICES ASSUME Inv, [Next]_vars PROVE Inv'
  OBVIOUS
<1>1. TypeOK'
  BY WatcherTypesStep, SetupTypesStep, SourceTypesStep, HubTypesStep DEF TypeOK
<1>2. SetupsAgree' /\ InstalledIsLive' /\ StopOrder' /\ LiveAreHeld'
  BY SetupsAgreeStep, InstalledIsLiveStep, StopOrderStep, LiveAreHeldStep
<1>3. NothingBeforeSubscribing' /\ Told'
  BY NothingBeforeSubscribingStep, ToldStep
<1>4. QED
  BY <1>1, <1>2, <1>3 DEF Inv

LEMMA AlwaysInv == Spec => []Inv
  BY InitInv, NextInv, PTL DEF Spec

-----------------------------------------------------------------------------
(* What it says.                                                           *)

\* Every buffer keeps its bound: a queue that is compacted fits in it, as
\* emit and enqueueSubscriberInvalidation rely on when they send again.
THEOREM TypesHold == Spec => []TypeOK
<1>1. Inv => TypeOK
  BY DEF Inv
<1>2. QED
  BY <1>1, AlwaysInv, PTL

\* When the session closes its channel no setup and no forwarding goroutine
\* is left that could send on it.
THEOREM NoSendAfterClose == Spec => []NoSendOnClosedSource
<1>1. Inv => NoSendOnClosedSource
  BY DEF Inv, StopOrder, NoSendOnClosedSource
<1>2. QED
  BY <1>1, AlwaysInv, PTL

\* No watcher outlives its session, and before its end each live one is
\* installed, still the setup's that built it, or in hand to be closed.
THEOREM WatchersReleased == Spec => []WatchersAreReleased
<1>1. Inv => WatchersAreReleased
  <2> SUFFICES ASSUME Inv PROVE WatchersAreReleased
    OBVIOUS
  <2>1. /\ watcher \in [Setups -> {"none", "building", "live", "closed"}]
        /\ SetupsAgree /\ StopOrder /\ LiveAreHeld
    BY DEF Inv, TypeOK, WatcherTypes
  <2>2. ASSUME NEW i \in Setups, watcher[i] = "live", SetupGone(i)
        PROVE  i = installed \/ \E j \in Setups : setup[j] = "installed" /\ previous[j] = i
    BY <2>1, <2>2 DEF SetupsAgree, LiveAreHeld, SetupGone
  <2>3. ASSUME NEW i \in Setups, stop = "stopped" PROVE watcher[i] \in {"none", "closed"}
    <3>1. /\ \A j \in Setups : setup[j] = "none" \/ SetupGone(j)
          /\ installed = None
      BY <2>1, <2>3 DEF StopOrder
    <3>2. ~ \E j \in Setups : setup[j] = "installed"
      BY <3>1 DEF SetupGone
    <3>3. watcher[i] # "live"
      <4>1. CASE setup[i] = "none"
        BY <2>1, <4>1 DEF SetupsAgree
      <4>2. CASE SetupGone(i)
        BY <2>2, <3>1, <3>2, <4>2, EventAssumption
      <4>3. QED
        BY <3>1, <4>1, <4>2
    <3>4. watcher[i] # "building"
      BY <2>1, <3>1 DEF SetupsAgree, SetupGone
    <3>5. QED
      BY <2>1, <3>3, <3>4
  <2>4. QED
    BY <2>2, <2>3 DEF WatchersAreReleased
<1>2. QED
  BY <1>1, AlwaysInv, PTL

\* However changes, setups, replaced watchers, compacted buffers and streams
\* interleave, a change that a stream was not told of is on its way to it.
THEOREM NoChangeLost == Spec => []NothingLost
<1>1. Inv => NothingLost
  <2> SUFFICES ASSUME Inv, ~Unwatched, NEW s \in Subscribers, stream[s] = "open",
                      NEW k \in unseen[s]
               PROVE  k \in Coming(s)
    BY DEF NothingLost
  <2>1. k \in Kinds /\ latest \in Setups /\ stop = "open"
    BY DEF Inv, TypeOK, HubTypes, SetupTypes, Unwatched
  <2>2. Reconciling \subseteq Coming(s)
    BY DEF Coming
  <2>3. CASE setup[latest] \in {"waiting", "building", "built"}
    BY <2>1, <2>2, <2>3 DEF Reconciling
  <2>4. CASE setup[latest] \notin {"waiting", "building", "built"}
    <3>1. installed # None
      <4> SUFFICES ASSUME installed = None PROVE FALSE
        OBVIOUS
      <4>1. forward[latest] = "none"
        BY <2>1 DEF Inv, InstalledIsLive
      <4>2. setup[latest] \notin {"none", "installed", "files", "graph", "done"}
        BY <2>1, <4>1 DEF Inv, SetupsAgree, Setups
      <4>3. setup[latest] = "failed"
        BY <2>1, <2>4, <4>2 DEF Inv, TypeOK, SetupTypes
      <4>4. QED
        BY <4>3 DEF Unwatched
    <3>2. Safe(s, k)
      BY <2>1, <3>1 DEF Inv, Told
    <3>3. CASE Owed(k)
      BY <2>2, <2>4, <3>3 DEF Owed, Reconciling
    <3>4. CASE AtSome(k)
      <4>1. PICK i \in Setups : forward[i] # "none" /\ At(i, k)
        BY <3>4 DEF AtSome
      <4>2. k \in Covered(AtWatcher(i))
        <5>1. /\ pending[i] \subseteq AtWatcher(i) /\ Elements(events[i]) \subseteq AtWatcher(i)
              /\ Drifting(i) \subseteq AtWatcher(i)
              /\ forward[i] \in Kinds => forward[i] \in AtWatcher(i)
          BY DEF AtWatcher, Drifting
        <5>2. QED
          BY <4>1, <5>1 DEF At, Queued, Covered
      <4>3. AtWatcher(i) \subseteq
              UNION {AtWatcher(j) : j \in {n \in Setups : n = installed \/ forward[n] # "none"}}
        BY <4>1
      <4>4. QED
        BY <4>2, <4>3 DEF Coming, Covered
    <3>5. CASE Queued(source, k) \/ Queued(buffer[s], k)
      <4>1. k \in Covered(Elements(source)) \/ k \in Covered(Elements(buffer[s]))
        BY <3>5 DEF Queued
      <4>2. /\ Covered(Elements(source)) \subseteq Coming(s)
            /\ Covered(Elements(buffer[s])) \subseteq Coming(s)
        BY DEF Coming, Covered
      <4>3. QED
        BY <4>1, <4>2
    <3>6. QED
      BY <3>2, <3>3, <3>4, <3>5 DEF Safe
  <2>5. QED
    BY <2>3, <2>4
<1>2. QED
  BY <1>1, AlwaysInv, PTL
=============================================================================
