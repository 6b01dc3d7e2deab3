------------------------- MODULE FolderRegistryProofs -------------------------
(* What holds of the registry for any routes, requests, openers, backends  *)
(* and queue length: one backend per route, leases that keep theirs, no    *)
(* refresh lost, generations that advance, and a shutdown that is complete.*)
EXTENDS FolderRegistry, FiniteSetTheorems, TLAPS

-----------------------------------------------------------------------------
(* The inductive invariant.                                                *)

\* A route's transition is in the hands of one request, or of its timer.
Owners ==
  /\ \A q \in Requests : pc[q] \in Owning => transition[route[q]] = q
  /\ \A r \in Routes, q \in Requests :
       transition[r] = q => pc[q] \in Owning /\ route[q] = r
Retirers == \A r \in Routes : transition[r] = Retirer <=> retiring[r] # None
Ownership == Owners /\ Retirers

KnownRoutes ==
  /\ \A r \in Routes \ known : transition[r] = None /\ session[r] = None
  /\ \A q \in Requests : route[q] \in known
  /\ IsFiniteSet(known)

Refreshing == {"refresh", "switching", "switched", "refreshed", "refreshFailed"}
Activating == {"activate", "publish", "discard", "activationFailed"}
Carrying == {"publish", "discard"}   \* a backend that is not published

\* A backend that is not closed is its route's, or the timer's that retires
\* it, or the request's that has yet to publish it.
ClosedAreIdle == \A b \in Backends : stage[b] = "closed" => jobs[b] = <<>>
SessionsAtHome ==
  \A r \in Routes : session[r] # None =>
    home[session[r]] = r /\ stage[session[r]] # "closed" /\ retiring[r] = None
RetiringAtHome ==
  \A r \in Routes : retiring[r] # None =>
    home[retiring[r]] = r /\ stage[retiring[r]] # "closed"
Activators == \A q \in Requests : pc[q] \in Activating => session[route[q]] = None
Carriers ==
  \A q \in Requests : pc[q] \in Carrying =>
    /\ srv[q] \in Backends /\ home[srv[q]] = route[q]
    /\ stage[srv[q]] = "open" /\ jobs[srv[q]] = <<>>
Refreshers ==
  \A q \in Requests : pc[q] \in Refreshing => srv[q] \in Backends /\ srv[q] = session[route[q]]
Homes ==
  \A b \in Backends : stage[b] # "closed" =>
    \/ b \in {session[home[b]], retiring[home[b]]}
    \/ \E q \in Requests : pc[q] \in Carrying /\ srv[q] = b

Elems(s) == {s[i] : i \in DOMAIN s}

\* A job is its caller's, once, or one that a caller left running.
Callers ==
  \A b \in Backends : \A job \in Elems(jobs[b]) :
    /\ job.by # None =>
         /\ srv[job.by] = b
         /\ job.to = None => pc[job.by] = "mutating"
         /\ job.to # None => pc[job.by] = "switching" /\ job.to = want[job.by]
    /\ job.by = None /\ job.to # None => b \in orphaned
Singly(s) == \A i, k \in DOMAIN s : s[i].by # None /\ s[i].by = s[k].by => i = k
OneJobEach == \A b \in Backends : Singly(jobs[b])

LeasedAt(r) == {q \in Requests : pc[q] \in Leased /\ route[q] = r}
SubscribedAt(r) == {q \in Requests : pc[q] = "subscribed" /\ route[q] = r}

\* The counts count, and a request in its handler has its route's backend.
ActiveCounts ==
  \A r \in Routes : IsFiniteSet(LeasedAt(r)) /\ active[r] = Cardinality(LeasedAt(r))
SubscriberCounts ==
  \A r \in Routes : IsFiniteSet(SubscribedAt(r)) /\ subscribers[r] = Cardinality(SubscribedAt(r))
LeasesHold ==
  \A q \in Requests : pc[q] \in Leased => srv[q] \in Backends /\ session[route[q]] = srv[q]

\* Only shutdown stops a published backend.
OpenUntilClosing ==
  ~closing => \A r \in Routes : ~shutting[r] /\ (session[r] # None => stage[session[r]] = "open")

\* No server of a route has answered with more than the generation of its
\* backend, or than the next backend will start with.
ServedSoFar ==
  \A r \in Routes :
    /\ session[r] # None => served[r] <= gen[session[r]]
    /\ retiring[r] # None => served[r] <= gen[retiring[r]]
NextIsAhead ==
  ~closing => \A r \in Routes : session[r] = None /\ retiring[r] = None => served[r] < generation[r]
PublishedIsAhead ==
  ~closing => \A q \in Requests : pc[q] = "publish" => served[route[q]] < gen[srv[q]]
Generations == ServedSoFar /\ NextIsAhead /\ PublishedIsAhead

Agreed(r) ==
  session[r] # None /\ session[r] \notin orphaned /\ ~refreshPending[r]
    => cap[session[r]] = repository[r]

\* A refresh works towards what was asked for last, or will be done again.
SettledAgree == \A r \in Routes : transition[r] = None => Agreed(r)
ActivatedAgree == \A q \in Requests : pc[q] = "activated" => Agreed(route[q])
RefreshesWantLast ==
  \A q \in Requests : pc[q] \in Refreshing \ {"refreshFailed"} =>
    refreshPending[route[q]] \/ repository[route[q]] = want[q]
SwitchesApply ==
  \A q \in Requests : pc[q] \in {"switched", "refreshed"} =>
    srv[q] \in orphaned \/ cap[srv[q]] = want[q]
Refreshes == SettledAgree /\ ActivatedAgree /\ RefreshesWantLast /\ SwitchesApply

\* What shutdown has stopped stays where it was, until it is drained.
Captures ==
  \A r \in Elems(backends) :
    /\ transition[r] = None /\ session[r] \in {captured[r], None}
    /\ captured[r] # None =>
         /\ home[captured[r]] = r
         /\ shutdown \in {"stopping", "waiting"} => stage[captured[r]] # "closed"

\* Each loop of shutdown has what is left of the routes before it.
Loops ==
  /\ closing <=> shutdown # "up"
  /\ shutdown \in {"up", "marking"} => backends = <<>>
  /\ closing => known \subseteq Elems(entries)
  /\ shutdown = "stopping" => known \subseteq Elems(todo) \cup Elems(late) \cup Elems(backends)
  /\ shutdown = "waiting" => known \subseteq Elems(todo) \cup Elems(backends)
  /\ shutdown \in {"draining", "done"} =>
       /\ known \subseteq Elems(backends) /\ Elems(todo) \subseteq Elems(backends)
       /\ \A r \in known : r \in Elems(todo) \/ (session[r] = None /\ active[r] = 0)
  /\ shutdown = "done" => todo = <<>>
Shutdown == Captures /\ Loops

BackendsHaveHomes ==
  /\ ClosedAreIdle /\ SessionsAtHome /\ RetiringAtHome /\ Activators /\ Carriers /\ Refreshers
  /\ Homes
Leases == ActiveCounts /\ SubscriberCounts /\ LeasesHold

Inv ==
  /\ TypeOK /\ Ownership /\ KnownRoutes /\ BackendsHaveHomes /\ Callers /\ OneJobEach /\ Leases
  /\ OpenUntilClosing /\ TimerOnlyWhenIdle /\ Generations /\ Refreshes /\ Shutdown


-----------------------------------------------------------------------------
(* What the types say of one route, backend or request.                    *)

LEMMA Typed ==
  ASSUME TypeOK
  PROVE  /\ \A q \in Requests :
              /\ pc[q] \in PCs /\ route[q] \in Routes /\ srv[q] \in Backends \cup {None}
              /\ want[q] \in Caps
         /\ \A b \in Backends :
              /\ home[b] \in Routes /\ cap[b] \in Caps /\ jobs[b] \in Seq(Job) /\ gen[b] \in Nat
              /\ stage[b] \in {"closed", "open", "stopped"}
         /\ \A r \in Routes :
              /\ session[r] \in Backends \cup {None} /\ retiring[r] \in Backends \cup {None}
              /\ repository[r] \in Caps /\ refreshPending[r] \in BOOLEAN
              /\ active[r] \in Nat /\ subscribers[r] \in Nat
              /\ disk[r] \in Caps /\ captured[r] \in Backends \cup {None}
              /\ generation[r] \in Nat /\ served[r] \in Nat
         /\ \A o \in Openers : opener[o].route \in Routes /\ opener[o].cap \in Caps
BY DEF TypeOK, EntryTypes, LeaseTypes, BackendTypes, RequestTypes, OpenerTypes, ShutdownTypes

\* Sequences joined.
LEMMA Joined ==
  ASSUME NEW S, NEW a \in Seq(S), NEW b \in Seq(S)
  PROVE  /\ a \o b \in Seq(S) /\ Len(a \o b) = Len(a) + Len(b)
         /\ \A k \in 1..Len(a) + Len(b) :
              (a \o b)[k] = IF k <= Len(a) THEN a[k] ELSE b[k - Len(a)]
OBVIOUS

\* What a queue is with a job more, its first one done, or one skipped.
LEMMA Queues ==
  ASSUME NEW S, NEW s \in Seq(S)
  PROVE  /\ DOMAIN s = 1..Len(s)
         /\ \A job \in S :
              /\ Append(s, job) \in Seq(S) /\ Len(Append(s, job)) = Len(s) + 1
              /\ \A k \in 1..Len(s) + 1 :
                   Append(s, job)[k] = IF k = Len(s) + 1 THEN job ELSE s[k]
         /\ s # <<>> =>
              /\ Head(s) = s[1] /\ s[1] \in S
              /\ Tail(s) \in Seq(S) /\ Len(Tail(s)) = Len(s) - 1
              /\ \A k \in 1..Len(s) - 1 : Tail(s)[k] = s[k + 1]
         /\ \A i \in DOMAIN s :
              /\ Skipping(s, i) \in Seq(S) /\ Len(Skipping(s, i)) = Len(s) - 1
              /\ \A k \in 1..Len(s) - 1 : Skipping(s, i)[k] = s[IF k < i THEN k ELSE k + 1]
<1>1. ASSUME NEW i \in DOMAIN s
      PROVE  /\ Skipping(s, i) \in Seq(S) /\ Len(Skipping(s, i)) = Len(s) - 1
             /\ \A k \in 1..Len(s) - 1 : Skipping(s, i)[k] = s[IF k < i THEN k ELSE k + 1]
  <2> DEFINE front == SubSeq(s, 1, i - 1)
             back == SubSeq(s, i + 1, Len(s))
             t == front \o back
  <2>1. i \in 1..Len(s) /\ Len(s) \in Nat
    OBVIOUS
  <2>2. /\ front \in Seq(S) /\ Len(front) = i - 1
        /\ \A k \in 1..Len(front) : front[k] = s[k]
    BY <2>1
  <2>3. /\ back \in Seq(S) /\ Len(back) = Len(s) - i
        /\ \A k \in 1..Len(back) : back[k] = s[k + i]
    BY <2>1
  <2> HIDE DEF front, back
  <2>4. /\ t \in Seq(S) /\ Len(t) = Len(front) + Len(back)
        /\ \A k \in 1..Len(front) + Len(back) :
             t[k] = IF k <= Len(front) THEN front[k] ELSE back[k - Len(front)]
    BY <2>2, <2>3, Joined
  <2> HIDE DEF t
  <2>5. Len(t) = Len(s) - 1
    BY <2>1, <2>2, <2>3, <2>4
  <2>6. ASSUME NEW k \in 1..Len(s) - 1
        PROVE  t[k] = s[IF k < i THEN k ELSE k + 1]
    <3>1. /\ k \in Int /\ i \in Int /\ 1 <= k /\ k <= Len(s) - 1
          /\ Len(front) = i - 1 /\ Len(front) \in Nat
          /\ Len(back) = Len(s) - i /\ Len(back) \in Nat /\ Len(s) \in Nat
      BY <2>1, <2>2, <2>3
    <3>2. CASE k < i
      <4>1. k \in 1..Len(front) + Len(back) /\ k \in 1..Len(front) /\ k <= Len(front)
        BY <3>1, <3>2
      <4>2. t[k] = front[k]
        BY <2>4, <4>1
      <4>3. QED
        BY <2>2, <3>1, <3>2, <4>1, <4>2
    <3>3. CASE k >= i
      <4>1. k \in 1..Len(front) + Len(back) /\ ~(k <= Len(front))
        BY <3>1, <3>3
      <4>2. t[k] = back[k - Len(front)]
        BY <2>4, <4>1
      <4> DEFINE m == k - Len(front)
      <4>3. m \in 1..Len(back) /\ m + i = k + 1
        BY <3>1, <3>3
      <4> HIDE DEF m
      <4>4. back[m] = s[k + 1]
        BY <2>3, <4>3
      <4>5. QED
        BY <3>1, <3>3, <4>2, <4>4 DEF m
    <3>4. QED
      BY <3>1, <3>2, <3>3
  <2>7. Skipping(s, i) = t
    BY DEF Skipping, t, front, back
  <2>8. QED
    BY <2>4, <2>5, <2>6, <2>7
<1>2. s # <<>> =>
        /\ Head(s) = s[1] /\ s[1] \in S
        /\ Tail(s) \in Seq(S) /\ Len(Tail(s)) = Len(s) - 1
        /\ \A k \in 1..Len(s) - 1 : Tail(s)[k] = s[k + 1]
  OBVIOUS
<1>3. ASSUME NEW job \in S
      PROVE  /\ Append(s, job) \in Seq(S) /\ Len(Append(s, job)) = Len(s) + 1
             /\ \A k \in 1..Len(s) + 1 :
                  Append(s, job)[k] = IF k = Len(s) + 1 THEN job ELSE s[k]
  OBVIOUS
<1>4. QED
  BY <1>1, <1>2, <1>3

\* A function on the first numbers is a sequence.
LEMMA Sequenced ==
  ASSUME NEW S, NEW n \in Nat, NEW f \in [1..n -> S]
  PROVE  f \in Seq(S) /\ Len(f) = n
OBVIOUS

\* What a list has in it after such a change.
LEMMA Contents ==
  ASSUME NEW S, NEW s \in Seq(S)
  PROVE  /\ Elems(s) \subseteq S /\ (s = <<>> => Elems(s) = {})
         /\ \A e \in S : Elems(Append(s, e)) = Elems(s) \cup {e}
         /\ s # <<>> => Head(s) \in Elems(s) /\ Elems(s) = {Head(s)} \cup Elems(Tail(s))
         /\ \A i \in DOMAIN s : s[i] \in Elems(s) /\ Elems(Skipping(s, i)) \subseteq Elems(s)
<1>1. Elems(s) \subseteq S /\ (s = <<>> => Elems(s) = {})
  BY DEF Elems
<1>2. ASSUME NEW e \in S PROVE Elems(Append(s, e)) = Elems(s) \cup {e}
  <2> DEFINE t == Append(s, e)
  <2>1. /\ DOMAIN s = 1..Len(s) /\ Len(s) \in Nat /\ DOMAIN t = 1..Len(s) + 1
        /\ \A k \in 1..Len(s) : t[k] = s[k]
        /\ t[Len(s) + 1] = e
    OBVIOUS
  <2> HIDE DEF t
  <2>2. QED
    BY <2>1 DEF Elems, t
<1>3. s # <<>> => Head(s) \in Elems(s) /\ Elems(s) = {Head(s)} \cup Elems(Tail(s))
  <2> SUFFICES ASSUME s # <<>>
               PROVE  Head(s) \in Elems(s) /\ Elems(s) = {Head(s)} \cup Elems(Tail(s))
    OBVIOUS
  <2> DEFINE t == Tail(s)
  <2>1. /\ DOMAIN s = 1..Len(s) /\ Len(s) \in Nat /\ Len(s) > 0 /\ DOMAIN t = 1..Len(s) - 1
        /\ \A k \in 1..Len(s) - 1 : t[k] = s[k + 1]
        /\ Head(s) = s[1]
    OBVIOUS
  <2> HIDE DEF t
  <2>2. \A i \in DOMAIN s : i = 1 \/ (i - 1 \in DOMAIN t /\ t[i - 1] = s[i])
    BY <2>1
  <2>3. \A i \in DOMAIN t : i + 1 \in DOMAIN s /\ t[i] = s[i + 1]
    BY <2>1
  <2>4. 1 \in DOMAIN s /\ Head(s) = s[1]
    BY <2>1
  <2>5. Elems(s) \subseteq {Head(s)} \cup Elems(t)
    BY <2>2, <2>4 DEF Elems
  <2>6. Elems(t) \subseteq Elems(s)
    BY <2>3 DEF Elems
  <2>7. Head(s) \in Elems(s)
    BY <2>4 DEF Elems
  <2>8. QED
    BY <2>5, <2>6, <2>7 DEF t
<1>4. ASSUME NEW i \in DOMAIN s PROVE s[i] \in Elems(s) /\ Elems(Skipping(s, i)) \subseteq Elems(s)
  <2> DEFINE t == Skipping(s, i)
             at(k) == IF k < i THEN k ELSE k + 1
  <2>1. /\ DOMAIN s = 1..Len(s) /\ Len(s) \in Nat /\ DOMAIN t = 1..Len(s) - 1
        /\ \A k \in 1..Len(s) - 1 : t[k] = s[at(k)]
    BY Queues
  <2> HIDE DEF t
  <2>2. \A k \in DOMAIN t : at(k) \in DOMAIN s /\ t[k] = s[at(k)]
    BY <2>1
  <2> HIDE DEF at
  <2>3. QED
    BY <2>2 DEF Elems, t
<1>5. QED
  BY <1>1, <1>2, <1>3, <1>4

\* A caller with one job has none beside it, and none when it is gone.
LEMMA Alone ==
  ASSUME NEW s \in Seq(Job), Singly(s)
  PROVE  /\ \A e \in Job : (e.by = None \/ \A j \in Elems(s) : j.by # e.by) => Singly(Append(s, e))
         /\ s # <<>> =>
              /\ Singly(Tail(s))
              /\ \A j \in Elems(Tail(s)) : j.by # None => j.by # Head(s).by
         /\ \A i \in DOMAIN s :
              /\ Singly(Skipping(s, i))
              /\ \A j \in Elems(Skipping(s, i)) : j.by # None => j.by # s[i].by
<1>1. ASSUME NEW e \in Job, e.by = None \/ \A j \in Elems(s) : j.by # e.by
      PROVE  Singly(Append(s, e))
  <2> DEFINE t == Append(s, e)
  <2>1. /\ DOMAIN s = 1..Len(s) /\ Len(s) \in Nat /\ DOMAIN t = 1..Len(s) + 1
        /\ \A k \in 1..Len(s) : t[k] = s[k]
        /\ t[Len(s) + 1] = e
    OBVIOUS
  <2> HIDE DEF t
  <2>2. \A i \in DOMAIN t : i = Len(s) + 1 \/ (i \in DOMAIN s /\ t[i] = s[i] /\ s[i] \in Elems(s))
    BY <2>1 DEF Elems
  <2>3. QED
    BY <1>1, <2>1, <2>2 DEF Singly, t
<1>2. ASSUME s # <<>>
      PROVE  Singly(Tail(s)) /\ \A j \in Elems(Tail(s)) : j.by # None => j.by # Head(s).by
  <2> DEFINE t == Tail(s)
  <2>1. /\ DOMAIN s = 1..Len(s) /\ Len(s) \in Nat /\ Len(s) > 0 /\ DOMAIN t = 1..Len(s) - 1
        /\ \A k \in 1..Len(s) - 1 : t[k] = s[k + 1]
        /\ Head(s) = s[1]
    BY <1>2
  <2> HIDE DEF t
  <2>2. \A i \in DOMAIN t : i \in Int /\ i + 1 \in DOMAIN s /\ t[i] = s[i + 1] /\ i + 1 # 1
    BY <2>1
  <2>3. 1 \in DOMAIN s /\ Head(s) = s[1]
    BY <2>1
  <2>4. Singly(t)
    BY <2>2 DEF Singly
  <2>5. \A j \in Elems(t) : j.by # None => j.by # Head(s).by
    BY <2>2, <2>3 DEF Singly, Elems
  <2>6. QED
    BY <2>4, <2>5 DEF t
<1>3. ASSUME NEW i \in DOMAIN s
      PROVE  /\ Singly(Skipping(s, i))
             /\ \A j \in Elems(Skipping(s, i)) : j.by # None => j.by # s[i].by
  <2> DEFINE t == Skipping(s, i)
             at(k) == IF k < i THEN k ELSE k + 1
  <2>1. /\ DOMAIN s = 1..Len(s) /\ Len(s) \in Nat /\ DOMAIN t = 1..Len(s) - 1
        /\ \A k \in 1..Len(s) - 1 : t[k] = s[at(k)]
    BY Queues
  <2> HIDE DEF t
  <2>2. \A k \in DOMAIN t : at(k) \in DOMAIN s /\ t[k] = s[at(k)] /\ at(k) # i
    BY <2>1
  <2>3. \A k, m \in DOMAIN t : at(k) = at(m) => k = m
    BY <2>1
  <2> HIDE DEF at
  <2>4. Singly(t)
    BY <2>2, <2>3 DEF Singly
  <2>5. \A j \in Elems(t) : j.by # None => j.by # s[i].by
    BY <2>2 DEF Singly, Elems
  <2>6. QED
    BY <2>4, <2>5 DEF t
<1>4. QED
  BY <1>1, <1>2, <1>3

\* What a completed job does to its caller, if it still has one.
LEMMA Completed ==
  ASSUME TypeOK, Callers, NEW b \in Backends, CompleteJob(b)
  PROVE  /\ Head(jobs[b]) = jobs[b][1] /\ 1 \in DOMAIN jobs[b] /\ Head(jobs[b]) \in Job
         /\ \A q \in Requests :
              \/ pc'[q] = pc[q] /\ Head(jobs[b]).by # q
              \/ /\ pc[q] = "switching" /\ pc'[q] = "switched" /\ srv[q] = b
                 /\ Head(jobs[b]) = [by |-> q, to |-> want[q]] /\ want[q] # None
              \/ /\ pc[q] = "mutating" /\ pc'[q] = "answered" /\ srv[q] = b
                 /\ Head(jobs[b]) = [by |-> q, to |-> None]
<1>1. jobs[b] \in Seq(Job) /\ jobs[b] # <<>>
  BY DEF CompleteJob, TypeOK, BackendTypes
<1>2. Head(jobs[b]) = jobs[b][1] /\ 1 \in DOMAIN jobs[b] /\ Head(jobs[b]) \in Job
  BY <1>1
<1>3. Head(jobs[b]) \in Elems(jobs[b])
  BY <1>2 DEF Elems
<1> DEFINE job == Head(jobs[b])
<1>4. /\ job.by # None =>
           /\ srv[job.by] = b
           /\ job.to = None => pc[job.by] = "mutating"
           /\ job.to # None => pc[job.by] = "switching" /\ job.to = want[job.by]
      /\ job = [by |-> job.by, to |-> job.to] /\ job \in Job
  BY <1>2, <1>3 DEF Callers, Job
<1>5. pc' = [q \in Requests |-> IF q = job.by
                                THEN IF job.to # None THEN "switched" ELSE "answered"
                                ELSE pc[q]]
  BY DEF CompleteJob
<1> HIDE DEF job
<1>6. QED
  BY <1>2, <1>4, <1>5, RegistryAssumption DEF job

\* Who waited for a transition looks again, and nobody else is moved.
LEMMA Waked ==
  ASSUME TypeOK, NEW r
  PROVE  /\ Woken(r) \in [Requests -> PCs]
         /\ \A q \in Requests :
              Woken(r)[q] = pc[q] \/ (pc[q] = "waiting" /\ Woken(r)[q] = "ensure")
BY DEF Woken, TypeOK, RequestTypes, PCs

\* A backend that nobody has seen is no route's, no timer's and in one pair of hands.
LEMMA Apart ==
  ASSUME TypeOK, Ownership, SessionsAtHome, RetiringAtHome, Activators, Carriers
  PROVE  /\ \A q \in Requests : pc[q] \in Carrying =>
              /\ \A r \in Routes : session[r] # srv[q] /\ retiring[r] # srv[q]
              /\ \A p \in Requests : pc[p] \in Carrying /\ srv[p] = srv[q] => p = q
         /\ \A r, x \in Routes :
              /\ session[r] # None /\ session[r] = session[x] => r = x
              /\ retiring[r] # None /\ retiring[r] = retiring[x] => r = x
              /\ retiring[r] # None => session[x] # retiring[r]
<1>1. /\ route \in [Requests -> Routes] /\ srv \in [Requests -> Backends \cup {None}]
      /\ transition \in [Routes -> Requests \cup {Retirer, None}]
  BY DEF TypeOK, RequestTypes, LeaseTypes
<1>2. ASSUME NEW q \in Requests, pc[q] \in Carrying
      PROVE  /\ srv[q] # None /\ home[srv[q]] = route[q] /\ transition[route[q]] = q
             /\ session[route[q]] = None /\ retiring[route[q]] = None
  BY <1>1, <1>2, RegistryAssumption
     DEF Carriers, Activators, Ownership, Owners, Retirers, Carrying, Activating, Owning
<1>3. ASSUME NEW q \in Requests, pc[q] \in Carrying, NEW r \in Routes
      PROVE  session[r] # srv[q] /\ retiring[r] # srv[q]
  BY <1>2, <1>3 DEF SessionsAtHome, RetiringAtHome
<1>4. ASSUME NEW q \in Requests, pc[q] \in Carrying, NEW p \in Requests, pc[p] \in Carrying,
             srv[p] = srv[q]
      PROVE  p = q
  BY <1>2, <1>4
<1>5. ASSUME NEW r \in Routes, NEW x \in Routes
      PROVE  /\ session[r] # None /\ session[r] = session[x] => r = x
             /\ retiring[r] # None /\ retiring[r] = retiring[x] => r = x
             /\ retiring[r] # None => session[x] # retiring[r]
  BY DEF SessionsAtHome, RetiringAtHome
<1>6. QED
  BY <1>3, <1>4, <1>5

\* What shutdown drains is in nobody's hands.
LEMMA Drained ==
  ASSUME TypeOK, Captures, Loops, NEW r \in Routes, DrainBackend(r)
  PROVE  /\ shutdown = "draining" /\ r \in Elems(backends) /\ active[r] = 0
         /\ transition[r] = None /\ session[r] \in {captured[r], None}
         /\ captured[r] \in Backends \cup {None}
         /\ captured[r] # None => home[captured[r]] = r /\ jobs[captured[r]] = <<>>
         /\ session'[r] = None /\ UNCHANGED <<home, jobs, retiring, transition, srv, pc, route>>
         /\ \A x \in Routes : x # r => session'[x] = session[x]
         /\ \A x \in Backends : stage'[x] = IF x = captured[r] THEN "closed" ELSE stage[x]
<1>1. todo \in Seq(Routes) /\ todo # <<>> /\ r = Head(todo) /\ shutdown = "draining"
  BY DEF DrainBackend, Round, TypeOK, ShutdownTypes
<1>2. r \in Elems(todo)
  BY <1>1 DEF Elems
<1>3. r \in Elems(backends)
  BY <1>1, <1>2 DEF Loops
<1>4. /\ active[r] = 0 /\ (captured[r] # None => jobs[captured[r]] = <<>>)
      /\ stage' = [x \in Backends |-> IF x = captured[r] THEN "closed" ELSE stage[x]]
      /\ session' = [session EXCEPT ![r] = IF @ = captured[r] THEN None ELSE @]
      /\ UNCHANGED <<home, jobs, retiring, transition, srv, pc, route>>
  BY DEF DrainBackend, localVars
<1>5. transition[r] = None /\ session[r] \in {captured[r], None}
      /\ (captured[r] # None => home[captured[r]] = r)
  BY <1>3 DEF Captures
<1>6. session \in [Routes -> Backends \cup {None}] /\ captured[r] \in Backends \cup {None}
  BY DEF TypeOK, EntryTypes, ShutdownTypes
<1>7. QED
  BY <1>1, <1>3, <1>4, <1>5, <1>6

\* Nothing is leased where nothing is counted.
LEMMA Idle ==
  ASSUME ActiveCounts, NEW r \in Routes, active[r] = 0
  PROVE  \A q \in Requests : pc[q] \in Leased => route[q] # r
<1>1. LeasedAt(r) = {}
  BY FS_EmptySet DEF ActiveCounts
<1>2. QED
  BY <1>1 DEF LeasedAt

\* A running job that its caller leaves is nobody's.
LEMMA Disowned ==
  ASSUME NEW s \in Seq(Job), s # <<>>, Singly(s), NEW q \in Requests, Head(s).by = q,
         NEW left, left = [s[1] EXCEPT !.by = None]
  PROVE  /\ Elems([s EXCEPT ![1] = left]) \subseteq {left} \cup Elems(s)
         /\ Singly([s EXCEPT ![1] = left])
         /\ \A job \in Elems([s EXCEPT ![1] = left]) : job # left => job.by # q
         /\ s[1] \in Elems(s) /\ s[1].by = q /\ left.by = None /\ left.to = s[1].to
<1> DEFINE t == [s EXCEPT ![1] = left]
<1>1. 1 \in DOMAIN s /\ s[1] = Head(s) /\ s[1] \in Job /\ q # None
  BY RegistryAssumption
<1>2. left.by = None /\ left.to = s[1].to
  BY <1>1 DEF Job
<1>3. DOMAIN t = DOMAIN s /\ t[1] = left /\ \A k \in DOMAIN s : k # 1 => t[k] = s[k]
  BY <1>1
<1> HIDE DEF t
<1>4. \A k \in DOMAIN s : k # 1 => s[k].by # q
  BY <1>1 DEF Singly
<1>5. Elems(t) \subseteq {left} \cup Elems(s) /\ \A job \in Elems(t) : job # left => job.by # q
  BY <1>3, <1>4 DEF Elems
<1>6. Singly(t)
  BY <1>2, <1>3 DEF Singly
<1>7. s[1] \in Elems(s) /\ s[1].by = q
  BY <1>1 DEF Elems
<1>8. QED
  BY <1>2, <1>5, <1>6, <1>7 DEF t

\* Accepted jobs are jobs.
LEMMA Accepted ==
  ASSUME TypeOK
  PROVE  \A b \in Backends : \A job \in Elems(jobs[b]) :
           job \in Job /\ job.by \in Requests \cup {None}
<1>1. \A job \in Job : job.by \in Requests \cup {None}
  BY DEF Job
<1>2. ASSUME NEW b \in Backends PROVE Elems(jobs[b]) \subseteq Job
  BY Contents DEF TypeOK, BackendTypes
<1>3. QED
  BY <1>1, <1>2

\* The counts of a route whose requests enter and leave nothing.
LEMMA SameLeases ==
  ASSUME ActiveCounts, UNCHANGED active,
         \A q \in Requests : pc'[q] \in Leased <=> pc[q] \in Leased,
         \A q \in Requests : pc[q] \in Leased => route'[q] = route[q]
  PROVE  ActiveCounts'
<1>1. ASSUME NEW r \in Routes PROVE LeasedAt(r)' = LeasedAt(r)
  BY DEF LeasedAt
<1>2. QED
  BY <1>1 DEF ActiveCounts

LEMMA SameSubscribers ==
  ASSUME SubscriberCounts, UNCHANGED subscribers,
         \A q \in Requests : pc'[q] = "subscribed" <=> pc[q] = "subscribed",
         \A q \in Requests : pc[q] = "subscribed" => route'[q] = route[q]
  PROVE  SubscriberCounts'
<1>1. ASSUME NEW r \in Routes PROVE SubscribedAt(r)' = SubscribedAt(r)
  BY DEF SubscribedAt
<1>2. QED
  BY <1>1 DEF SubscriberCounts

\* A switch that is made is that of the route's one refresh, or left running.
LEMMA Switches ==
  ASSUME TypeOK, Callers, Ownership, Refreshers, NEW b \in Backends, CompleteJob(b)
  PROVE  \A x \in Backends :
           \/ cap'[x] = cap[x]
           \/ x = b /\ b \in orphaned
           \/ /\ x = b
              /\ \E q \in Requests :
                   /\ pc[q] = "switching" /\ srv[q] = b /\ cap'[b] = want[q]
                   /\ route[q] \in Routes /\ session[route[q]] = b /\ transition[route[q]] = q
                   /\ \A p \in Requests : p # q => pc'[p] = pc[p]
<1> DEFINE job == Head(jobs[b])
<1>1. /\ \A x \in Backends : cap'[x] = IF x = b /\ job.to # None THEN job.to ELSE cap[x]
      /\ \A p \in Requests : p # job.by => pc'[p] = pc[p]
  BY DEF CompleteJob, TypeOK, BackendTypes
<1>2. /\ jobs[b] \in Seq(Job) /\ job \in Elems(jobs[b]) /\ job \in Job
      /\ job.by \in Requests \cup {None}
  <2>1. jobs[b] \in Seq(Job) /\ jobs[b] # <<>>
    BY DEF CompleteJob, TypeOK, BackendTypes
  <2>2. QED
    BY <2>1, Contents, Accepted
<1> HIDE DEF job
<1>3. CASE job.to = None
  BY <1>1, <1>3
<1>4. CASE job.to # None /\ job.by = None
  BY <1>1, <1>2, <1>4 DEF Callers
<1>5. CASE job.to # None /\ job.by # None
  <2>1. /\ job.by \in Requests /\ pc[job.by] = "switching" /\ srv[job.by] = b
        /\ job.to = want[job.by]
    BY <1>2, <1>5 DEF Callers
  <2>2. /\ route[job.by] \in Routes /\ session[route[job.by]] = b
        /\ transition[route[job.by]] = job.by
    BY <2>1 DEF Refreshers, Refreshing, Ownership, Owners, Owning, TypeOK, RequestTypes
  <2>3. QED
    BY <1>1, <1>5, <2>1, <2>2
<1>6. QED
  BY <1>3, <1>4, <1>5

-----------------------------------------------------------------------------
(* Every step keeps the types.                                            *)

\* The registry and its entries.
LEMMA EntryTypesStep == Inv /\ [Next]_vars => EntryTypes'
<1> SUFFICES ASSUME Inv, [Next]_vars PROVE EntryTypes'
  OBVIOUS
<1> DEFINE seen == <<known, closing, shutting, session, retiring, repository,
                     refreshPending, generation>>
<1>0. TypeOK /\ Carriers
  BY DEF Inv, BackendsHaveHomes
<1> USE RegistryAssumption, <1>0, Typed DEF TypeOK, EntryTypes
<1>1. ASSUME NEW q \in Requests, BeginTransition(q) PROVE EntryTypes'
  BY <1>1 DEF BeginTransition, registryVars
<1>2. ASSUME NEW q \in Requests, EndRefresh(q) PROVE EntryTypes'
  BY <1>2 DEF EndRefresh, Woken, registryVars
<1>3. ASSUME NEW q \in Requests, Publish(q) PROVE EntryTypes'
  <2>1. srv[q] \in Backends
    BY <1>3 DEF Publish, Carriers, Carrying
  <2>2. session' \in [Routes -> Backends \cup {None}]
    BY <1>3, <2>1 DEF Publish
  <2>3. repository' \in [Routes -> Caps]
    BY <1>3, <2>1 DEF Publish
  <2>4. QED
    BY <1>3, <2>2, <2>3 DEF Publish, registryVars
<1>4. ASSUME NEW r \in Routes, Retire(r) PROVE EntryTypes'
  BY <1>4 DEF Retire, Retirable, registryVars
<1>5. ASSUME NEW r \in Routes, EndRetire(r) PROVE EntryTypes'
  BY <1>5 DEF EndRetire, Woken, registryVars
<1>6. ASSUME NEW r \in Routes, MarkShutting(r) PROVE EntryTypes'
  BY <1>6 DEF MarkShutting, Round, entryVars
<1>7. ASSUME NEW r \in Routes, DrainBackend(r) PROVE EntryTypes'
  BY <1>7 DEF DrainBackend, Round, registryVars
<1>8. ASSUME NEW o \in Openers, OpenRecord(o) PROVE EntryTypes'
  BY <1>8 DEF OpenRecord, Opening, registryVars
<1>9. ASSUME NEW o \in Openers, OpenReserve(o) PROVE EntryTypes'
  <2>1. opener[o].route \in Routes /\ opener[o].cap \in Caps
    OBVIOUS
  <2>2. known' \in SUBSET Routes /\ repository' \in [Routes -> Caps]
    <3>1. CASE closing \/ opener[o].route \in known
      BY <1>9, <3>1 DEF OpenReserve
    <3>2. CASE ~(closing \/ opener[o].route \in known)
      <4>1. /\ known' = known \cup {opener[o].route}
            /\ repository' = [repository EXCEPT ![opener[o].route] = opener[o].cap]
        BY <1>9, <3>2 DEF OpenReserve
      <4>2. QED
        BY <2>1, <4>1
    <3>3. QED
      BY <3>1, <3>2
  <2>3. QED
    BY <1>9, <2>2 DEF OpenReserve
<1>10. CASE BeginShutdown
  BY <1>10 DEF BeginShutdown, entryVars
<1>11. ASSUME UNCHANGED seen PROVE EntryTypes'
  BY <1>11
<1>12. ASSUME NEW q \in Requests,
             Arrive(q) \/ EnsureRefused(q) \/ EnsureWaits(q) \/ EnsureReady(q) \/ GiveUp(q)
             \/ SameCapability(q) \/ SwitchTo(q) \/ SwitchNotAccepted(q) \/ StartWatcher(q)
             \/ Activate(q) \/ ActivateFails(q) \/ PublishRefused(q) \/ Discard(q)
             \/ EndActivation(q) \/ Acquire(q) \/ AcquireAgain(q) \/ Mutate(q)
             \/ MutationAnswered(q) \/ Subscribe(q) \/ Unsubscribe(q) \/ Release(q)
             \/ AbandonQueued(q) \/ AbandonRunning(q) \/ AnswerLost(q)
      PROVE  UNCHANGED seen
  BY <1>12 DEF Arrive, EnsureRefused, EnsureWaits, EnsureReady, GiveUp, SameCapability,
     SwitchTo, Enqueue, SwitchNotAccepted, StartWatcher, Activate, ActivateFails,
     PublishRefused, Discard, EndActivation, Acquire, AcquireAgain, Mutate,
     MutationAnswered, Subscribe, Unsubscribe, ScheduleDormancy, Release, AbandonQueued,
     AbandonRunning, AnswerLost, registryVars, entryVars
<1>13. ASSUME NEW b \in Backends,
             CompleteJob(b) \/ WatchEvent(b)
      PROVE  UNCHANGED seen
  BY <1>13 DEF CompleteJob, WatchEvent, registryVars, entryVars
<1>14. ASSUME NEW r \in Routes,
             FireTimer(r) \/ RetireDeclined(r) \/ RetireSuperseded(r) \/ RetireStop(r)
             \/ FlipDisk(r) \/ StopReady(r) \/ StopLater(r) \/ StopAfterTransition(r)
      PROVE  UNCHANGED seen
  BY <1>14 DEF FireTimer, RetireDeclined, RetireSuperseded, RetireStop, FlipDisk, StopReady,
     Round, StopBackend, StopLater, StopAfterTransition, registryVars, entryVars
<1>15. ASSUME NEW o \in Openers,
             OpenResolve(o) \/ OpenLookup(o)
      PROVE  UNCHANGED seen
  BY <1>15 DEF OpenResolve, OpenLookup, registryVars, entryVars
<1>16. ASSUME EndLoop PROVE UNCHANGED seen
  BY <1>16 DEF EndLoop, registryVars, entryVars
<1>17. CASE UNCHANGED vars
  BY <1>17, <1>11 DEF vars, registryVars, entryVars
<1>18. QED
  BY <1>1, <1>2, <1>3, <1>4, <1>5, <1>6, <1>7, <1>8, <1>9, <1>10, <1>11, <1>12, <1>13,
     <1>14, <1>15, <1>16, <1>17
     DEF Next, RequestStep, EnsureStep, ContextEnds, RetireStep, ShutdownStep, OpenStep,
         Quiescent

\* The counts, timers and transitions.
LEMMA LeaseTypesStep == Inv /\ [Next]_vars => LeaseTypes'
<1> SUFFICES ASSUME Inv, [Next]_vars PROVE LeaseTypes'
  OBVIOUS
<1> DEFINE seen == <<active, subscribers, dormancy, stale, transition>>
<1>0. TypeOK
  BY DEF Inv
<1> USE RegistryAssumption, <1>0, Typed DEF TypeOK, LeaseTypes
<1>1. ASSUME NEW q \in Requests, EnsureRefused(q) PROVE LeaseTypes'
  BY <1>1 DEF EnsureRefused, CancelDormancy, leaseVars
<1>2. ASSUME NEW q \in Requests, EnsureWaits(q) PROVE LeaseTypes'
  BY <1>2 DEF EnsureWaits, CancelDormancy, leaseVars
<1>3. ASSUME NEW q \in Requests, EnsureReady(q) PROVE LeaseTypes'
  BY <1>3 DEF EnsureReady, CancelDormancy, leaseVars
<1>4. ASSUME NEW q \in Requests, BeginTransition(q) PROVE LeaseTypes'
  BY <1>4 DEF BeginTransition, CancelDormancy, leaseVars
<1>5. ASSUME NEW q \in Requests, EndRefresh(q) PROVE LeaseTypes'
  BY <1>5 DEF EndRefresh, EndTransition, Woken, leaseVars, timerVars
<1>6. ASSUME NEW q \in Requests, EndActivation(q) PROVE LeaseTypes'
  BY <1>6 DEF EndActivation, EndTransition, Woken, leaseVars, timerVars
<1>7. ASSUME NEW q \in Requests, Acquire(q) PROVE LeaseTypes'
  BY <1>7 DEF Acquire, CancelDormancy
<1>8. ASSUME NEW q \in Requests, Subscribe(q) PROVE LeaseTypes'
  BY <1>8 DEF Subscribe, CancelDormancy
<1>9. ASSUME NEW q \in Requests, Unsubscribe(q) PROVE LeaseTypes'
  BY <1>9 DEF Unsubscribe, ScheduleDormancy
<1>10. ASSUME NEW q \in Requests, Release(q) PROVE LeaseTypes'
  BY <1>10 DEF Release, ScheduleDormancy
<1>11. ASSUME NEW r \in Routes, FireTimer(r) PROVE LeaseTypes'
  BY <1>11 DEF FireTimer, leaseVars
<1>12. ASSUME NEW r \in Routes, Retire(r) PROVE LeaseTypes'
  BY <1>12 DEF Retire, Retirable, leaseVars
<1>13. ASSUME NEW r \in Routes, RetireDeclined(r) PROVE LeaseTypes'
  BY <1>13 DEF RetireDeclined, Retirable, leaseVars
<1>14. ASSUME NEW r \in Routes, RetireSuperseded(r) PROVE LeaseTypes'
  BY <1>14 DEF RetireSuperseded, leaseVars
<1>15. ASSUME NEW r \in Routes, EndRetire(r) PROVE LeaseTypes'
  BY <1>15 DEF EndRetire, EndTransition, Woken, leaseVars, timerVars
<1>16. ASSUME NEW r \in Routes, MarkShutting(r) PROVE LeaseTypes'
  BY <1>16 DEF MarkShutting, Round, CancelDormancy, leaseVars
<1>17. ASSUME UNCHANGED seen PROVE LeaseTypes'
  BY <1>17
<1>18. ASSUME NEW q \in Requests,
             Arrive(q) \/ GiveUp(q) \/ SameCapability(q) \/ SwitchTo(q)
             \/ SwitchNotAccepted(q) \/ StartWatcher(q) \/ Activate(q) \/ ActivateFails(q)
             \/ Publish(q) \/ PublishRefused(q) \/ Discard(q) \/ AcquireAgain(q)
             \/ Mutate(q) \/ MutationAnswered(q) \/ AbandonQueued(q) \/ AbandonRunning(q)
             \/ AnswerLost(q)
      PROVE  UNCHANGED seen
  BY <1>18 DEF Arrive, GiveUp, SameCapability, SwitchTo, Enqueue, SwitchNotAccepted,
     StartWatcher, Activate, ActivateFails, Publish, PublishRefused, Discard, AcquireAgain,
     Mutate, MutationAnswered, AbandonQueued, AbandonRunning, AnswerLost, leaseVars,
     timerVars
<1>19. ASSUME NEW b \in Backends,
             CompleteJob(b) \/ WatchEvent(b)
      PROVE  UNCHANGED seen
  BY <1>19 DEF CompleteJob, WatchEvent, leaseVars, timerVars
<1>20. ASSUME NEW r \in Routes,
             RetireStop(r) \/ FlipDisk(r) \/ StopReady(r) \/ StopLater(r)
             \/ StopAfterTransition(r) \/ DrainBackend(r)
      PROVE  UNCHANGED seen
  BY <1>20 DEF RetireStop, FlipDisk, StopReady, Round, StopBackend, StopLater,
     StopAfterTransition, DrainBackend, leaseVars, timerVars
<1>21. ASSUME NEW o \in Openers,
             OpenResolve(o) \/ OpenLookup(o) \/ OpenRecord(o) \/ OpenReserve(o)
      PROVE  UNCHANGED seen
  BY <1>21 DEF OpenResolve, OpenLookup, OpenRecord, OpenReserve, leaseVars, timerVars
<1>22. ASSUME BeginShutdown \/ EndLoop PROVE UNCHANGED seen
  BY <1>22 DEF BeginShutdown, EndLoop, leaseVars, timerVars
<1>23. CASE UNCHANGED vars
  BY <1>23, <1>17 DEF vars, leaseVars, timerVars
<1>24. QED
  BY <1>1, <1>2, <1>3, <1>4, <1>5, <1>6, <1>7, <1>8, <1>9, <1>10, <1>11, <1>12, <1>13,
     <1>14, <1>15, <1>16, <1>17, <1>18, <1>19, <1>20, <1>21, <1>22, <1>23
     DEF Next, RequestStep, EnsureStep, ContextEnds, RetireStep, ShutdownStep, OpenStep,
         Quiescent

\* The backends.
LEMMA BackendTypesStep == Inv /\ [Next]_vars => BackendTypes'
<1> SUFFICES ASSUME Inv, [Next]_vars PROVE BackendTypes'
  OBVIOUS
<1> DEFINE seen == <<stage, home, cap, watched, jobs, gen, served, orphaned>>
<1>0. TypeOK /\ Carriers /\ Refreshers
  BY DEF Inv, BackendsHaveHomes
<1> USE RegistryAssumption, <1>0, Typed DEF TypeOK, BackendTypes
<1>1. ASSUME NEW q \in Requests, SwitchTo(q) PROVE BackendTypes'
  <2>1. [by |-> q, to |-> want[q]] \in Job /\ srv[q] \in Backends
    BY <1>1 DEF SwitchTo, Job, RequestTypes, Refreshers, Refreshing, Leased
  <2>2. /\ jobs' = [jobs EXCEPT ![srv[q]] = Append(@, [by |-> q, to |-> want[q]])]
        /\ Len(jobs[srv[q]]) < MaxJobs
    BY <1>1 DEF SwitchTo, Enqueue
  <2>3. jobs' \in [Backends -> Seq(Job)] /\ \A b \in Backends : Len(jobs'[b]) <= MaxJobs
    BY <2>1, <2>2, Queues
  <2>4. QED
    BY <1>1, <2>3 DEF SwitchTo, Enqueue
<1>2. ASSUME NEW q \in Requests, StartWatcher(q) PROVE BackendTypes'
  BY <1>2 DEF StartWatcher
<1>3. ASSUME NEW q \in Requests, Activate(q) PROVE BackendTypes'
  <2>1. gen' \in [Backends -> Nat]
    BY <1>3 DEF Activate
  <2>2. stage' \in [Backends -> {"closed", "open", "stopped"}]
    BY <1>3 DEF Activate
  <2>3. cap' \in [Backends -> Caps] /\ watched' \in [Backends -> Caps]
    BY <1>3 DEF Activate
  <2>4. home' \in [Backends -> Routes] /\ orphaned' \in SUBSET Backends
    BY <1>3 DEF Activate
  <2>5. UNCHANGED <<jobs, served>>
    BY <1>3 DEF Activate
  <2>6. QED
    BY <2>1, <2>2, <2>3, <2>4, <2>5
<1>4. ASSUME NEW q \in Requests, Publish(q) PROVE BackendTypes'
  <2>1. gen[srv[q]] \in Nat
    BY <1>4 DEF Publish, Carriers, Carrying
  <2>2. served' \in [Routes -> Nat]
    BY <1>4, <2>1 DEF Publish, Answered
  <2>3. QED
    BY <1>4, <2>2 DEF Publish
<1>5. ASSUME NEW q \in Requests, Discard(q) PROVE BackendTypes'
  BY <1>5 DEF Discard
<1>6. ASSUME NEW q \in Requests, Mutate(q) PROVE BackendTypes'
  <2>1. [by |-> q, to |-> None] \in Job /\ srv[q] \in Backends
    BY <1>6 DEF Mutate, Job, RequestTypes, Refreshers, Refreshing, Leased
  <2>2. /\ jobs' = [jobs EXCEPT ![srv[q]] = Append(@, [by |-> q, to |-> None])]
        /\ Len(jobs[srv[q]]) < MaxJobs
    BY <1>6 DEF Mutate, Enqueue
  <2>3. jobs' \in [Backends -> Seq(Job)] /\ \A b \in Backends : Len(jobs'[b]) <= MaxJobs
    BY <2>1, <2>2, Queues
  <2>4. QED
    BY <1>6, <2>3 DEF Mutate, Enqueue
<1>7. ASSUME NEW q \in Requests, MutationAnswered(q) PROVE BackendTypes'
  <2>1. srv[q] \in Backends
    BY <1>7 DEF MutationAnswered, RequestTypes, Leased
  <2>2. CASE UNCHANGED <<gen, served>>
    BY <1>7, <2>2 DEF MutationAnswered
  <2>3. CASE gen' = [gen EXCEPT ![srv[q]] = Bumped(@)] /\ Answered(home[srv[q]], gen'[srv[q]])
    <3>1. gen' \in [Backends -> Nat]
      <4>1. gen[srv[q]] \in Nat /\ gen \in [Backends -> Nat]
        BY <2>1
      <4>2. Bumped(gen[srv[q]]) \in Nat
        BY <4>1 DEF Bumped
      <4>3. QED
        BY <2>3, <4>1, <4>2
    <3>2. served' \in [Routes -> Nat]
      BY <2>1, <2>3, <3>1 DEF Answered
    <3>3. QED
      BY <1>7, <3>1, <3>2 DEF MutationAnswered
  <2>4. QED
    BY <1>7, <2>2, <2>3 DEF MutationAnswered
<1>8. ASSUME NEW q \in Requests, AbandonQueued(q) PROVE BackendTypes'
  <2>1. srv[q] \in Backends
    BY <1>8 DEF AbandonQueued, RequestTypes, Refreshers, Refreshing, Leased
  <2>2. PICK i \in DOMAIN jobs[srv[q]] : jobs' = [jobs EXCEPT ![srv[q]] = Skipping(@, i)]
    BY <1>8 DEF AbandonQueued
  <2> DEFINE left == Skipping(jobs[srv[q]], i)
  <2>3. left \in Seq(Job) /\ Len(left) <= MaxJobs
    <3>1. /\ jobs[srv[q]] \in Seq(Job) /\ i \in DOMAIN jobs[srv[q]]
          /\ Len(jobs[srv[q]]) <= MaxJobs
      BY <2>1
    <3> HIDE <1>0 DEF TypeOK, BackendTypes
    <3>2. left \in Seq(Job) /\ Len(left) = Len(jobs[srv[q]]) - 1
      BY <3>1, Queues
    <3>3. Len(jobs[srv[q]]) \in Nat
      BY <3>1
    <3> HIDE DEF left
    <3>4. QED
      BY <3>1, <3>2, <3>3
  <2> HIDE DEF left
  <2>4. jobs' = [jobs EXCEPT ![srv[q]] = left]
    BY <2>2 DEF left
  <2>5. jobs' \in [Backends -> Seq(Job)] /\ \A b \in Backends : Len(jobs'[b]) <= MaxJobs
    BY <2>1, <2>3, <2>4
  <2>6. QED
    BY <1>8, <2>5 DEF AbandonQueued
<1>9. ASSUME NEW q \in Requests, AbandonRunning(q) PROVE BackendTypes'
  <2>1. srv[q] \in Backends
    BY <1>9 DEF AbandonRunning, RequestTypes, Refreshers, Refreshing, Leased
  <2> DEFINE s == jobs[srv[q]]
             left == [s EXCEPT ![1].by = None]
  <2>2. jobs' = [jobs EXCEPT ![srv[q]] = left]
    BY <1>9 DEF AbandonRunning
  <2>3. left \in Seq(Job) /\ Len(left) = Len(s)
    <3>1. s \in Seq(Job) /\ s # <<>>
      BY <1>9, <2>1 DEF AbandonRunning
    <3> HIDE DEF s
    <3>2. s[1] \in Job /\ 1 \in DOMAIN s
      BY <3>1
    <3>3. [s[1] EXCEPT !.by = None] \in Job
      BY <3>2 DEF Job
    <3>4. left = [s EXCEPT ![1] = [s[1] EXCEPT !.by = None]]
      OBVIOUS
    <3> DEFINE j == [s[1] EXCEPT !.by = None]
    <3> HIDE DEF j
    <3>5. [s EXCEPT ![1] = j] \in Seq(Job) /\ Len([s EXCEPT ![1] = j]) = Len(s)
      BY <3>1, <3>2, <3>3 DEF j
    <3>6. QED
      BY <3>4, <3>5 DEF j
  <2> HIDE DEF left
  <2>4. jobs' \in [Backends -> Seq(Job)] /\ \A b \in Backends : Len(jobs'[b]) <= MaxJobs
    BY <2>1, <2>2, <2>3
  <2>5. orphaned' \in SUBSET Backends
    BY <1>9, <2>1 DEF AbandonRunning
  <2>6. QED
    BY <1>9, <2>4, <2>5 DEF AbandonRunning
<1>10. ASSUME NEW b \in Backends, CompleteJob(b) PROVE BackendTypes'
  <2>1. jobs[b] \in Seq(Job) /\ jobs[b] # <<>> /\ Len(jobs[b]) <= MaxJobs
    BY <1>10 DEF CompleteJob
  <2>2. /\ Head(jobs[b]) \in Job /\ Tail(jobs[b]) \in Seq(Job)
        /\ Len(Tail(jobs[b])) = Len(jobs[b]) - 1 /\ Len(jobs[b]) <= MaxJobs
        /\ Len(jobs[b]) \in Nat
    <3> HIDE <1>0 DEF TypeOK, BackendTypes
    <3>1. QED
      BY <2>1, Queues
  <2>3. jobs' \in [Backends -> Seq(Job)] /\ \A x \in Backends : Len(jobs'[x]) <= MaxJobs
    BY <1>10, <2>2 DEF CompleteJob
  <2>4. cap' \in [Backends -> Caps]
    <3>1. Head(jobs[b]).to \in Caps \cup {None}
      BY <2>2 DEF Job
    <3>2. QED
      BY <1>10, <3>1 DEF CompleteJob
  <2>5. QED
    BY <1>10, <2>3, <2>4 DEF CompleteJob
<1>11. ASSUME NEW b \in Backends, WatchEvent(b) PROVE BackendTypes'
  <2>1. gen' \in [Backends -> Nat]
    BY <1>11 DEF WatchEvent, Bumped
  <2>2. served' \in [Routes -> Nat]
    BY <1>11, <2>1 DEF WatchEvent, Answered
  <2>3. QED
    BY <1>11, <2>1, <2>2 DEF WatchEvent
<1>12. ASSUME NEW r \in Routes, RetireStop(r) PROVE BackendTypes'
  BY <1>12 DEF RetireStop
<1>13. ASSUME NEW r \in Routes, EndRetire(r) PROVE BackendTypes'
  BY <1>13 DEF EndRetire, Woken
<1>14. ASSUME NEW r \in Routes, StopReady(r) PROVE BackendTypes'
  BY <1>14 DEF StopReady, Round, StopBackend
<1>15. ASSUME NEW r \in Routes, StopAfterTransition(r) PROVE BackendTypes'
  BY <1>15 DEF StopAfterTransition, Round, StopBackend
<1>16. ASSUME NEW r \in Routes, DrainBackend(r) PROVE BackendTypes'
  BY <1>16 DEF DrainBackend, Round
<1>17. ASSUME UNCHANGED seen PROVE BackendTypes'
  BY <1>17
<1>18. ASSUME NEW q \in Requests,
             Arrive(q) \/ EnsureRefused(q) \/ EnsureWaits(q) \/ EnsureReady(q)
             \/ BeginTransition(q) \/ GiveUp(q) \/ SameCapability(q)
             \/ SwitchNotAccepted(q) \/ EndRefresh(q) \/ ActivateFails(q)
             \/ PublishRefused(q) \/ EndActivation(q) \/ Acquire(q) \/ AcquireAgain(q)
             \/ Subscribe(q) \/ Unsubscribe(q) \/ Release(q) \/ AnswerLost(q)
      PROVE  UNCHANGED seen
  BY <1>18 DEF Arrive, EnsureRefused, EnsureWaits, EnsureReady, BeginTransition, GiveUp,
     SameCapability, SwitchNotAccepted, EndRefresh, ActivateFails, PublishRefused,
     EndActivation, Acquire, AcquireAgain, Subscribe, Unsubscribe, ScheduleDormancy,
     Release, AnswerLost, backendVars
<1>19. ASSUME NEW r \in Routes,
             FireTimer(r) \/ Retire(r) \/ RetireDeclined(r) \/ RetireSuperseded(r)
             \/ FlipDisk(r) \/ MarkShutting(r) \/ StopLater(r)
      PROVE  UNCHANGED seen
  BY <1>19 DEF FireTimer, Retire, RetireDeclined, RetireSuperseded, FlipDisk, MarkShutting,
     Round, StopLater, backendVars
<1>20. ASSUME NEW o \in Openers,
             OpenResolve(o) \/ OpenLookup(o) \/ OpenRecord(o) \/ OpenReserve(o)
      PROVE  UNCHANGED seen
  BY <1>20 DEF OpenResolve, OpenLookup, OpenRecord, OpenReserve, backendVars
<1>21. ASSUME BeginShutdown \/ EndLoop PROVE UNCHANGED seen
  BY <1>21 DEF BeginShutdown, EndLoop, backendVars
<1>22. CASE UNCHANGED vars
  BY <1>22, <1>17 DEF vars, backendVars
<1>23. QED
  BY <1>1, <1>2, <1>3, <1>4, <1>5, <1>6, <1>7, <1>8, <1>9, <1>10, <1>11, <1>12, <1>13,
     <1>14, <1>15, <1>16, <1>17, <1>18, <1>19, <1>20, <1>21, <1>22
     DEF Next, RequestStep, EnsureStep, ContextEnds, RetireStep, ShutdownStep, OpenStep,
         Quiescent

\* The requests.
LEMMA RequestTypesStep == Inv /\ [Next]_vars => RequestTypes'
<1> SUFFICES ASSUME Inv, [Next]_vars PROVE RequestTypes'
  OBVIOUS
<1> DEFINE seen == <<pc, route, srv, want, again>>
<1>0. TypeOK /\ Callers
  BY DEF Inv
<1> USE RegistryAssumption, <1>0, Typed DEF TypeOK, RequestTypes, PCs, Owning, Leased
<1>1. ASSUME NEW q \in Requests, Arrive(q) PROVE RequestTypes'
  <2>1. route' \in [Requests -> Routes]
    BY <1>1 DEF Arrive, EntryTypes
  <2>2. QED
    BY <1>1, <2>1 DEF Arrive, Goto
<1>2. ASSUME NEW q \in Requests, EnsureRefused(q) PROVE RequestTypes'
  BY <1>2 DEF EnsureRefused, Goto, localVars
<1>3. ASSUME NEW q \in Requests, EnsureWaits(q) PROVE RequestTypes'
  BY <1>3 DEF EnsureWaits, Goto, localVars
<1>4. ASSUME NEW q \in Requests, EnsureReady(q) PROVE RequestTypes'
  BY <1>4 DEF EnsureReady, Goto, localVars
<1>5. ASSUME NEW q \in Requests, BeginTransition(q) PROVE RequestTypes'
  BY <1>5 DEF BeginTransition, Goto
<1>6. ASSUME NEW q \in Requests, GiveUp(q) PROVE RequestTypes'
  BY <1>6 DEF GiveUp, Goto, localVars
<1>7. ASSUME NEW q \in Requests, SameCapability(q) PROVE RequestTypes'
  BY <1>7 DEF SameCapability, Goto, localVars
<1>8. ASSUME NEW q \in Requests, SwitchTo(q) PROVE RequestTypes'
  BY <1>8 DEF SwitchTo, Enqueue, Goto, localVars
<1>9. ASSUME NEW q \in Requests, SwitchNotAccepted(q) PROVE RequestTypes'
  BY <1>9 DEF SwitchNotAccepted, Goto, localVars
<1>10. ASSUME NEW q \in Requests, StartWatcher(q) PROVE RequestTypes'
  BY <1>10 DEF StartWatcher, Goto, localVars
<1>11. ASSUME NEW q \in Requests, EndRefresh(q) PROVE RequestTypes'
  BY <1>11 DEF EndRefresh, Woken
<1>12. ASSUME NEW q \in Requests, Activate(q) PROVE RequestTypes'
  BY <1>12 DEF Activate, Goto
<1>13. ASSUME NEW q \in Requests, ActivateFails(q) PROVE RequestTypes'
  BY <1>13 DEF ActivateFails, Goto, localVars
<1>14. ASSUME NEW q \in Requests, Publish(q) PROVE RequestTypes'
  BY <1>14 DEF Publish, Goto
<1>15. ASSUME NEW q \in Requests, PublishRefused(q) PROVE RequestTypes'
  BY <1>15 DEF PublishRefused, Goto, localVars
<1>16. ASSUME NEW q \in Requests, Discard(q) PROVE RequestTypes'
  BY <1>16 DEF Discard, Goto
<1>17. ASSUME NEW q \in Requests, EndActivation(q) PROVE RequestTypes'
  BY <1>17 DEF EndActivation, Woken
<1>18. ASSUME NEW q \in Requests, Acquire(q) PROVE RequestTypes'
  BY <1>18 DEF Acquire, Goto
<1>19. ASSUME NEW q \in Requests, AcquireAgain(q) PROVE RequestTypes'
  BY <1>19 DEF AcquireAgain, Goto, localVars
<1>20. ASSUME NEW q \in Requests, Mutate(q) PROVE RequestTypes'
  BY <1>20 DEF Mutate, Enqueue, Goto, localVars
<1>21. ASSUME NEW q \in Requests, MutationAnswered(q) PROVE RequestTypes'
  BY <1>21 DEF MutationAnswered, Bumped, Goto, localVars
<1>22. ASSUME NEW q \in Requests, Subscribe(q) PROVE RequestTypes'
  BY <1>22 DEF Subscribe, Goto, localVars
<1>23. ASSUME NEW q \in Requests, Unsubscribe(q) PROVE RequestTypes'
  BY <1>23 DEF Unsubscribe, Goto, localVars
<1>24. ASSUME NEW q \in Requests, Release(q) PROVE RequestTypes'
  BY <1>24 DEF Release, Goto
<1>25. ASSUME NEW q \in Requests, AbandonQueued(q) PROVE RequestTypes'
  BY <1>25 DEF AbandonQueued, AfterAbandon, Goto, localVars
<1>26. ASSUME NEW q \in Requests, AbandonRunning(q) PROVE RequestTypes'
  BY <1>26 DEF AbandonRunning, AfterAbandon, Goto, localVars
<1>27. ASSUME NEW q \in Requests, AnswerLost(q) PROVE RequestTypes'
  BY <1>27 DEF AnswerLost, AfterAbandon, Goto, localVars
<1>28. ASSUME NEW b \in Backends, CompleteJob(b) PROVE RequestTypes'
  <2>1. \A p \in Requests : pc'[p] = pc[p] \/ srv[p] = b
    BY <1>28, Completed
  <2>3. \A p \in Requests : pc'[p] \in Leased => srv'[p] # None
    BY <1>28, <2>1 DEF CompleteJob, localVars
  <2>4. QED
    BY <1>28, <2>3 DEF CompleteJob, localVars
<1>29. ASSUME NEW r \in Routes, EndRetire(r) PROVE RequestTypes'
  BY <1>29 DEF EndRetire, Woken, localVars
<1>30. ASSUME UNCHANGED seen PROVE RequestTypes'
  BY <1>30
<1>31. ASSUME NEW b \in Backends,
             WatchEvent(b)
      PROVE  UNCHANGED seen
  BY <1>31 DEF WatchEvent, localVars
<1>32. ASSUME NEW r \in Routes,
             FireTimer(r) \/ Retire(r) \/ RetireDeclined(r) \/ RetireSuperseded(r)
             \/ RetireStop(r) \/ FlipDisk(r) \/ MarkShutting(r) \/ StopReady(r)
             \/ StopLater(r) \/ StopAfterTransition(r) \/ DrainBackend(r)
      PROVE  UNCHANGED seen
  BY <1>32 DEF FireTimer, Retire, RetireDeclined, RetireSuperseded, RetireStop, FlipDisk,
     MarkShutting, Round, StopReady, StopBackend, StopLater, StopAfterTransition,
     DrainBackend, localVars
<1>33. ASSUME NEW o \in Openers,
             OpenResolve(o) \/ OpenLookup(o) \/ OpenRecord(o) \/ OpenReserve(o)
      PROVE  UNCHANGED seen
  BY <1>33 DEF OpenResolve, OpenLookup, OpenRecord, OpenReserve, localVars
<1>34. ASSUME BeginShutdown \/ EndLoop PROVE UNCHANGED seen
  BY <1>34 DEF BeginShutdown, EndLoop, localVars
<1>35. CASE UNCHANGED vars
  BY <1>35, <1>30 DEF vars, localVars
<1>36. QED
  BY <1>1, <1>2, <1>3, <1>4, <1>5, <1>6, <1>7, <1>8, <1>9, <1>10, <1>11, <1>12, <1>13,
     <1>14, <1>15, <1>16, <1>17, <1>18, <1>19, <1>20, <1>21, <1>22, <1>23, <1>24, <1>25,
     <1>26, <1>27, <1>28, <1>29, <1>30, <1>31, <1>32, <1>33, <1>34, <1>35
     DEF Next, RequestStep, EnsureStep, ContextEnds, RetireStep, ShutdownStep, OpenStep,
         Quiescent

\* The openers and the disk.
LEMMA OpenerTypesStep == Inv /\ [Next]_vars => OpenerTypes'
<1> SUFFICES ASSUME Inv, [Next]_vars PROVE OpenerTypes'
  OBVIOUS
<1> DEFINE seen == <<opener, disk, flips>>
<1>0. TypeOK
  BY DEF Inv
<1> USE RegistryAssumption, <1>0, Typed DEF TypeOK, OpenerTypes, Caps
<1>1. ASSUME NEW r \in Routes, FlipDisk(r) PROVE OpenerTypes'
  BY <1>1 DEF FlipDisk
<1>2. ASSUME NEW o \in Openers, OpenResolve(o) PROVE OpenerTypes'
  BY <1>2 DEF OpenResolve, envVars
<1>3. ASSUME NEW o \in Openers, OpenLookup(o) PROVE OpenerTypes'
  BY <1>3 DEF OpenLookup, Opening, envVars
<1>4. ASSUME NEW o \in Openers, OpenRecord(o) PROVE OpenerTypes'
  BY <1>4 DEF OpenRecord, Opening, envVars
<1>5. ASSUME NEW o \in Openers, OpenReserve(o) PROVE OpenerTypes'
  BY <1>5 DEF OpenReserve, Opening, envVars
<1>6. ASSUME UNCHANGED seen PROVE OpenerTypes'
  BY <1>6
<1>7. ASSUME NEW q \in Requests,
             Arrive(q) \/ EnsureRefused(q) \/ EnsureWaits(q) \/ EnsureReady(q)
             \/ BeginTransition(q) \/ GiveUp(q) \/ SameCapability(q) \/ SwitchTo(q)
             \/ SwitchNotAccepted(q) \/ StartWatcher(q) \/ EndRefresh(q) \/ Activate(q)
             \/ ActivateFails(q) \/ Publish(q) \/ PublishRefused(q) \/ Discard(q)
             \/ EndActivation(q) \/ Acquire(q) \/ AcquireAgain(q) \/ Mutate(q)
             \/ MutationAnswered(q) \/ Subscribe(q) \/ Unsubscribe(q) \/ Release(q)
             \/ AbandonQueued(q) \/ AbandonRunning(q) \/ AnswerLost(q)
      PROVE  UNCHANGED seen
  BY <1>7 DEF Arrive, EnsureRefused, EnsureWaits, EnsureReady, BeginTransition, GiveUp,
     SameCapability, SwitchTo, Enqueue, SwitchNotAccepted, StartWatcher, EndRefresh,
     Activate, ActivateFails, Publish, PublishRefused, Discard, EndActivation, Acquire,
     AcquireAgain, Mutate, MutationAnswered, Subscribe, Unsubscribe, ScheduleDormancy,
     Release, AbandonQueued, AbandonRunning, AnswerLost, envVars
<1>8. ASSUME NEW b \in Backends,
             CompleteJob(b) \/ WatchEvent(b)
      PROVE  UNCHANGED seen
  BY <1>8 DEF CompleteJob, WatchEvent, envVars
<1>9. ASSUME NEW r \in Routes,
             FireTimer(r) \/ Retire(r) \/ RetireDeclined(r) \/ RetireSuperseded(r)
             \/ RetireStop(r) \/ EndRetire(r) \/ MarkShutting(r) \/ StopReady(r)
             \/ StopLater(r) \/ StopAfterTransition(r) \/ DrainBackend(r)
      PROVE  UNCHANGED seen
  BY <1>9 DEF FireTimer, Retire, RetireDeclined, RetireSuperseded, RetireStop, EndRetire,
     MarkShutting, Round, StopReady, StopBackend, StopLater, StopAfterTransition,
     DrainBackend, envVars
<1>10. ASSUME BeginShutdown \/ EndLoop PROVE UNCHANGED seen
  BY <1>10 DEF BeginShutdown, EndLoop, envVars
<1>11. CASE UNCHANGED vars
  BY <1>11, <1>6 DEF vars, envVars
<1>12. QED
  BY <1>1, <1>2, <1>3, <1>4, <1>5, <1>6, <1>7, <1>8, <1>9, <1>10, <1>11
     DEF Next, RequestStep, EnsureStep, ContextEnds, RetireStep, ShutdownStep, OpenStep,
         Quiescent

\* Shutdown.
LEMMA ShutdownTypesStep == Inv /\ [Next]_vars => ShutdownTypes'
<1> SUFFICES ASSUME Inv, [Next]_vars PROVE ShutdownTypes'
  OBVIOUS
<1> DEFINE seen == <<shutdown, entries, todo, late, backends, captured>>
<1>0. TypeOK /\ KnownRoutes
  BY DEF Inv
<1> USE RegistryAssumption, <1>0, Typed DEF TypeOK, ShutdownTypes
<1>1. ASSUME NEW r \in Routes, MarkShutting(r) PROVE ShutdownTypes'
  BY <1>1 DEF MarkShutting, Round
<1>2. ASSUME NEW r \in Routes, StopReady(r) PROVE ShutdownTypes'
  BY <1>2 DEF StopReady, Round, StopBackend
<1>3. ASSUME NEW r \in Routes, StopLater(r) PROVE ShutdownTypes'
  BY <1>3 DEF StopLater, Round
<1>4. ASSUME NEW r \in Routes, StopAfterTransition(r) PROVE ShutdownTypes'
  BY <1>4 DEF StopAfterTransition, Round, StopBackend
<1>5. ASSUME NEW r \in Routes, DrainBackend(r) PROVE ShutdownTypes'
  BY <1>5 DEF DrainBackend, Round
<1>6. CASE BeginShutdown
  <2>1. Cardinality(known) \in Nat
    BY FS_CardinalityType DEF KnownRoutes
  <2>2. entries' \in [1..Cardinality(known) -> Routes]
    BY <1>6 DEF BeginShutdown, Orders, EntryTypes
  <2>3. entries' \in Seq(Routes)
    BY <2>1, <2>2, Sequenced, Zenon
  <2>4. QED
    BY <1>6, <2>3 DEF BeginShutdown
<1>7. CASE EndLoop
  BY <1>7 DEF EndLoop
<1>8. ASSUME UNCHANGED seen PROVE ShutdownTypes'
  BY <1>8
<1>9. ASSUME NEW q \in Requests,
             Arrive(q) \/ EnsureRefused(q) \/ EnsureWaits(q) \/ EnsureReady(q)
             \/ BeginTransition(q) \/ GiveUp(q) \/ SameCapability(q) \/ SwitchTo(q)
             \/ SwitchNotAccepted(q) \/ StartWatcher(q) \/ EndRefresh(q) \/ Activate(q)
             \/ ActivateFails(q) \/ Publish(q) \/ PublishRefused(q) \/ Discard(q)
             \/ EndActivation(q) \/ Acquire(q) \/ AcquireAgain(q) \/ Mutate(q)
             \/ MutationAnswered(q) \/ Subscribe(q) \/ Unsubscribe(q) \/ Release(q)
             \/ AbandonQueued(q) \/ AbandonRunning(q) \/ AnswerLost(q)
      PROVE  UNCHANGED seen
  BY <1>9 DEF Arrive, EnsureRefused, EnsureWaits, EnsureReady, BeginTransition, GiveUp,
     SameCapability, SwitchTo, Enqueue, SwitchNotAccepted, StartWatcher, EndRefresh,
     Activate, ActivateFails, Publish, PublishRefused, Discard, EndActivation, Acquire,
     AcquireAgain, Mutate, MutationAnswered, Subscribe, Unsubscribe, ScheduleDormancy,
     Release, AbandonQueued, AbandonRunning, AnswerLost, shutdownVars
<1>10. ASSUME NEW b \in Backends,
             CompleteJob(b) \/ WatchEvent(b)
      PROVE  UNCHANGED seen
  BY <1>10 DEF CompleteJob, WatchEvent, shutdownVars
<1>11. ASSUME NEW r \in Routes,
             FireTimer(r) \/ Retire(r) \/ RetireDeclined(r) \/ RetireSuperseded(r)
             \/ RetireStop(r) \/ EndRetire(r) \/ FlipDisk(r)
      PROVE  UNCHANGED seen
  BY <1>11 DEF FireTimer, Retire, RetireDeclined, RetireSuperseded, RetireStop, EndRetire,
     FlipDisk, shutdownVars
<1>12. ASSUME NEW o \in Openers,
             OpenResolve(o) \/ OpenLookup(o) \/ OpenRecord(o) \/ OpenReserve(o)
      PROVE  UNCHANGED seen
  BY <1>12 DEF OpenResolve, OpenLookup, OpenRecord, OpenReserve, shutdownVars
<1>13. CASE UNCHANGED vars
  BY <1>13, <1>8 DEF vars, shutdownVars
<1>14. QED
  BY <1>1, <1>2, <1>3, <1>4, <1>5, <1>6, <1>7, <1>8, <1>9, <1>10, <1>11, <1>12, <1>13
     DEF Next, RequestStep, EnsureStep, ContextEnds, RetireStep, ShutdownStep, OpenStep,
         Quiescent

-----------------------------------------------------------------------------
(* Ownership: a transition has one owner.                                 *)

\* A transition stays in one pair of hands.
LEMMA OwnersStep == Inv /\ [Next]_vars => Owners'
<1> SUFFICES ASSUME Inv, [Next]_vars PROVE Owners'
  OBVIOUS
<1> DEFINE seen == <<transition, pc, route>>
<1>0. TypeOK /\ Owners /\ Retirers /\ Callers
  BY DEF Inv, Ownership
<1>1. /\ transition \in [Routes -> Requests \cup {Retirer, None}]
      /\ pc \in [Requests -> PCs] /\ route \in [Requests -> Routes]
      /\ known \in SUBSET Routes
  BY <1>0 DEF TypeOK, EntryTypes, LeaseTypes, RequestTypes
<1> USE RegistryAssumption, <1>0, <1>1 DEF Owners, Owning
<1>2. ASSUME NEW q \in Requests, Arrive(q) PROVE Owners'
  BY <1>2 DEF Arrive, Goto
<1>3. ASSUME NEW q \in Requests, EnsureRefused(q) PROVE Owners'
  BY <1>3 DEF EnsureRefused, Goto, localVars
<1>4. ASSUME NEW q \in Requests, EnsureWaits(q) PROVE Owners'
  BY <1>4 DEF EnsureWaits, Goto, localVars
<1>5. ASSUME NEW q \in Requests, EnsureReady(q) PROVE Owners'
  BY <1>5 DEF EnsureReady, Goto, localVars
<1>6. ASSUME NEW q \in Requests, BeginTransition(q) PROVE Owners'
  BY <1>6 DEF BeginTransition, Goto
<1>7. ASSUME NEW q \in Requests, GiveUp(q) PROVE Owners'
  BY <1>7 DEF GiveUp, Goto, localVars
<1>8. ASSUME NEW q \in Requests, SameCapability(q) PROVE Owners'
  BY <1>8 DEF SameCapability, Goto, localVars
<1>9. ASSUME NEW q \in Requests, SwitchTo(q) PROVE Owners'
  BY <1>9 DEF SwitchTo, Enqueue, Goto, localVars
<1>10. ASSUME NEW q \in Requests, SwitchNotAccepted(q) PROVE Owners'
  BY <1>10 DEF SwitchNotAccepted, Goto, localVars
<1>11. ASSUME NEW q \in Requests, StartWatcher(q) PROVE Owners'
  BY <1>11 DEF StartWatcher, Goto, localVars
<1>12. ASSUME NEW q \in Requests, EndRefresh(q) PROVE Owners'
  BY <1>12, Waked DEF EndRefresh, EndTransition
<1>13. ASSUME NEW q \in Requests, Activate(q) PROVE Owners'
  BY <1>13 DEF Activate, Goto
<1>14. ASSUME NEW q \in Requests, ActivateFails(q) PROVE Owners'
  BY <1>14 DEF ActivateFails, Goto, localVars
<1>15. ASSUME NEW q \in Requests, Publish(q) PROVE Owners'
  BY <1>15 DEF Publish, Goto
<1>16. ASSUME NEW q \in Requests, PublishRefused(q) PROVE Owners'
  BY <1>16 DEF PublishRefused, Goto, localVars
<1>17. ASSUME NEW q \in Requests, Discard(q) PROVE Owners'
  BY <1>17 DEF Discard, Goto
<1>18. ASSUME NEW q \in Requests, EndActivation(q) PROVE Owners'
  BY <1>18, Waked DEF EndActivation, EndTransition
<1>19. ASSUME NEW q \in Requests, Acquire(q) PROVE Owners'
  BY <1>19 DEF Acquire, Goto
<1>20. ASSUME NEW q \in Requests, AcquireAgain(q) PROVE Owners'
  BY <1>20 DEF AcquireAgain, Goto, localVars
<1>21. ASSUME NEW q \in Requests, Mutate(q) PROVE Owners'
  BY <1>21 DEF Mutate, Enqueue, Goto, localVars
<1>22. ASSUME NEW q \in Requests, MutationAnswered(q) PROVE Owners'
  BY <1>22 DEF MutationAnswered, Bumped, Goto, localVars
<1>23. ASSUME NEW q \in Requests, Subscribe(q) PROVE Owners'
  BY <1>23 DEF Subscribe, Goto, localVars
<1>24. ASSUME NEW q \in Requests, Unsubscribe(q) PROVE Owners'
  BY <1>24 DEF Unsubscribe, Goto, localVars
<1>25. ASSUME NEW q \in Requests, Release(q) PROVE Owners'
  BY <1>25 DEF Release, Goto
<1>26. ASSUME NEW q \in Requests, AbandonQueued(q) PROVE Owners'
  BY <1>26 DEF AbandonQueued, AfterAbandon, Goto, localVars
<1>27. ASSUME NEW q \in Requests, AbandonRunning(q) PROVE Owners'
  BY <1>27 DEF AbandonRunning, AfterAbandon, Goto, localVars
<1>28. ASSUME NEW q \in Requests, AnswerLost(q) PROVE Owners'
  BY <1>28 DEF AnswerLost, AfterAbandon, Goto, localVars
<1>29. ASSUME NEW b \in Backends, CompleteJob(b) PROVE Owners'
  <2>1. UNCHANGED <<transition, route>>
    BY <1>29 DEF CompleteJob, localVars
  <2>2. \A q \in Requests : \/ pc'[q] = pc[q]
                            \/ pc[q] = "switching" /\ pc'[q] = "switched"
                            \/ pc[q] = "mutating" /\ pc'[q] = "answered"
    BY <1>29, Completed
  <2>3. QED
    BY <2>1, <2>2
<1>30. ASSUME NEW r \in Routes, Retire(r) PROVE Owners'
  BY <1>30 DEF Retire, Retirable, localVars
<1>31. ASSUME NEW r \in Routes, EndRetire(r) PROVE Owners'
  BY <1>31, Waked DEF EndRetire, EndTransition, localVars, Retirers
<1>32. ASSUME UNCHANGED seen PROVE Owners'
  BY <1>32
<1>33. ASSUME NEW b \in Backends,
             WatchEvent(b)
      PROVE  UNCHANGED seen
  BY <1>33 DEF WatchEvent, localVars
<1>34. ASSUME NEW r \in Routes,
             FireTimer(r) \/ RetireDeclined(r) \/ RetireSuperseded(r) \/ RetireStop(r)
             \/ FlipDisk(r) \/ MarkShutting(r) \/ StopReady(r) \/ StopLater(r)
             \/ StopAfterTransition(r) \/ DrainBackend(r)
      PROVE  UNCHANGED seen
  BY <1>34 DEF FireTimer, RetireDeclined, RetireSuperseded, RetireStop, FlipDisk,
     MarkShutting, Round, StopReady, StopBackend, StopLater, StopAfterTransition,
     DrainBackend, localVars
<1>35. ASSUME NEW o \in Openers,
             OpenResolve(o) \/ OpenLookup(o) \/ OpenRecord(o) \/ OpenReserve(o)
      PROVE  UNCHANGED seen
  BY <1>35 DEF OpenResolve, OpenLookup, OpenRecord, OpenReserve, localVars
<1>36. ASSUME BeginShutdown \/ EndLoop PROVE UNCHANGED seen
  BY <1>36 DEF BeginShutdown, EndLoop, localVars
<1>37. CASE UNCHANGED vars
  BY <1>37, <1>32 DEF vars, localVars
<1>38. QED
  BY <1>2, <1>3, <1>4, <1>5, <1>6, <1>7, <1>8, <1>9, <1>10, <1>11, <1>12, <1>13, <1>14,
     <1>15, <1>16, <1>17, <1>18, <1>19, <1>20, <1>21, <1>22, <1>23, <1>24, <1>25, <1>26,
     <1>27, <1>28, <1>29, <1>30, <1>31, <1>32, <1>33, <1>34, <1>35, <1>36, <1>37
     DEF Next, RequestStep, EnsureStep, ContextEnds, RetireStep, ShutdownStep, OpenStep,
         Quiescent

\* The timer's goroutine has a backend as long as it has the transition.
LEMMA RetirersStep == Inv /\ [Next]_vars => Retirers'
<1> SUFFICES ASSUME Inv, [Next]_vars PROVE Retirers'
  OBVIOUS
<1> DEFINE seen == <<transition, retiring>>
<1>0. TypeOK /\ Owners /\ Retirers
  BY DEF Inv, Ownership
<1>1. /\ transition \in [Routes -> Requests \cup {Retirer, None}]
      /\ retiring \in [Routes -> Backends \cup {None}] /\ route \in [Requests -> Routes]
  BY <1>0 DEF TypeOK, EntryTypes, LeaseTypes, RequestTypes
<1> USE RegistryAssumption, <1>0, <1>1 DEF Retirers, Owners, Owning
<1>2. ASSUME NEW q \in Requests, BeginTransition(q) PROVE Retirers'
  BY <1>2 DEF BeginTransition
<1>3. ASSUME NEW q \in Requests, EndRefresh(q) PROVE Retirers'
  BY <1>3 DEF EndRefresh, EndTransition, Woken
<1>4. ASSUME NEW q \in Requests, EndActivation(q) PROVE Retirers'
  BY <1>4 DEF EndActivation, EndTransition, Woken, entryVars
<1>5. ASSUME NEW r \in Routes, Retire(r) PROVE Retirers'
  BY <1>5 DEF Retire, Retirable
<1>6. ASSUME NEW r \in Routes, EndRetire(r) PROVE Retirers'
  BY <1>6 DEF EndRetire, EndTransition, Woken
<1>7. ASSUME UNCHANGED seen PROVE Retirers'
  BY <1>7
<1>8. ASSUME NEW q \in Requests,
             Arrive(q) \/ EnsureRefused(q) \/ EnsureWaits(q) \/ EnsureReady(q) \/ GiveUp(q)
             \/ SameCapability(q) \/ SwitchTo(q) \/ SwitchNotAccepted(q) \/ StartWatcher(q)
             \/ Activate(q) \/ ActivateFails(q) \/ Publish(q) \/ PublishRefused(q)
             \/ Discard(q) \/ Acquire(q) \/ AcquireAgain(q) \/ Mutate(q)
             \/ MutationAnswered(q) \/ Subscribe(q) \/ Unsubscribe(q) \/ Release(q)
             \/ AbandonQueued(q) \/ AbandonRunning(q) \/ AnswerLost(q)
      PROVE  UNCHANGED seen
  BY <1>8 DEF Arrive, EnsureRefused, EnsureWaits, EnsureReady, GiveUp, SameCapability,
     SwitchTo, Enqueue, SwitchNotAccepted, StartWatcher, Activate, ActivateFails, Publish,
     PublishRefused, Discard, Acquire, AcquireAgain, Mutate, MutationAnswered, Subscribe,
     Unsubscribe, ScheduleDormancy, Release, AbandonQueued, AbandonRunning, AnswerLost,
     entryVars
<1>9. ASSUME NEW b \in Backends,
             CompleteJob(b) \/ WatchEvent(b)
      PROVE  UNCHANGED seen
  BY <1>9 DEF CompleteJob, WatchEvent, entryVars
<1>10. ASSUME NEW r \in Routes,
             FireTimer(r) \/ RetireDeclined(r) \/ RetireSuperseded(r) \/ RetireStop(r)
             \/ FlipDisk(r) \/ MarkShutting(r) \/ StopReady(r) \/ StopLater(r)
             \/ StopAfterTransition(r) \/ DrainBackend(r)
      PROVE  UNCHANGED seen
  BY <1>10 DEF FireTimer, RetireDeclined, RetireSuperseded, RetireStop, FlipDisk,
     MarkShutting, Round, StopReady, StopBackend, StopLater, StopAfterTransition,
     DrainBackend, entryVars
<1>11. ASSUME NEW o \in Openers,
             OpenResolve(o) \/ OpenLookup(o) \/ OpenRecord(o) \/ OpenReserve(o)
      PROVE  UNCHANGED seen
  BY <1>11 DEF OpenResolve, OpenLookup, OpenRecord, OpenReserve, entryVars
<1>12. ASSUME BeginShutdown \/ EndLoop PROVE UNCHANGED seen
  BY <1>12 DEF BeginShutdown, EndLoop, entryVars
<1>13. CASE UNCHANGED vars
  BY <1>13, <1>7 DEF vars, entryVars
<1>14. QED
  BY <1>2, <1>3, <1>4, <1>5, <1>6, <1>7, <1>8, <1>9, <1>10, <1>11, <1>12, <1>13
     DEF Next, RequestStep, EnsureStep, ContextEnds, RetireStep, ShutdownStep, OpenStep,
         Quiescent

\* Requests and backends are of known routes.
LEMMA KnownRoutesStep == Inv /\ [Next]_vars => KnownRoutes'
<1> SUFFICES ASSUME Inv, [Next]_vars PROVE KnownRoutes'
  OBVIOUS
<1> DEFINE seen == <<known, session, transition, route>>
<1>0. TypeOK /\ Owners /\ Retirers /\ KnownRoutes
  BY DEF Inv, Ownership
<1>1. /\ known \in SUBSET Routes /\ session \in [Routes -> Backends \cup {None}]
      /\ transition \in [Routes -> Requests \cup {Retirer, None}]
      /\ route \in [Requests -> Routes] /\ retiring \in [Routes -> Backends \cup {None}]
  BY <1>0 DEF TypeOK, EntryTypes, LeaseTypes, RequestTypes
<1> USE RegistryAssumption, <1>0, <1>1 DEF KnownRoutes, Retirers
<1>2. ASSUME NEW q \in Requests, Arrive(q) PROVE KnownRoutes'
  BY <1>2 DEF Arrive, registryVars, entryVars
<1>3. ASSUME NEW q \in Requests, BeginTransition(q) PROVE KnownRoutes'
  BY <1>3 DEF BeginTransition, registryVars
<1>4. ASSUME NEW q \in Requests, EndRefresh(q) PROVE KnownRoutes'
  BY <1>4 DEF EndRefresh, EndTransition, Woken, registryVars
<1>5. ASSUME NEW q \in Requests, Publish(q) PROVE KnownRoutes'
  BY <1>5 DEF Publish, registryVars
<1>6. ASSUME NEW q \in Requests, EndActivation(q) PROVE KnownRoutes'
  BY <1>6 DEF EndActivation, EndTransition, Woken, registryVars, entryVars
<1>7. ASSUME NEW r \in Routes, Retire(r) PROVE KnownRoutes'
  BY <1>7 DEF Retire, Retirable, registryVars, localVars
<1>8. ASSUME NEW r \in Routes, EndRetire(r) PROVE KnownRoutes'
  BY <1>8 DEF EndRetire, EndTransition, Woken, registryVars, localVars
<1>9. ASSUME NEW r \in Routes, DrainBackend(r) PROVE KnownRoutes'
  BY <1>9 DEF DrainBackend, Round, registryVars, localVars
<1>10. ASSUME NEW o \in Openers, OpenReserve(o) PROVE KnownRoutes'
  <2>1. UNCHANGED <<session, transition, route>>
    BY <1>10 DEF OpenReserve, localVars
  <2>2. known' = known \/ known' = known \cup {opener[o].route}
    BY <1>10 DEF OpenReserve
  <2>3. IsFiniteSet(known') /\ known \subseteq known'
    BY <2>2, FS_AddElement
  <2>4. QED
    BY <2>1, <2>3
<1>11. ASSUME UNCHANGED seen PROVE KnownRoutes'
  BY <1>11
<1>12. ASSUME NEW q \in Requests,
             EnsureRefused(q) \/ EnsureWaits(q) \/ EnsureReady(q) \/ GiveUp(q)
             \/ SameCapability(q) \/ SwitchTo(q) \/ SwitchNotAccepted(q) \/ StartWatcher(q)
             \/ Activate(q) \/ ActivateFails(q) \/ PublishRefused(q) \/ Discard(q)
             \/ Acquire(q) \/ AcquireAgain(q) \/ Mutate(q) \/ MutationAnswered(q)
             \/ Subscribe(q) \/ Unsubscribe(q) \/ Release(q) \/ AbandonQueued(q)
             \/ AbandonRunning(q) \/ AnswerLost(q)
      PROVE  UNCHANGED seen
  BY <1>12 DEF EnsureRefused, EnsureWaits, EnsureReady, GiveUp, SameCapability, SwitchTo,
     Enqueue, SwitchNotAccepted, StartWatcher, Activate, ActivateFails, PublishRefused,
     Discard, Acquire, AcquireAgain, Mutate, MutationAnswered, Subscribe, Unsubscribe,
     ScheduleDormancy, Release, AbandonQueued, AbandonRunning, AnswerLost, registryVars,
     entryVars, localVars
<1>13. ASSUME NEW b \in Backends,
             CompleteJob(b) \/ WatchEvent(b)
      PROVE  UNCHANGED seen
  BY <1>13 DEF CompleteJob, WatchEvent, registryVars, entryVars, localVars
<1>14. ASSUME NEW r \in Routes,
             FireTimer(r) \/ RetireDeclined(r) \/ RetireSuperseded(r) \/ RetireStop(r)
             \/ FlipDisk(r) \/ MarkShutting(r) \/ StopReady(r) \/ StopLater(r)
             \/ StopAfterTransition(r)
      PROVE  UNCHANGED seen
  BY <1>14 DEF FireTimer, RetireDeclined, RetireSuperseded, RetireStop, FlipDisk,
     MarkShutting, Round, StopReady, StopBackend, StopLater, StopAfterTransition,
     registryVars, entryVars, localVars
<1>15. ASSUME NEW o \in Openers,
             OpenResolve(o) \/ OpenLookup(o) \/ OpenRecord(o)
      PROVE  UNCHANGED seen
  BY <1>15 DEF OpenResolve, OpenLookup, OpenRecord, registryVars, entryVars, localVars
<1>16. ASSUME BeginShutdown \/ EndLoop PROVE UNCHANGED seen
  BY <1>16 DEF BeginShutdown, EndLoop, registryVars, entryVars, localVars
<1>17. CASE UNCHANGED vars
  BY <1>17, <1>11 DEF vars, registryVars, entryVars, localVars
<1>18. QED
  BY <1>2, <1>3, <1>4, <1>5, <1>6, <1>7, <1>8, <1>9, <1>10, <1>11, <1>12, <1>13, <1>14,
     <1>15, <1>16, <1>17
     DEF Next, RequestStep, EnsureStep, ContextEnds, RetireStep, ShutdownStep, OpenStep,
         Quiescent

-----------------------------------------------------------------------------
(* Backends: each that is not closed has one place.                       *)

\* A closed backend has no jobs.
LEMMA ClosedAreIdleStep == Inv /\ [Next]_vars => ClosedAreIdle'
<1> SUFFICES ASSUME Inv, [Next]_vars PROVE ClosedAreIdle'
  OBVIOUS
<1> DEFINE seen == <<stage, jobs>>
<1>0. TypeOK /\ ClosedAreIdle /\ Carriers
  BY DEF Inv, BackendsHaveHomes
<1>1. /\ stage \in [Backends -> {"closed", "open", "stopped"}]
      /\ jobs \in [Backends -> Seq(Job)] /\ pc \in [Requests -> PCs]
      /\ srv \in [Requests -> Backends \cup {None}]
      /\ retiring \in [Routes -> Backends \cup {None}]
      /\ captured \in [Routes -> Backends \cup {None}]
  BY <1>0 DEF TypeOK, EntryTypes, BackendTypes, RequestTypes, ShutdownTypes
<1> USE RegistryAssumption, <1>0, <1>1 DEF ClosedAreIdle, Carriers, Carrying
<1>2. ASSUME NEW q \in Requests, SwitchTo(q) PROVE ClosedAreIdle'
  BY <1>2 DEF SwitchTo, Enqueue
<1>3. ASSUME NEW q \in Requests, Activate(q) PROVE ClosedAreIdle'
  BY <1>3 DEF Activate
<1>4. ASSUME NEW q \in Requests, Discard(q) PROVE ClosedAreIdle'
  BY <1>4 DEF Discard
<1>5. ASSUME NEW q \in Requests, Mutate(q) PROVE ClosedAreIdle'
  BY <1>5 DEF Mutate, Enqueue
<1>6. ASSUME NEW q \in Requests, AbandonQueued(q) PROVE ClosedAreIdle'
  BY <1>6 DEF AbandonQueued, AfterAbandon
<1>7. ASSUME NEW q \in Requests, AbandonRunning(q) PROVE ClosedAreIdle'
  BY <1>7 DEF AbandonRunning, AfterAbandon
<1>8. ASSUME NEW b \in Backends, CompleteJob(b) PROVE ClosedAreIdle'
  BY <1>8 DEF CompleteJob
<1>9. ASSUME NEW r \in Routes, RetireStop(r) PROVE ClosedAreIdle'
  BY <1>9 DEF RetireStop
<1>10. ASSUME NEW r \in Routes, EndRetire(r) PROVE ClosedAreIdle'
  BY <1>10 DEF EndRetire, Woken
<1>11. ASSUME NEW r \in Routes, StopReady(r) PROVE ClosedAreIdle'
  BY <1>11 DEF StopReady, Round, StopBackend
<1>12. ASSUME NEW r \in Routes, StopAfterTransition(r) PROVE ClosedAreIdle'
  BY <1>12 DEF StopAfterTransition, Round, StopBackend
<1>13. ASSUME NEW r \in Routes, DrainBackend(r) PROVE ClosedAreIdle'
  BY <1>13 DEF DrainBackend, Round
<1>14. ASSUME UNCHANGED seen PROVE ClosedAreIdle'
  BY <1>14
<1>15. ASSUME NEW q \in Requests,
             Arrive(q) \/ EnsureRefused(q) \/ EnsureWaits(q) \/ EnsureReady(q)
             \/ BeginTransition(q) \/ GiveUp(q) \/ SameCapability(q)
             \/ SwitchNotAccepted(q) \/ StartWatcher(q) \/ EndRefresh(q)
             \/ ActivateFails(q) \/ Publish(q) \/ PublishRefused(q) \/ EndActivation(q)
             \/ Acquire(q) \/ AcquireAgain(q) \/ MutationAnswered(q) \/ Subscribe(q)
             \/ Unsubscribe(q) \/ Release(q) \/ AnswerLost(q)
      PROVE  UNCHANGED seen
  BY <1>15 DEF Arrive, EnsureRefused, EnsureWaits, EnsureReady, BeginTransition, GiveUp,
     SameCapability, SwitchNotAccepted, StartWatcher, EndRefresh, ActivateFails, Publish,
     PublishRefused, EndActivation, Acquire, AcquireAgain, MutationAnswered, Subscribe,
     Unsubscribe, ScheduleDormancy, Release, AnswerLost, backendVars
<1>16. ASSUME NEW b \in Backends,
             WatchEvent(b)
      PROVE  UNCHANGED seen
  BY <1>16 DEF WatchEvent
<1>17. ASSUME NEW r \in Routes,
             FireTimer(r) \/ Retire(r) \/ RetireDeclined(r) \/ RetireSuperseded(r)
             \/ FlipDisk(r) \/ MarkShutting(r) \/ StopLater(r)
      PROVE  UNCHANGED seen
  BY <1>17 DEF FireTimer, Retire, RetireDeclined, RetireSuperseded, FlipDisk, MarkShutting,
     Round, StopLater, backendVars
<1>18. ASSUME NEW o \in Openers,
             OpenResolve(o) \/ OpenLookup(o) \/ OpenRecord(o) \/ OpenReserve(o)
      PROVE  UNCHANGED seen
  BY <1>18 DEF OpenResolve, OpenLookup, OpenRecord, OpenReserve, backendVars
<1>19. ASSUME BeginShutdown \/ EndLoop PROVE UNCHANGED seen
  BY <1>19 DEF BeginShutdown, EndLoop, backendVars
<1>20. CASE UNCHANGED vars
  BY <1>20, <1>14 DEF vars, backendVars
<1>21. QED
  BY <1>2, <1>3, <1>4, <1>5, <1>6, <1>7, <1>8, <1>9, <1>10, <1>11, <1>12, <1>13, <1>14,
     <1>15, <1>16, <1>17, <1>18, <1>19, <1>20
     DEF Next, RequestStep, EnsureStep, ContextEnds, RetireStep, ShutdownStep, OpenStep,
         Quiescent

\* A route's backend is at home.
LEMMA SessionsAtHomeStep == Inv /\ [Next]_vars => SessionsAtHome'
<1> SUFFICES ASSUME Inv, [Next]_vars PROVE SessionsAtHome'
  OBVIOUS
<1> DEFINE seen == <<session, home, stage, retiring>>
<1>0. TypeOK /\ Ownership /\ SessionsAtHome /\ RetiringAtHome /\ Activators /\ Carriers
      /\ Captures /\ Loops
  BY DEF Inv, BackendsHaveHomes, Shutdown
<1>1. /\ session \in [Routes -> Backends \cup {None}] /\ home \in [Backends -> Routes]
      /\ stage \in [Backends -> {"closed", "open", "stopped"}]
      /\ retiring \in [Routes -> Backends \cup {None}] /\ pc \in [Requests -> PCs]
      /\ srv \in [Requests -> Backends \cup {None}] /\ route \in [Requests -> Routes]
      /\ transition \in [Routes -> Requests \cup {Retirer, None}]
  BY <1>0 DEF TypeOK, EntryTypes, LeaseTypes, BackendTypes, RequestTypes
<1> USE RegistryAssumption, <1>0, <1>1 DEF SessionsAtHome
<1>2. ASSUME NEW q \in Requests, Activate(q) PROVE SessionsAtHome'
  BY <1>2 DEF Activate, entryVars
<1>3. ASSUME NEW q \in Requests, Publish(q) PROVE SessionsAtHome'
  BY <1>3, Apart DEF Publish, Carriers, Carrying, Activators, Activating, Ownership, Owners,
     Retirers, Owning
<1>4. ASSUME NEW q \in Requests, Discard(q) PROVE SessionsAtHome'
  BY <1>4, Apart DEF Discard, entryVars, Carrying
<1>5. ASSUME NEW r \in Routes, Retire(r) PROVE SessionsAtHome'
  BY <1>5, Apart DEF Retire, Retirable, backendVars
<1>6. ASSUME NEW r \in Routes, RetireStop(r) PROVE SessionsAtHome'
  BY <1>6, Apart DEF RetireStop, entryVars
<1>7. ASSUME NEW r \in Routes, EndRetire(r) PROVE SessionsAtHome'
  BY <1>7, Apart DEF EndRetire, Ownership, Retirers
<1>8. ASSUME NEW r \in Routes, StopReady(r) PROVE SessionsAtHome'
  BY <1>8, Apart DEF StopReady, Round, StopBackend, entryVars
<1>9. ASSUME NEW r \in Routes, StopAfterTransition(r) PROVE SessionsAtHome'
  BY <1>9, Apart DEF StopAfterTransition, Round, StopBackend, entryVars
<1>10. ASSUME NEW r \in Routes, DrainBackend(r) PROVE SessionsAtHome'
  BY <1>10, Drained
<1>11. ASSUME UNCHANGED seen PROVE SessionsAtHome'
  BY <1>11
<1>12. ASSUME NEW q \in Requests,
             Arrive(q) \/ EnsureRefused(q) \/ EnsureWaits(q) \/ EnsureReady(q)
             \/ BeginTransition(q) \/ GiveUp(q) \/ SameCapability(q) \/ SwitchTo(q)
             \/ SwitchNotAccepted(q) \/ StartWatcher(q) \/ EndRefresh(q)
             \/ ActivateFails(q) \/ PublishRefused(q) \/ EndActivation(q) \/ Acquire(q)
             \/ AcquireAgain(q) \/ Mutate(q) \/ MutationAnswered(q) \/ Subscribe(q)
             \/ Unsubscribe(q) \/ Release(q) \/ AbandonQueued(q) \/ AbandonRunning(q)
             \/ AnswerLost(q)
      PROVE  UNCHANGED seen
  BY <1>12 DEF Arrive, EnsureRefused, EnsureWaits, EnsureReady, BeginTransition, GiveUp,
     SameCapability, SwitchTo, Enqueue, SwitchNotAccepted, StartWatcher, EndRefresh,
     ActivateFails, PublishRefused, EndActivation, Acquire, AcquireAgain, Mutate,
     MutationAnswered, Subscribe, Unsubscribe, ScheduleDormancy, Release, AbandonQueued,
     AbandonRunning, AnswerLost, entryVars, backendVars
<1>13. ASSUME NEW b \in Backends,
             CompleteJob(b) \/ WatchEvent(b)
      PROVE  UNCHANGED seen
  BY <1>13 DEF CompleteJob, WatchEvent, entryVars
<1>14. ASSUME NEW r \in Routes,
             FireTimer(r) \/ RetireDeclined(r) \/ RetireSuperseded(r) \/ FlipDisk(r)
             \/ MarkShutting(r) \/ StopLater(r)
      PROVE  UNCHANGED seen
  BY <1>14 DEF FireTimer, RetireDeclined, RetireSuperseded, FlipDisk, MarkShutting, Round,
     StopLater, entryVars, backendVars
<1>15. ASSUME NEW o \in Openers,
             OpenResolve(o) \/ OpenLookup(o) \/ OpenRecord(o) \/ OpenReserve(o)
      PROVE  UNCHANGED seen
  BY <1>15 DEF OpenResolve, OpenLookup, OpenRecord, OpenReserve, entryVars, backendVars
<1>16. ASSUME BeginShutdown \/ EndLoop PROVE UNCHANGED seen
  BY <1>16 DEF BeginShutdown, EndLoop, entryVars, backendVars
<1>17. CASE UNCHANGED vars
  BY <1>17, <1>11 DEF vars, entryVars, backendVars
<1>18. QED
  BY <1>2, <1>3, <1>4, <1>5, <1>6, <1>7, <1>8, <1>9, <1>10, <1>11, <1>12, <1>13, <1>14,
     <1>15, <1>16, <1>17
     DEF Next, RequestStep, EnsureStep, ContextEnds, RetireStep, ShutdownStep, OpenStep,
         Quiescent

\* So is the one its timer retires.
LEMMA RetiringAtHomeStep == Inv /\ [Next]_vars => RetiringAtHome'
<1> SUFFICES ASSUME Inv, [Next]_vars PROVE RetiringAtHome'
  OBVIOUS
<1> DEFINE seen == <<home, stage, retiring>>
<1>0. TypeOK /\ Ownership /\ SessionsAtHome /\ RetiringAtHome /\ Activators /\ Carriers
      /\ Captures /\ Loops
  BY DEF Inv, BackendsHaveHomes, Shutdown
<1>1. /\ home \in [Backends -> Routes]
      /\ stage \in [Backends -> {"closed", "open", "stopped"}]
      /\ retiring \in [Routes -> Backends \cup {None}] /\ pc \in [Requests -> PCs]
      /\ srv \in [Requests -> Backends \cup {None}] /\ route \in [Requests -> Routes]
      /\ transition \in [Routes -> Requests \cup {Retirer, None}]
      /\ session \in [Routes -> Backends \cup {None}]
  BY <1>0 DEF TypeOK, EntryTypes, LeaseTypes, BackendTypes, RequestTypes
<1> USE RegistryAssumption, <1>0, <1>1 DEF RetiringAtHome
<1>2. ASSUME NEW q \in Requests, Activate(q) PROVE RetiringAtHome'
  BY <1>2 DEF Activate, entryVars
<1>3. ASSUME NEW q \in Requests, Discard(q) PROVE RetiringAtHome'
  BY <1>3, Apart DEF Discard, entryVars, Carrying
<1>4. ASSUME NEW r \in Routes, Retire(r) PROVE RetiringAtHome'
  BY <1>4, Apart DEF Retire, Retirable, backendVars, SessionsAtHome
<1>5. ASSUME NEW r \in Routes, RetireStop(r) PROVE RetiringAtHome'
  BY <1>5, Apart DEF RetireStop, entryVars
<1>6. ASSUME NEW r \in Routes, EndRetire(r) PROVE RetiringAtHome'
  BY <1>6, Apart DEF EndRetire
<1>7. ASSUME NEW r \in Routes, StopReady(r) PROVE RetiringAtHome'
  BY <1>7, Apart DEF StopReady, Round, StopBackend, entryVars
<1>8. ASSUME NEW r \in Routes, StopAfterTransition(r) PROVE RetiringAtHome'
  BY <1>8, Apart DEF StopAfterTransition, Round, StopBackend, entryVars
<1>9. ASSUME NEW r \in Routes, DrainBackend(r) PROVE RetiringAtHome'
  BY <1>9, Drained DEF Ownership, Retirers
<1>10. ASSUME UNCHANGED seen PROVE RetiringAtHome'
  BY <1>10
<1>11. ASSUME NEW q \in Requests,
             Arrive(q) \/ EnsureRefused(q) \/ EnsureWaits(q) \/ EnsureReady(q)
             \/ BeginTransition(q) \/ GiveUp(q) \/ SameCapability(q) \/ SwitchTo(q)
             \/ SwitchNotAccepted(q) \/ StartWatcher(q) \/ EndRefresh(q)
             \/ ActivateFails(q) \/ Publish(q) \/ PublishRefused(q) \/ EndActivation(q)
             \/ Acquire(q) \/ AcquireAgain(q) \/ Mutate(q) \/ MutationAnswered(q)
             \/ Subscribe(q) \/ Unsubscribe(q) \/ Release(q) \/ AbandonQueued(q)
             \/ AbandonRunning(q) \/ AnswerLost(q)
      PROVE  UNCHANGED seen
  BY <1>11 DEF Arrive, EnsureRefused, EnsureWaits, EnsureReady, BeginTransition, GiveUp,
     SameCapability, SwitchTo, Enqueue, SwitchNotAccepted, StartWatcher, EndRefresh,
     ActivateFails, Publish, PublishRefused, EndActivation, Acquire, AcquireAgain, Mutate,
     MutationAnswered, Subscribe, Unsubscribe, ScheduleDormancy, Release, AbandonQueued,
     AbandonRunning, AnswerLost, entryVars, backendVars
<1>12. ASSUME NEW b \in Backends,
             CompleteJob(b) \/ WatchEvent(b)
      PROVE  UNCHANGED seen
  BY <1>12 DEF CompleteJob, WatchEvent, entryVars
<1>13. ASSUME NEW r \in Routes,
             FireTimer(r) \/ RetireDeclined(r) \/ RetireSuperseded(r) \/ FlipDisk(r)
             \/ MarkShutting(r) \/ StopLater(r)
      PROVE  UNCHANGED seen
  BY <1>13 DEF FireTimer, RetireDeclined, RetireSuperseded, FlipDisk, MarkShutting, Round,
     StopLater, entryVars, backendVars
<1>14. ASSUME NEW o \in Openers,
             OpenResolve(o) \/ OpenLookup(o) \/ OpenRecord(o) \/ OpenReserve(o)
      PROVE  UNCHANGED seen
  BY <1>14 DEF OpenResolve, OpenLookup, OpenRecord, OpenReserve, entryVars, backendVars
<1>15. ASSUME BeginShutdown \/ EndLoop PROVE UNCHANGED seen
  BY <1>15 DEF BeginShutdown, EndLoop, entryVars, backendVars
<1>16. CASE UNCHANGED vars
  BY <1>16, <1>10 DEF vars, entryVars, backendVars
<1>17. QED
  BY <1>2, <1>3, <1>4, <1>5, <1>6, <1>7, <1>8, <1>9, <1>10, <1>11, <1>12, <1>13, <1>14,
     <1>15, <1>16
     DEF Next, RequestStep, EnsureStep, ContextEnds, RetireStep, ShutdownStep, OpenStep,
         Quiescent

\* While one is made there is no other.
LEMMA ActivatorsStep == Inv /\ [Next]_vars => Activators'
<1> SUFFICES ASSUME Inv, [Next]_vars PROVE Activators'
  OBVIOUS
<1> DEFINE seen == <<session, pc, route>>
<1>0. TypeOK /\ Owners /\ Activators /\ Callers
  BY DEF Inv, Ownership, BackendsHaveHomes
<1>1. /\ session \in [Routes -> Backends \cup {None}] /\ pc \in [Requests -> PCs]
      /\ route \in [Requests -> Routes]
      /\ transition \in [Routes -> Requests \cup {Retirer, None}]
  BY <1>0 DEF TypeOK, EntryTypes, LeaseTypes, RequestTypes
<1> USE RegistryAssumption, <1>0, <1>1 DEF Activators, Activating
<1>2. ASSUME NEW q \in Requests, Arrive(q) PROVE Activators'
  BY <1>2 DEF Arrive, Goto, entryVars
<1>3. ASSUME NEW q \in Requests, EnsureRefused(q) PROVE Activators'
  BY <1>3 DEF EnsureRefused, Goto, entryVars, localVars
<1>4. ASSUME NEW q \in Requests, EnsureWaits(q) PROVE Activators'
  BY <1>4 DEF EnsureWaits, Goto, entryVars, localVars
<1>5. ASSUME NEW q \in Requests, EnsureReady(q) PROVE Activators'
  BY <1>5 DEF EnsureReady, Goto, entryVars, localVars
<1>6. ASSUME NEW q \in Requests, BeginTransition(q) PROVE Activators'
  BY <1>6 DEF BeginTransition, Goto
<1>7. ASSUME NEW q \in Requests, GiveUp(q) PROVE Activators'
  BY <1>7 DEF GiveUp, Goto, entryVars, localVars
<1>8. ASSUME NEW q \in Requests, SameCapability(q) PROVE Activators'
  BY <1>8 DEF SameCapability, Goto, entryVars, localVars
<1>9. ASSUME NEW q \in Requests, SwitchTo(q) PROVE Activators'
  BY <1>9 DEF SwitchTo, Enqueue, Goto, entryVars, localVars
<1>10. ASSUME NEW q \in Requests, SwitchNotAccepted(q) PROVE Activators'
  BY <1>10 DEF SwitchNotAccepted, Goto, entryVars, localVars
<1>11. ASSUME NEW q \in Requests, StartWatcher(q) PROVE Activators'
  BY <1>11 DEF StartWatcher, Goto, entryVars, localVars
<1>12. ASSUME NEW q \in Requests, EndRefresh(q) PROVE Activators'
  BY <1>12, Waked DEF EndRefresh
<1>13. ASSUME NEW q \in Requests, Activate(q) PROVE Activators'
  BY <1>13 DEF Activate, Goto, entryVars
<1>14. ASSUME NEW q \in Requests, ActivateFails(q) PROVE Activators'
  BY <1>14 DEF ActivateFails, Goto, entryVars, localVars
<1>15. ASSUME NEW q \in Requests, Publish(q) PROVE Activators'
  BY <1>15 DEF Publish, Goto, Owners, Owning
<1>16. ASSUME NEW q \in Requests, PublishRefused(q) PROVE Activators'
  BY <1>16 DEF PublishRefused, Goto, entryVars, localVars
<1>17. ASSUME NEW q \in Requests, Discard(q) PROVE Activators'
  BY <1>17 DEF Discard, Goto, entryVars
<1>18. ASSUME NEW q \in Requests, EndActivation(q) PROVE Activators'
  BY <1>18, Waked DEF EndActivation, entryVars
<1>19. ASSUME NEW q \in Requests, Acquire(q) PROVE Activators'
  BY <1>19 DEF Acquire, Goto, entryVars
<1>20. ASSUME NEW q \in Requests, AcquireAgain(q) PROVE Activators'
  BY <1>20 DEF AcquireAgain, Goto, entryVars, localVars
<1>21. ASSUME NEW q \in Requests, Mutate(q) PROVE Activators'
  BY <1>21 DEF Mutate, Enqueue, Goto, entryVars, localVars
<1>22. ASSUME NEW q \in Requests, MutationAnswered(q) PROVE Activators'
  BY <1>22 DEF MutationAnswered, Bumped, Goto, entryVars, localVars
<1>23. ASSUME NEW q \in Requests, Subscribe(q) PROVE Activators'
  BY <1>23 DEF Subscribe, Goto, entryVars, localVars
<1>24. ASSUME NEW q \in Requests, Unsubscribe(q) PROVE Activators'
  BY <1>24 DEF Unsubscribe, Goto, entryVars, localVars
<1>25. ASSUME NEW q \in Requests, Release(q) PROVE Activators'
  BY <1>25 DEF Release, Goto, entryVars
<1>26. ASSUME NEW q \in Requests, AbandonQueued(q) PROVE Activators'
  BY <1>26 DEF AbandonQueued, AfterAbandon, Goto, entryVars, localVars
<1>27. ASSUME NEW q \in Requests, AbandonRunning(q) PROVE Activators'
  BY <1>27 DEF AbandonRunning, AfterAbandon, Goto, entryVars, localVars
<1>28. ASSUME NEW q \in Requests, AnswerLost(q) PROVE Activators'
  BY <1>28 DEF AnswerLost, AfterAbandon, Goto, entryVars, localVars
<1>29. ASSUME NEW b \in Backends, CompleteJob(b) PROVE Activators'
  <2>1. UNCHANGED <<session, route>>
    BY <1>29 DEF CompleteJob, entryVars, localVars
  <2>2. \A q \in Requests : \/ pc'[q] = pc[q]
                            \/ pc[q] = "switching" /\ pc'[q] = "switched"
                            \/ pc[q] = "mutating" /\ pc'[q] = "answered"
    BY <1>29, Completed
  <2>3. QED
    BY <2>1, <2>2
<1>30. ASSUME NEW r \in Routes, Retire(r) PROVE Activators'
  BY <1>30 DEF Retire, Retirable, localVars
<1>31. ASSUME NEW r \in Routes, EndRetire(r) PROVE Activators'
  BY <1>31, Waked DEF EndRetire, localVars
<1>32. ASSUME NEW r \in Routes, DrainBackend(r) PROVE Activators'
  BY <1>32 DEF DrainBackend, Round, localVars
<1>33. ASSUME UNCHANGED seen PROVE Activators'
  BY <1>33
<1>34. ASSUME NEW b \in Backends,
             WatchEvent(b)
      PROVE  UNCHANGED seen
  BY <1>34 DEF WatchEvent, entryVars, localVars
<1>35. ASSUME NEW r \in Routes,
             FireTimer(r) \/ RetireDeclined(r) \/ RetireSuperseded(r) \/ RetireStop(r)
             \/ FlipDisk(r) \/ MarkShutting(r) \/ StopReady(r) \/ StopLater(r)
             \/ StopAfterTransition(r)
      PROVE  UNCHANGED seen
  BY <1>35 DEF FireTimer, RetireDeclined, RetireSuperseded, RetireStop, FlipDisk,
     MarkShutting, Round, StopReady, StopBackend, StopLater, StopAfterTransition, entryVars,
     localVars
<1>36. ASSUME NEW o \in Openers,
             OpenResolve(o) \/ OpenLookup(o) \/ OpenRecord(o) \/ OpenReserve(o)
      PROVE  UNCHANGED seen
  BY <1>36 DEF OpenResolve, OpenLookup, OpenRecord, OpenReserve, entryVars, localVars
<1>37. ASSUME BeginShutdown \/ EndLoop PROVE UNCHANGED seen
  BY <1>37 DEF BeginShutdown, EndLoop, entryVars, localVars
<1>38. CASE UNCHANGED vars
  BY <1>38, <1>33 DEF vars, entryVars, localVars
<1>39. QED
  BY <1>2, <1>3, <1>4, <1>5, <1>6, <1>7, <1>8, <1>9, <1>10, <1>11, <1>12, <1>13, <1>14,
     <1>15, <1>16, <1>17, <1>18, <1>19, <1>20, <1>21, <1>22, <1>23, <1>24, <1>25, <1>26,
     <1>27, <1>28, <1>29, <1>30, <1>31, <1>32, <1>33, <1>34, <1>35, <1>36, <1>37, <1>38
     DEF Next, RequestStep, EnsureStep, ContextEnds, RetireStep, ShutdownStep, OpenStep,
         Quiescent

\* A backend that is not published is as it was made.
LEMMA CarriersStep == Inv /\ [Next]_vars => Carriers'
<1> SUFFICES ASSUME Inv, [Next]_vars PROVE Carriers'
  OBVIOUS
<1> DEFINE seen == <<pc, srv, home, stage, jobs, route>>
<1>0. TypeOK /\ Ownership /\ SessionsAtHome /\ RetiringAtHome /\ Activators /\ Carriers
      /\ ClosedAreIdle /\ Callers /\ Refreshers /\ LeasesHold /\ Captures /\ Loops
  BY DEF Inv, BackendsHaveHomes, Leases, Shutdown
<1>1. /\ pc \in [Requests -> PCs] /\ srv \in [Requests -> Backends \cup {None}]
      /\ home \in [Backends -> Routes]
      /\ stage \in [Backends -> {"closed", "open", "stopped"}]
      /\ jobs \in [Backends -> Seq(Job)] /\ route \in [Requests -> Routes]
      /\ transition \in [Routes -> Requests \cup {Retirer, None}]
      /\ session \in [Routes -> Backends \cup {None}]
  BY <1>0 DEF TypeOK, EntryTypes, LeaseTypes, BackendTypes, RequestTypes
<1> USE RegistryAssumption, <1>0, <1>1 DEF Carriers, Carrying
<1>2. ASSUME NEW q \in Requests, Arrive(q) PROVE Carriers'
  BY <1>2 DEF Arrive, Goto, backendVars
<1>3. ASSUME NEW q \in Requests, EnsureRefused(q) PROVE Carriers'
  BY <1>3 DEF EnsureRefused, Goto, backendVars, localVars
<1>4. ASSUME NEW q \in Requests, EnsureWaits(q) PROVE Carriers'
  BY <1>4 DEF EnsureWaits, Goto, backendVars, localVars
<1>5. ASSUME NEW q \in Requests, EnsureReady(q) PROVE Carriers'
  BY <1>5 DEF EnsureReady, Goto, backendVars, localVars
<1>6. ASSUME NEW q \in Requests, BeginTransition(q) PROVE Carriers'
  BY <1>6 DEF BeginTransition, Goto, backendVars
<1>7. ASSUME NEW q \in Requests, GiveUp(q) PROVE Carriers'
  BY <1>7 DEF GiveUp, Goto, backendVars, localVars
<1>8. ASSUME NEW q \in Requests, SameCapability(q) PROVE Carriers'
  BY <1>8 DEF SameCapability, Goto, backendVars, localVars
<1>9. ASSUME NEW q \in Requests, SwitchTo(q) PROVE Carriers'
  BY <1>9, Apart DEF SwitchTo, Enqueue, Goto, localVars, Refreshers, Refreshing
<1>10. ASSUME NEW q \in Requests, SwitchNotAccepted(q) PROVE Carriers'
  BY <1>10 DEF SwitchNotAccepted, Goto, backendVars, localVars
<1>11. ASSUME NEW q \in Requests, StartWatcher(q) PROVE Carriers'
  BY <1>11 DEF StartWatcher, Goto, localVars
<1>12. ASSUME NEW q \in Requests, EndRefresh(q) PROVE Carriers'
  BY <1>12, Waked DEF EndRefresh, backendVars
<1>13. ASSUME NEW q \in Requests, Activate(q) PROVE Carriers'
  BY <1>13 DEF Activate, Goto, ClosedAreIdle
<1>14. ASSUME NEW q \in Requests, ActivateFails(q) PROVE Carriers'
  BY <1>14 DEF ActivateFails, Goto, backendVars, localVars
<1>15. ASSUME NEW q \in Requests, Publish(q) PROVE Carriers'
  BY <1>15 DEF Publish, Goto
<1>16. ASSUME NEW q \in Requests, PublishRefused(q) PROVE Carriers'
  BY <1>16 DEF PublishRefused, Goto, backendVars, localVars
<1>17. ASSUME NEW q \in Requests, Discard(q) PROVE Carriers'
  BY <1>17, Apart DEF Discard, Goto
<1>18. ASSUME NEW q \in Requests, EndActivation(q) PROVE Carriers'
  BY <1>18, Waked DEF EndActivation, backendVars
<1>19. ASSUME NEW q \in Requests, Acquire(q) PROVE Carriers'
  BY <1>19 DEF Acquire, Goto, backendVars
<1>20. ASSUME NEW q \in Requests, AcquireAgain(q) PROVE Carriers'
  BY <1>20 DEF AcquireAgain, Goto, backendVars, localVars
<1>21. ASSUME NEW q \in Requests, Mutate(q) PROVE Carriers'
  BY <1>21, Apart DEF Mutate, Enqueue, Goto, localVars, LeasesHold, Leased
<1>22. ASSUME NEW q \in Requests, MutationAnswered(q) PROVE Carriers'
  BY <1>22 DEF MutationAnswered, Bumped, Goto, localVars
<1>23. ASSUME NEW q \in Requests, Subscribe(q) PROVE Carriers'
  BY <1>23 DEF Subscribe, Goto, backendVars, localVars
<1>24. ASSUME NEW q \in Requests, Unsubscribe(q) PROVE Carriers'
  BY <1>24 DEF Unsubscribe, Goto, backendVars, localVars
<1>25. ASSUME NEW q \in Requests, Release(q) PROVE Carriers'
  BY <1>25 DEF Release, Goto, backendVars
<1>26. ASSUME NEW q \in Requests, AbandonQueued(q) PROVE Carriers'
  BY <1>26 DEF AbandonQueued, AfterAbandon, Goto, localVars
<1>27. ASSUME NEW q \in Requests, AbandonRunning(q) PROVE Carriers'
  BY <1>27 DEF AbandonRunning, AfterAbandon, Goto, localVars
<1>28. ASSUME NEW q \in Requests, AnswerLost(q) PROVE Carriers'
  BY <1>28 DEF AnswerLost, AfterAbandon, Goto, backendVars, localVars
<1>29. ASSUME NEW b \in Backends, CompleteJob(b) PROVE Carriers'
  BY <1>29 DEF CompleteJob, localVars
<1>30. ASSUME NEW r \in Routes, RetireStop(r) PROVE Carriers'
  BY <1>30, Apart DEF RetireStop, localVars
<1>31. ASSUME NEW r \in Routes, EndRetire(r) PROVE Carriers'
  BY <1>31, Waked DEF EndRetire, localVars
<1>32. ASSUME NEW r \in Routes, StopReady(r) PROVE Carriers'
  BY <1>32, Apart DEF StopReady, Round, StopBackend, localVars
<1>33. ASSUME NEW r \in Routes, StopAfterTransition(r) PROVE Carriers'
  BY <1>33, Apart DEF StopAfterTransition, Round, StopBackend, localVars
<1>34. ASSUME NEW r \in Routes, DrainBackend(r) PROVE Carriers'
  BY <1>34, Drained DEF localVars, Ownership, Owners, Owning
<1>35. ASSUME UNCHANGED seen PROVE Carriers'
  BY <1>35
<1>36. ASSUME NEW b \in Backends,
             WatchEvent(b)
      PROVE  UNCHANGED seen
  BY <1>36 DEF WatchEvent, localVars
<1>37. ASSUME NEW r \in Routes,
             FireTimer(r) \/ Retire(r) \/ RetireDeclined(r) \/ RetireSuperseded(r)
             \/ FlipDisk(r) \/ MarkShutting(r) \/ StopLater(r)
      PROVE  UNCHANGED seen
  BY <1>37 DEF FireTimer, Retire, RetireDeclined, RetireSuperseded, FlipDisk, MarkShutting,
     Round, StopLater, backendVars, localVars
<1>38. ASSUME NEW o \in Openers,
             OpenResolve(o) \/ OpenLookup(o) \/ OpenRecord(o) \/ OpenReserve(o)
      PROVE  UNCHANGED seen
  BY <1>38 DEF OpenResolve, OpenLookup, OpenRecord, OpenReserve, backendVars, localVars
<1>39. ASSUME BeginShutdown \/ EndLoop PROVE UNCHANGED seen
  BY <1>39 DEF BeginShutdown, EndLoop, backendVars, localVars
<1>40. CASE UNCHANGED vars
  BY <1>40, <1>35 DEF vars, backendVars, localVars
<1>41. QED
  BY <1>2, <1>3, <1>4, <1>5, <1>6, <1>7, <1>8, <1>9, <1>10, <1>11, <1>12, <1>13, <1>14,
     <1>15, <1>16, <1>17, <1>18, <1>19, <1>20, <1>21, <1>22, <1>23, <1>24, <1>25, <1>26,
     <1>27, <1>28, <1>29, <1>30, <1>31, <1>32, <1>33, <1>34, <1>35, <1>36, <1>37, <1>38,
     <1>39, <1>40
     DEF Next, RequestStep, EnsureStep, ContextEnds, RetireStep, ShutdownStep, OpenStep,
         Quiescent

\* A refresh is of the route's backend.
LEMMA RefreshersStep == Inv /\ [Next]_vars => Refreshers'
<1> SUFFICES ASSUME Inv, [Next]_vars PROVE Refreshers'
  OBVIOUS
<1> DEFINE seen == <<pc, srv, session, route>>
<1>0. TypeOK /\ Owners /\ Refreshers /\ Callers /\ Captures /\ Loops
  BY DEF Inv, Ownership, BackendsHaveHomes, Shutdown
<1>1. /\ pc \in [Requests -> PCs] /\ srv \in [Requests -> Backends \cup {None}]
      /\ session \in [Routes -> Backends \cup {None}] /\ route \in [Requests -> Routes]
      /\ transition \in [Routes -> Requests \cup {Retirer, None}]
  BY <1>0 DEF TypeOK, EntryTypes, LeaseTypes, RequestTypes
<1> USE RegistryAssumption, <1>0, <1>1 DEF Refreshers, Refreshing
<1>2. ASSUME NEW q \in Requests, Arrive(q) PROVE Refreshers'
  BY <1>2 DEF Arrive, Goto, entryVars
<1>3. ASSUME NEW q \in Requests, EnsureRefused(q) PROVE Refreshers'
  BY <1>3 DEF EnsureRefused, Goto, entryVars, localVars
<1>4. ASSUME NEW q \in Requests, EnsureWaits(q) PROVE Refreshers'
  BY <1>4 DEF EnsureWaits, Goto, entryVars, localVars
<1>5. ASSUME NEW q \in Requests, EnsureReady(q) PROVE Refreshers'
  BY <1>5 DEF EnsureReady, Goto, entryVars, localVars
<1>6. ASSUME NEW q \in Requests, BeginTransition(q) PROVE Refreshers'
  BY <1>6 DEF BeginTransition, Goto
<1>7. ASSUME NEW q \in Requests, GiveUp(q) PROVE Refreshers'
  BY <1>7 DEF GiveUp, Goto, entryVars, localVars
<1>8. ASSUME NEW q \in Requests, SameCapability(q) PROVE Refreshers'
  BY <1>8 DEF SameCapability, Goto, entryVars, localVars
<1>9. ASSUME NEW q \in Requests, SwitchTo(q) PROVE Refreshers'
  BY <1>9 DEF SwitchTo, Enqueue, Goto, entryVars, localVars
<1>10. ASSUME NEW q \in Requests, SwitchNotAccepted(q) PROVE Refreshers'
  BY <1>10 DEF SwitchNotAccepted, Goto, entryVars, localVars
<1>11. ASSUME NEW q \in Requests, StartWatcher(q) PROVE Refreshers'
  BY <1>11 DEF StartWatcher, Goto, entryVars, localVars
<1>12. ASSUME NEW q \in Requests, EndRefresh(q) PROVE Refreshers'
  BY <1>12, Waked DEF EndRefresh
<1>13. ASSUME NEW q \in Requests, Activate(q) PROVE Refreshers'
  BY <1>13 DEF Activate, Goto, entryVars
<1>14. ASSUME NEW q \in Requests, ActivateFails(q) PROVE Refreshers'
  BY <1>14 DEF ActivateFails, Goto, entryVars, localVars
<1>15. ASSUME NEW q \in Requests, Publish(q) PROVE Refreshers'
  BY <1>15 DEF Publish, Goto, Owners, Owning
<1>16. ASSUME NEW q \in Requests, PublishRefused(q) PROVE Refreshers'
  BY <1>16 DEF PublishRefused, Goto, entryVars, localVars
<1>17. ASSUME NEW q \in Requests, Discard(q) PROVE Refreshers'
  BY <1>17 DEF Discard, Goto, entryVars
<1>18. ASSUME NEW q \in Requests, EndActivation(q) PROVE Refreshers'
  BY <1>18, Waked DEF EndActivation, entryVars
<1>19. ASSUME NEW q \in Requests, Acquire(q) PROVE Refreshers'
  BY <1>19 DEF Acquire, Goto, entryVars
<1>20. ASSUME NEW q \in Requests, AcquireAgain(q) PROVE Refreshers'
  BY <1>20 DEF AcquireAgain, Goto, entryVars, localVars
<1>21. ASSUME NEW q \in Requests, Mutate(q) PROVE Refreshers'
  BY <1>21 DEF Mutate, Enqueue, Goto, entryVars, localVars
<1>22. ASSUME NEW q \in Requests, MutationAnswered(q) PROVE Refreshers'
  BY <1>22 DEF MutationAnswered, Bumped, Goto, entryVars, localVars
<1>23. ASSUME NEW q \in Requests, Subscribe(q) PROVE Refreshers'
  BY <1>23 DEF Subscribe, Goto, entryVars, localVars
<1>24. ASSUME NEW q \in Requests, Unsubscribe(q) PROVE Refreshers'
  BY <1>24 DEF Unsubscribe, Goto, entryVars, localVars
<1>25. ASSUME NEW q \in Requests, Release(q) PROVE Refreshers'
  BY <1>25 DEF Release, Goto, entryVars
<1>26. ASSUME NEW q \in Requests, AbandonQueued(q) PROVE Refreshers'
  BY <1>26 DEF AbandonQueued, AfterAbandon, Goto, entryVars, localVars
<1>27. ASSUME NEW q \in Requests, AbandonRunning(q) PROVE Refreshers'
  BY <1>27 DEF AbandonRunning, AfterAbandon, Goto, entryVars, localVars
<1>28. ASSUME NEW q \in Requests, AnswerLost(q) PROVE Refreshers'
  BY <1>28 DEF AnswerLost, AfterAbandon, Goto, entryVars, localVars
<1>29. ASSUME NEW b \in Backends, CompleteJob(b) PROVE Refreshers'
  <2>1. UNCHANGED <<srv, session, route>>
    BY <1>29 DEF CompleteJob, entryVars, localVars
  <2>2. \A q \in Requests : \/ pc'[q] = pc[q]
                            \/ pc[q] = "switching" /\ pc'[q] = "switched"
                            \/ pc[q] = "mutating" /\ pc'[q] = "answered"
    BY <1>29, Completed
  <2>3. QED
    BY <2>1, <2>2
<1>30. ASSUME NEW r \in Routes, Retire(r) PROVE Refreshers'
  BY <1>30 DEF Retire, Retirable, localVars, Owners, Owning
<1>31. ASSUME NEW r \in Routes, EndRetire(r) PROVE Refreshers'
  BY <1>31, Waked DEF EndRetire, localVars
<1>32. ASSUME NEW r \in Routes, DrainBackend(r) PROVE Refreshers'
  BY <1>32, Drained DEF localVars, Owners, Owning
<1>33. ASSUME UNCHANGED seen PROVE Refreshers'
  BY <1>33
<1>34. ASSUME NEW b \in Backends,
             WatchEvent(b)
      PROVE  UNCHANGED seen
  BY <1>34 DEF WatchEvent, entryVars, localVars
<1>35. ASSUME NEW r \in Routes,
             FireTimer(r) \/ RetireDeclined(r) \/ RetireSuperseded(r) \/ RetireStop(r)
             \/ FlipDisk(r) \/ MarkShutting(r) \/ StopReady(r) \/ StopLater(r)
             \/ StopAfterTransition(r)
      PROVE  UNCHANGED seen
  BY <1>35 DEF FireTimer, RetireDeclined, RetireSuperseded, RetireStop, FlipDisk,
     MarkShutting, Round, StopReady, StopBackend, StopLater, StopAfterTransition, entryVars,
     localVars
<1>36. ASSUME NEW o \in Openers,
             OpenResolve(o) \/ OpenLookup(o) \/ OpenRecord(o) \/ OpenReserve(o)
      PROVE  UNCHANGED seen
  BY <1>36 DEF OpenResolve, OpenLookup, OpenRecord, OpenReserve, entryVars, localVars
<1>37. ASSUME BeginShutdown \/ EndLoop PROVE UNCHANGED seen
  BY <1>37 DEF BeginShutdown, EndLoop, entryVars, localVars
<1>38. CASE UNCHANGED vars
  BY <1>38, <1>33 DEF vars, entryVars, localVars
<1>39. QED
  BY <1>2, <1>3, <1>4, <1>5, <1>6, <1>7, <1>8, <1>9, <1>10, <1>11, <1>12, <1>13, <1>14,
     <1>15, <1>16, <1>17, <1>18, <1>19, <1>20, <1>21, <1>22, <1>23, <1>24, <1>25, <1>26,
     <1>27, <1>28, <1>29, <1>30, <1>31, <1>32, <1>33, <1>34, <1>35, <1>36, <1>37, <1>38
     DEF Next, RequestStep, EnsureStep, ContextEnds, RetireStep, ShutdownStep, OpenStep,
         Quiescent

\* Every backend that is not closed has a place.
LEMMA HomesStep == Inv /\ [Next]_vars => Homes'
<1> SUFFICES ASSUME Inv, [Next]_vars PROVE Homes'
  OBVIOUS
<1> DEFINE seen == <<session, retiring, stage, home, pc, srv>>
<1>0. TypeOK /\ Ownership /\ SessionsAtHome /\ RetiringAtHome /\ Activators /\ Carriers
      /\ Homes /\ Callers /\ Captures /\ Loops
  BY DEF Inv, BackendsHaveHomes, Shutdown
<1>1. /\ session \in [Routes -> Backends \cup {None}]
      /\ retiring \in [Routes -> Backends \cup {None}]
      /\ stage \in [Backends -> {"closed", "open", "stopped"}]
      /\ home \in [Backends -> Routes] /\ pc \in [Requests -> PCs]
      /\ srv \in [Requests -> Backends \cup {None}]
      /\ transition \in [Routes -> Requests \cup {Retirer, None}]
      /\ route \in [Requests -> Routes]
  BY <1>0 DEF TypeOK, EntryTypes, LeaseTypes, BackendTypes, RequestTypes
<1> USE RegistryAssumption, <1>0, <1>1 DEF Homes, Carrying
<1>2. ASSUME NEW q \in Requests, Arrive(q) PROVE Homes'
  BY <1>2 DEF Arrive, Goto, entryVars, backendVars
<1>3. ASSUME NEW q \in Requests, EnsureRefused(q) PROVE Homes'
  BY <1>3 DEF EnsureRefused, Goto, entryVars, backendVars, localVars
<1>4. ASSUME NEW q \in Requests, EnsureWaits(q) PROVE Homes'
  BY <1>4 DEF EnsureWaits, Goto, entryVars, backendVars, localVars
<1>5. ASSUME NEW q \in Requests, EnsureReady(q) PROVE Homes'
  BY <1>5 DEF EnsureReady, Goto, entryVars, backendVars, localVars
<1>6. ASSUME NEW q \in Requests, BeginTransition(q) PROVE Homes'
  BY <1>6 DEF BeginTransition, Goto, backendVars
<1>7. ASSUME NEW q \in Requests, GiveUp(q) PROVE Homes'
  BY <1>7 DEF GiveUp, Goto, entryVars, backendVars, localVars
<1>8. ASSUME NEW q \in Requests, SameCapability(q) PROVE Homes'
  BY <1>8 DEF SameCapability, Goto, entryVars, backendVars, localVars
<1>9. ASSUME NEW q \in Requests, SwitchTo(q) PROVE Homes'
  BY <1>9, Apart DEF SwitchTo, Enqueue, Goto, entryVars, localVars
<1>10. ASSUME NEW q \in Requests, SwitchNotAccepted(q) PROVE Homes'
  BY <1>10 DEF SwitchNotAccepted, Goto, entryVars, backendVars, localVars
<1>11. ASSUME NEW q \in Requests, StartWatcher(q) PROVE Homes'
  BY <1>11 DEF StartWatcher, Goto, entryVars, localVars
<1>12. ASSUME NEW q \in Requests, EndRefresh(q) PROVE Homes'
  BY <1>12, Waked DEF EndRefresh, backendVars
<1>13. ASSUME NEW q \in Requests, Activate(q) PROVE Homes'
  BY <1>13 DEF Activate, Goto, entryVars
<1>14. ASSUME NEW q \in Requests, ActivateFails(q) PROVE Homes'
  BY <1>14 DEF ActivateFails, Goto, entryVars, backendVars, localVars
<1>15. ASSUME NEW q \in Requests, Publish(q) PROVE Homes'
  BY <1>15 DEF Publish, Goto, Carriers, Activators, Activating
<1>16. ASSUME NEW q \in Requests, PublishRefused(q) PROVE Homes'
  BY <1>16 DEF PublishRefused, Goto, entryVars, backendVars, localVars
<1>17. ASSUME NEW q \in Requests, Discard(q) PROVE Homes'
  BY <1>17, Apart DEF Discard, Goto, entryVars
<1>18. ASSUME NEW q \in Requests, EndActivation(q) PROVE Homes'
  BY <1>18, Waked DEF EndActivation, entryVars, backendVars
<1>19. ASSUME NEW q \in Requests, Acquire(q) PROVE Homes'
  BY <1>19 DEF Acquire, Goto, entryVars, backendVars
<1>20. ASSUME NEW q \in Requests, AcquireAgain(q) PROVE Homes'
  BY <1>20 DEF AcquireAgain, Goto, entryVars, backendVars, localVars
<1>21. ASSUME NEW q \in Requests, Mutate(q) PROVE Homes'
  BY <1>21, Apart DEF Mutate, Enqueue, Goto, entryVars, localVars
<1>22. ASSUME NEW q \in Requests, MutationAnswered(q) PROVE Homes'
  BY <1>22 DEF MutationAnswered, Bumped, Goto, entryVars, localVars
<1>23. ASSUME NEW q \in Requests, Subscribe(q) PROVE Homes'
  BY <1>23 DEF Subscribe, Goto, entryVars, backendVars, localVars
<1>24. ASSUME NEW q \in Requests, Unsubscribe(q) PROVE Homes'
  BY <1>24 DEF Unsubscribe, Goto, entryVars, backendVars, localVars
<1>25. ASSUME NEW q \in Requests, Release(q) PROVE Homes'
  BY <1>25 DEF Release, Goto, entryVars, backendVars
<1>26. ASSUME NEW q \in Requests, AbandonQueued(q) PROVE Homes'
  BY <1>26 DEF AbandonQueued, AfterAbandon, Goto, entryVars, localVars
<1>27. ASSUME NEW q \in Requests, AbandonRunning(q) PROVE Homes'
  BY <1>27 DEF AbandonRunning, AfterAbandon, Goto, entryVars, localVars
<1>28. ASSUME NEW q \in Requests, AnswerLost(q) PROVE Homes'
  BY <1>28 DEF AnswerLost, AfterAbandon, Goto, entryVars, backendVars, localVars
<1>29. ASSUME NEW b \in Backends, CompleteJob(b) PROVE Homes'
  <2>1. UNCHANGED <<session, retiring, stage, home, srv>>
    BY <1>29 DEF CompleteJob, entryVars, localVars
  <2>2. \A q \in Requests : \/ pc'[q] = pc[q]
                            \/ pc[q] = "switching" /\ pc'[q] = "switched"
                            \/ pc[q] = "mutating" /\ pc'[q] = "answered"
    BY <1>29, Completed
  <2>3. QED
    BY <2>1, <2>2
<1>30. ASSUME NEW r \in Routes, Retire(r) PROVE Homes'
  BY <1>30, Apart DEF Retire, Retirable, backendVars, localVars, Ownership, Retirers
<1>31. ASSUME NEW r \in Routes, RetireStop(r) PROVE Homes'
  BY <1>31, Apart DEF RetireStop, entryVars, localVars
<1>32. ASSUME NEW r \in Routes, EndRetire(r) PROVE Homes'
  BY <1>32, Waked DEF EndRetire, localVars
<1>33. ASSUME NEW r \in Routes, StopReady(r) PROVE Homes'
  BY <1>33, Apart DEF StopReady, Round, StopBackend, entryVars, localVars, SessionsAtHome
<1>34. ASSUME NEW r \in Routes, StopAfterTransition(r) PROVE Homes'
  BY <1>34, Apart DEF StopAfterTransition, Round, StopBackend, entryVars, localVars,
     SessionsAtHome
<1>35. ASSUME NEW r \in Routes, DrainBackend(r) PROVE Homes'
  BY <1>35, Drained DEF localVars
<1>36. ASSUME UNCHANGED seen PROVE Homes'
  BY <1>36
<1>37. ASSUME NEW b \in Backends,
             WatchEvent(b)
      PROVE  UNCHANGED seen
  BY <1>37 DEF WatchEvent, entryVars, localVars
<1>38. ASSUME NEW r \in Routes,
             FireTimer(r) \/ RetireDeclined(r) \/ RetireSuperseded(r) \/ FlipDisk(r)
             \/ MarkShutting(r) \/ StopLater(r)
      PROVE  UNCHANGED seen
  BY <1>38 DEF FireTimer, RetireDeclined, RetireSuperseded, FlipDisk, MarkShutting, Round,
     StopLater, entryVars, backendVars, localVars
<1>39. ASSUME NEW o \in Openers,
             OpenResolve(o) \/ OpenLookup(o) \/ OpenRecord(o) \/ OpenReserve(o)
      PROVE  UNCHANGED seen
  BY <1>39 DEF OpenResolve, OpenLookup, OpenRecord, OpenReserve, entryVars, backendVars,
     localVars
<1>40. ASSUME BeginShutdown \/ EndLoop PROVE UNCHANGED seen
  BY <1>40 DEF BeginShutdown, EndLoop, entryVars, backendVars, localVars
<1>41. CASE UNCHANGED vars
  BY <1>41, <1>36 DEF vars, entryVars, backendVars, localVars
<1>42. QED
  BY <1>2, <1>3, <1>4, <1>5, <1>6, <1>7, <1>8, <1>9, <1>10, <1>11, <1>12, <1>13, <1>14,
     <1>15, <1>16, <1>17, <1>18, <1>19, <1>20, <1>21, <1>22, <1>23, <1>24, <1>25, <1>26,
     <1>27, <1>28, <1>29, <1>30, <1>31, <1>32, <1>33, <1>34, <1>35, <1>36, <1>37, <1>38,
     <1>39, <1>40, <1>41
     DEF Next, RequestStep, EnsureStep, ContextEnds, RetireStep, ShutdownStep, OpenStep,
         Quiescent

-----------------------------------------------------------------------------
(* Jobs: a queue holds what its callers wait for, or have left.           *)

\* A job is its caller's, or one that was left running.
LEMMA CallersStep == Inv /\ [Next]_vars => Callers'
<1> SUFFICES ASSUME Inv, [Next]_vars PROVE Callers'
  OBVIOUS
<1> DEFINE seen == <<jobs, srv, pc, want, orphaned>>
<1>0. TypeOK /\ Callers /\ OneJobEach /\ Carriers /\ Refreshers /\ LeasesHold
      /\ ClosedAreIdle
  BY DEF Inv, BackendsHaveHomes, Leases
<1>1. /\ jobs \in [Backends -> Seq(Job)] /\ srv \in [Requests -> Backends \cup {None}]
      /\ pc \in [Requests -> PCs] /\ want \in [Requests -> Caps]
      /\ orphaned \in SUBSET Backends
      /\ stage \in [Backends -> {"closed", "open", "stopped"}]
  BY <1>0 DEF TypeOK, BackendTypes, RequestTypes
<1> USE RegistryAssumption, <1>0, <1>1 DEF Callers
<1>2. ASSUME NEW q \in Requests, Arrive(q) PROVE Callers'
  BY <1>2 DEF Arrive, Goto, backendVars
<1>3. ASSUME NEW q \in Requests, EnsureRefused(q) PROVE Callers'
  BY <1>3 DEF EnsureRefused, Goto, backendVars, localVars
<1>4. ASSUME NEW q \in Requests, EnsureWaits(q) PROVE Callers'
  BY <1>4 DEF EnsureWaits, Goto, backendVars, localVars
<1>5. ASSUME NEW q \in Requests, EnsureReady(q) PROVE Callers'
  BY <1>5 DEF EnsureReady, Goto, backendVars, localVars
<1>6. ASSUME NEW q \in Requests, BeginTransition(q) PROVE Callers'
  BY <1>6 DEF BeginTransition, Goto, backendVars
<1>7. ASSUME NEW q \in Requests, GiveUp(q) PROVE Callers'
  BY <1>7 DEF GiveUp, Goto, backendVars, localVars
<1>8. ASSUME NEW q \in Requests, SameCapability(q) PROVE Callers'
  BY <1>8 DEF SameCapability, Goto, backendVars, localVars
<1>9. ASSUME NEW q \in Requests, SwitchTo(q) PROVE Callers'
  <2>1. srv[q] \in Backends /\ want[q] \in Caps /\ want[q] # None
    BY <1>9 DEF SwitchTo, Refreshers, Refreshing, Caps
  <2> DEFINE job == [by |-> q, to |-> want[q]]
  <2>2. /\ job \in Job /\ job.by = q /\ job.to = want[q] /\ q # None
    BY <2>1 DEF Job
  <2>3. Elems(Append(jobs[srv[q]], job)) = Elems(jobs[srv[q]]) \cup {job}
    BY <2>1, <2>2, Contents
  <2>4. jobs' = [jobs EXCEPT ![srv[q]] = Append(@, job)]
    BY <1>9 DEF SwitchTo, Enqueue
  <2> HIDE DEF job
  <2>5. /\ pc[q] = "refresh" /\ pc' = [pc EXCEPT ![q] = "switching"]
        /\ UNCHANGED <<srv, want, orphaned>>
    BY <1>9 DEF SwitchTo, Enqueue, Goto, localVars
  <2>6. \A b \in Backends : \A j \in Elems(jobs[b]) : j.by # q
    BY <2>2, <2>5
  <2>7. QED
    BY <2>1, <2>2, <2>3, <2>4, <2>5, <2>6
<1>10. ASSUME NEW q \in Requests, SwitchNotAccepted(q) PROVE Callers'
  BY <1>10 DEF SwitchNotAccepted, Goto, backendVars, localVars
<1>11. ASSUME NEW q \in Requests, StartWatcher(q) PROVE Callers'
  BY <1>11 DEF StartWatcher, Goto, localVars
<1>12. ASSUME NEW q \in Requests, EndRefresh(q) PROVE Callers'
  BY <1>12, Waked, Accepted DEF EndRefresh, backendVars
<1>13. ASSUME NEW q \in Requests, Activate(q) PROVE Callers'
  BY <1>13, Contents DEF Activate, Goto, ClosedAreIdle
<1>14. ASSUME NEW q \in Requests, ActivateFails(q) PROVE Callers'
  BY <1>14 DEF ActivateFails, Goto, backendVars, localVars
<1>15. ASSUME NEW q \in Requests, Publish(q) PROVE Callers'
  BY <1>15 DEF Publish, Goto
<1>16. ASSUME NEW q \in Requests, PublishRefused(q) PROVE Callers'
  BY <1>16 DEF PublishRefused, Goto, backendVars, localVars
<1>17. ASSUME NEW q \in Requests, Discard(q) PROVE Callers'
  BY <1>17 DEF Discard, Goto
<1>18. ASSUME NEW q \in Requests, EndActivation(q) PROVE Callers'
  BY <1>18, Waked, Accepted DEF EndActivation, backendVars
<1>19. ASSUME NEW q \in Requests, Acquire(q) PROVE Callers'
  BY <1>19 DEF Acquire, Goto, backendVars
<1>20. ASSUME NEW q \in Requests, AcquireAgain(q) PROVE Callers'
  BY <1>20 DEF AcquireAgain, Goto, backendVars, localVars
<1>21. ASSUME NEW q \in Requests, Mutate(q) PROVE Callers'
  <2>1. srv[q] \in Backends /\ want[q] \in Caps /\ want[q] # None
    BY <1>21 DEF Mutate, LeasesHold, Leased, Caps
  <2> DEFINE job == [by |-> q, to |-> None]
  <2>2. /\ job \in Job /\ job.by = q /\ job.to = None /\ q # None
    BY <2>1 DEF Job
  <2>3. Elems(Append(jobs[srv[q]], job)) = Elems(jobs[srv[q]]) \cup {job}
    BY <2>1, <2>2, Contents
  <2>4. jobs' = [jobs EXCEPT ![srv[q]] = Append(@, job)]
    BY <1>21 DEF Mutate, Enqueue
  <2> HIDE DEF job
  <2>5. /\ pc[q] = "serving" /\ pc' = [pc EXCEPT ![q] = "mutating"]
        /\ UNCHANGED <<srv, want, orphaned>>
    BY <1>21 DEF Mutate, Enqueue, Goto, localVars
  <2>6. \A b \in Backends : \A j \in Elems(jobs[b]) : j.by # q
    BY <2>2, <2>5
  <2>7. QED
    BY <2>1, <2>2, <2>3, <2>4, <2>5, <2>6
<1>22. ASSUME NEW q \in Requests, MutationAnswered(q) PROVE Callers'
  BY <1>22 DEF MutationAnswered, Bumped, Goto, localVars
<1>23. ASSUME NEW q \in Requests, Subscribe(q) PROVE Callers'
  BY <1>23 DEF Subscribe, Goto, backendVars, localVars
<1>24. ASSUME NEW q \in Requests, Unsubscribe(q) PROVE Callers'
  BY <1>24 DEF Unsubscribe, Goto, backendVars, localVars
<1>25. ASSUME NEW q \in Requests, Release(q) PROVE Callers'
  BY <1>25 DEF Release, Goto, backendVars
<1>26. ASSUME NEW q \in Requests, AbandonQueued(q) PROVE Callers'
  <2>1. srv[q] \in Backends
    BY <1>26 DEF AbandonQueued, Refreshers, Refreshing, LeasesHold, Leased
  <2>2. PICK i \in DOMAIN jobs[srv[q]] :
          jobs[srv[q]][i].by = q /\ jobs' = [jobs EXCEPT ![srv[q]] = Skipping(@, i)]
    BY <1>26 DEF AbandonQueued
  <2>3. /\ Elems(Skipping(jobs[srv[q]], i)) \subseteq Elems(jobs[srv[q]])
        /\ \A job \in Elems(Skipping(jobs[srv[q]], i)) : job.by # None => job.by # q
    BY <2>1, <2>2, Contents, Alone DEF OneJobEach
  <2>4. \A x \in Backends : \A job \in Elems(jobs'[x]) :
          job \in Elems(jobs[x]) /\ (job.by # None => job.by # q)
    BY <2>1, <2>2, <2>3
  <2>5. pc' = [pc EXCEPT ![q] = AfterAbandon(q)] /\ UNCHANGED <<srv, want, orphaned>>
    BY <1>26 DEF AbandonQueued, Goto, localVars
  <2>6. \A x \in Backends : \A job \in Elems(jobs[x]) : job.by \in Requests \cup {None}
    BY Accepted
  <2>7. QED
    BY <2>4, <2>5, <2>6
<1>27. ASSUME NEW q \in Requests, AbandonRunning(q) PROVE Callers'
  <2>1. srv[q] \in Backends
    BY <1>27 DEF AbandonRunning, Refreshers, Refreshing, LeasesHold, Leased
  <2> DEFINE s == jobs[srv[q]]
             left == [s[1] EXCEPT !.by = None]
  <2>2. s \in Seq(Job) /\ s # <<>> /\ Head(s).by = q /\ Singly(s)
    BY <1>27, <2>1 DEF AbandonRunning, OneJobEach
  <2> HIDE DEF Callers
  <2>3. left = [s[1] EXCEPT !.by = None]
    OBVIOUS
  <2>4. jobs' = [jobs EXCEPT ![srv[q]] = [s EXCEPT ![1] = left]]
    BY <1>27 DEF AbandonRunning
  <2> HIDE DEF left, s
  <2>5. /\ Elems([s EXCEPT ![1] = left]) \subseteq {left} \cup Elems(s)
        /\ \A job \in Elems([s EXCEPT ![1] = left]) : job # left => job.by # q
        /\ s[1] \in Elems(s) /\ s[1].by = q /\ left.by = None /\ left.to = s[1].to
    BY <2>2, <2>3, Disowned
  <2>6. /\ pc' = [pc EXCEPT ![q] = AfterAbandon(q)] /\ UNCHANGED <<srv, want>>
        /\ orphaned' = IF pc[q] = "switching" THEN orphaned \cup {srv[q]} ELSE orphaned
    BY <1>27 DEF AbandonRunning, Goto, localVars
  <2>7. \A x \in Backends : \A job \in Elems(jobs[x]) : job.by \in Requests \cup {None}
    BY Accepted
  <2>8. s[1].to # None => pc[q] = "switching" /\ srv[q] \in orphaned'
    BY <2>1, <2>5, <2>6 DEF s, Callers
  <2>9. ASSUME NEW x \in Backends, NEW job \in Elems(jobs'[x])
        PROVE  \/ job \in Elems(jobs[x]) /\ job.by # q
               \/ x = srv[q] /\ job = left
    <3>1. CASE x = srv[q]
      BY <2>1, <2>5, <2>4, <3>1 DEF s
    <3>2. CASE x # srv[q]
      BY <2>1, <2>4, <3>2 DEF s, Callers
    <3>3. QED
      BY <3>1, <3>2
  <2>10. QED
    BY <2>5, <2>6, <2>7, <2>8, <2>9 DEF s, Callers
<1>28. ASSUME NEW q \in Requests, AnswerLost(q) PROVE Callers'
  BY <1>28 DEF AnswerLost, AfterAbandon, Goto, backendVars, localVars
<1>29. ASSUME NEW b \in Backends, CompleteJob(b) PROVE Callers'
  <2> DEFINE first == Head(jobs[b])
  <2>1. jobs[b] \in Seq(Job) /\ jobs[b] # <<>> /\ Singly(jobs[b])
    BY <1>29 DEF CompleteJob, OneJobEach
  <2>2. /\ Elems(Tail(jobs[b])) \subseteq Elems(jobs[b]) /\ first \in Elems(jobs[b])
        /\ \A job \in Elems(Tail(jobs[b])) : job.by # None => job.by # first.by
    BY <2>1, Contents, Alone
  <2>3. jobs' = [jobs EXCEPT ![b] = Tail(@)]
    BY <1>29 DEF CompleteJob
  <2>4. \A x \in Backends : \A job \in Elems(jobs'[x]) :
          job \in Elems(jobs[x]) /\ (job.by # None => job.by # first.by)
    BY <2>2, <2>3
  <2>5. UNCHANGED <<srv, want, orphaned>> /\ \A q \in Requests : q # first.by => pc'[q] = pc[q]
    BY <1>29 DEF CompleteJob, localVars
  <2>6. \A x \in Backends : \A job \in Elems(jobs[x]) : job.by \in Requests \cup {None}
    BY Accepted
  <2> HIDE DEF first, Callers
  <2>7. \A x \in Backends : \A job \in Elems(jobs'[x]) :
          job \in Elems(jobs[x]) /\ (job.by # None => pc'[job.by] = pc[job.by])
    BY <2>4, <2>5, <2>6
  <2>8. QED
    BY <2>5, <2>7 DEF Callers
<1>30. ASSUME NEW r \in Routes, EndRetire(r) PROVE Callers'
  BY <1>30, Waked, Accepted DEF EndRetire, localVars
<1>31. ASSUME UNCHANGED seen PROVE Callers'
  BY <1>31
<1>32. ASSUME NEW b \in Backends,
             WatchEvent(b)
      PROVE  UNCHANGED seen
  BY <1>32 DEF WatchEvent, localVars
<1>33. ASSUME NEW r \in Routes,
             FireTimer(r) \/ Retire(r) \/ RetireDeclined(r) \/ RetireSuperseded(r)
             \/ RetireStop(r) \/ FlipDisk(r) \/ MarkShutting(r) \/ StopReady(r)
             \/ StopLater(r) \/ StopAfterTransition(r) \/ DrainBackend(r)
      PROVE  UNCHANGED seen
  BY <1>33 DEF FireTimer, Retire, RetireDeclined, RetireSuperseded, RetireStop, FlipDisk,
     MarkShutting, Round, StopReady, StopBackend, StopLater, StopAfterTransition,
     DrainBackend, backendVars, localVars
<1>34. ASSUME NEW o \in Openers,
             OpenResolve(o) \/ OpenLookup(o) \/ OpenRecord(o) \/ OpenReserve(o)
      PROVE  UNCHANGED seen
  BY <1>34 DEF OpenResolve, OpenLookup, OpenRecord, OpenReserve, backendVars, localVars
<1>35. ASSUME BeginShutdown \/ EndLoop PROVE UNCHANGED seen
  BY <1>35 DEF BeginShutdown, EndLoop, backendVars, localVars
<1>36. CASE UNCHANGED vars
  BY <1>36, <1>31 DEF vars, backendVars, localVars
<1>37. QED
  BY <1>2, <1>3, <1>4, <1>5, <1>6, <1>7, <1>8, <1>9, <1>10, <1>11, <1>12, <1>13, <1>14,
     <1>15, <1>16, <1>17, <1>18, <1>19, <1>20, <1>21, <1>22, <1>23, <1>24, <1>25, <1>26,
     <1>27, <1>28, <1>29, <1>30, <1>31, <1>32, <1>33, <1>34, <1>35, <1>36
     DEF Next, RequestStep, EnsureStep, ContextEnds, RetireStep, ShutdownStep, OpenStep,
         Quiescent

\* A caller has one job at a time.
LEMMA OneJobEachStep == Inv /\ [Next]_vars => OneJobEach'
<1> SUFFICES ASSUME Inv, [Next]_vars PROVE OneJobEach'
  OBVIOUS
<1> DEFINE seen == <<jobs>>
<1>0. TypeOK /\ Callers /\ OneJobEach /\ Refreshers /\ LeasesHold
  BY DEF Inv, BackendsHaveHomes, Leases
<1>1. /\ jobs \in [Backends -> Seq(Job)] /\ pc \in [Requests -> PCs]
      /\ srv \in [Requests -> Backends \cup {None}] /\ want \in [Requests -> Caps]
  BY <1>0 DEF TypeOK, BackendTypes, RequestTypes
<1> USE RegistryAssumption, <1>0, <1>1 DEF OneJobEach
<1>2. ASSUME NEW q \in Requests, SwitchTo(q) PROVE OneJobEach'
  <2>1. srv[q] \in Backends /\ want[q] \in Caps /\ want[q] # None
    BY <1>2 DEF SwitchTo, Refreshers, Refreshing, Caps
  <2> DEFINE job == [by |-> q, to |-> want[q]]
  <2>2. /\ job \in Job /\ job.by = q /\ job.to = want[q] /\ q # None
    BY <2>1 DEF Job
  <2>3. Elems(Append(jobs[srv[q]], job)) = Elems(jobs[srv[q]]) \cup {job}
    BY <2>1, <2>2, Contents
  <2>4. jobs' = [jobs EXCEPT ![srv[q]] = Append(@, job)]
    BY <1>2 DEF SwitchTo, Enqueue
  <2> HIDE DEF job
  <2>5. /\ pc[q] = "refresh" /\ pc' = [pc EXCEPT ![q] = "switching"]
        /\ UNCHANGED <<srv, want, orphaned>>
    BY <1>2 DEF SwitchTo, Enqueue, Goto, localVars
  <2>6. \A j \in Elems(jobs[srv[q]]) : j.by # q
    BY <2>1, <2>2, <2>5 DEF Callers
  <2>7. Singly(Append(jobs[srv[q]], job))
    BY <2>1, <2>2, <2>6, Alone
  <2>8. QED
    BY <2>1, <2>4, <2>7
<1>3. ASSUME NEW q \in Requests, Mutate(q) PROVE OneJobEach'
  <2>1. srv[q] \in Backends /\ want[q] \in Caps /\ want[q] # None
    BY <1>3 DEF Mutate, LeasesHold, Leased, Caps
  <2> DEFINE job == [by |-> q, to |-> None]
  <2>2. /\ job \in Job /\ job.by = q /\ job.to = None /\ q # None
    BY <2>1 DEF Job
  <2>3. Elems(Append(jobs[srv[q]], job)) = Elems(jobs[srv[q]]) \cup {job}
    BY <2>1, <2>2, Contents
  <2>4. jobs' = [jobs EXCEPT ![srv[q]] = Append(@, job)]
    BY <1>3 DEF Mutate, Enqueue
  <2> HIDE DEF job
  <2>5. /\ pc[q] = "serving" /\ pc' = [pc EXCEPT ![q] = "mutating"]
        /\ UNCHANGED <<srv, want, orphaned>>
    BY <1>3 DEF Mutate, Enqueue, Goto, localVars
  <2>6. \A j \in Elems(jobs[srv[q]]) : j.by # q
    BY <2>1, <2>2, <2>5 DEF Callers
  <2>7. Singly(Append(jobs[srv[q]], job))
    BY <2>1, <2>2, <2>6, Alone
  <2>8. QED
    BY <2>1, <2>4, <2>7
<1>4. ASSUME NEW q \in Requests, AbandonQueued(q) PROVE OneJobEach'
  <2>1. srv[q] \in Backends
    BY <1>4 DEF AbandonQueued, Refreshers, Refreshing, LeasesHold, Leased
  <2>2. PICK i \in DOMAIN jobs[srv[q]] : jobs' = [jobs EXCEPT ![srv[q]] = Skipping(@, i)]
    BY <1>4 DEF AbandonQueued
  <2>3. Singly(Skipping(jobs[srv[q]], i))
    BY <2>1, <2>2, Alone
  <2>4. QED
    BY <2>1, <2>2, <2>3
<1>5. ASSUME NEW q \in Requests, AbandonRunning(q) PROVE OneJobEach'
  <2>1. srv[q] \in Backends
    BY <1>5 DEF AbandonRunning, Refreshers, Refreshing, LeasesHold, Leased
  <2> DEFINE s == jobs[srv[q]]
             left == [s[1] EXCEPT !.by = None]
  <2>2. s \in Seq(Job) /\ s # <<>> /\ Head(s).by = q /\ Singly(s)
    BY <1>5, <2>1 DEF AbandonRunning
  <2>3. Singly([s EXCEPT ![1] = left])
    BY <2>2, Disowned
  <2>4. jobs' = [jobs EXCEPT ![srv[q]] = [s EXCEPT ![1] = left]]
    BY <1>5 DEF AbandonRunning
  <2>5. QED
    BY <2>1, <2>3, <2>4
<1>6. ASSUME NEW b \in Backends, CompleteJob(b) PROVE OneJobEach'
  <2>1. jobs[b] \in Seq(Job) /\ jobs[b] # <<>> /\ Singly(jobs[b])
    BY <1>6 DEF CompleteJob
  <2>2. jobs' = [jobs EXCEPT ![b] = Tail(@)] /\ Singly(Tail(jobs[b]))
    BY <1>6, <2>1, Alone DEF CompleteJob
  <2>3. QED
    BY <2>2
<1>7. ASSUME UNCHANGED seen PROVE OneJobEach'
  BY <1>7
<1>8. ASSUME NEW q \in Requests,
             Arrive(q) \/ EnsureRefused(q) \/ EnsureWaits(q) \/ EnsureReady(q)
             \/ BeginTransition(q) \/ GiveUp(q) \/ SameCapability(q)
             \/ SwitchNotAccepted(q) \/ StartWatcher(q) \/ EndRefresh(q) \/ Activate(q)
             \/ ActivateFails(q) \/ Publish(q) \/ PublishRefused(q) \/ Discard(q)
             \/ EndActivation(q) \/ Acquire(q) \/ AcquireAgain(q) \/ MutationAnswered(q)
             \/ Subscribe(q) \/ Unsubscribe(q) \/ Release(q) \/ AnswerLost(q)
      PROVE  UNCHANGED seen
  BY <1>8 DEF Arrive, EnsureRefused, EnsureWaits, EnsureReady, BeginTransition, GiveUp,
     SameCapability, SwitchNotAccepted, StartWatcher, EndRefresh, Activate, ActivateFails,
     Publish, PublishRefused, Discard, EndActivation, Acquire, AcquireAgain,
     MutationAnswered, Subscribe, Unsubscribe, ScheduleDormancy, Release, AnswerLost,
     backendVars
<1>9. ASSUME NEW b \in Backends,
             WatchEvent(b)
      PROVE  UNCHANGED seen
  BY <1>9 DEF WatchEvent
<1>10. ASSUME NEW r \in Routes,
             FireTimer(r) \/ Retire(r) \/ RetireDeclined(r) \/ RetireSuperseded(r)
             \/ RetireStop(r) \/ EndRetire(r) \/ FlipDisk(r) \/ MarkShutting(r)
             \/ StopReady(r) \/ StopLater(r) \/ StopAfterTransition(r) \/ DrainBackend(r)
      PROVE  UNCHANGED seen
  BY <1>10 DEF FireTimer, Retire, RetireDeclined, RetireSuperseded, RetireStop, EndRetire,
     FlipDisk, MarkShutting, Round, StopReady, StopBackend, StopLater, StopAfterTransition,
     DrainBackend, backendVars
<1>11. ASSUME NEW o \in Openers,
             OpenResolve(o) \/ OpenLookup(o) \/ OpenRecord(o) \/ OpenReserve(o)
      PROVE  UNCHANGED seen
  BY <1>11 DEF OpenResolve, OpenLookup, OpenRecord, OpenReserve, backendVars
<1>12. ASSUME BeginShutdown \/ EndLoop PROVE UNCHANGED seen
  BY <1>12 DEF BeginShutdown, EndLoop, backendVars
<1>13. CASE UNCHANGED vars
  BY <1>13, <1>7 DEF vars, backendVars
<1>14. QED
  BY <1>2, <1>3, <1>4, <1>5, <1>6, <1>7, <1>8, <1>9, <1>10, <1>11, <1>12, <1>13
     DEF Next, RequestStep, EnsureStep, ContextEnds, RetireStep, ShutdownStep, OpenStep,
         Quiescent

-----------------------------------------------------------------------------
(* Leases: the counts count, and timers are set beside none.              *)

\* active counts the requests in their handlers.
LEMMA ActiveCountsStep == Inv /\ [Next]_vars => ActiveCounts'
<1> SUFFICES ASSUME Inv, [Next]_vars PROVE ActiveCounts'
  OBVIOUS
<1> DEFINE seen == <<active, pc, route>>
<1>0. TypeOK /\ ActiveCounts /\ Callers
  BY DEF Inv, Leases
<1>1. /\ active \in [Routes -> Nat] /\ pc \in [Requests -> PCs]
      /\ route \in [Requests -> Routes]
  BY <1>0 DEF TypeOK, LeaseTypes, RequestTypes
<1> USE RegistryAssumption, <1>0, <1>1 DEF Leased
<1>2. ASSUME NEW q \in Requests, Arrive(q) PROVE ActiveCounts'
  BY <1>2, SameLeases DEF Arrive, Goto, leaseVars
<1>3. ASSUME NEW q \in Requests, EnsureRefused(q) PROVE ActiveCounts'
  BY <1>3, SameLeases DEF EnsureRefused, Goto, leaseVars, localVars
<1>4. ASSUME NEW q \in Requests, EnsureWaits(q) PROVE ActiveCounts'
  BY <1>4, SameLeases DEF EnsureWaits, Goto, leaseVars, localVars
<1>5. ASSUME NEW q \in Requests, EnsureReady(q) PROVE ActiveCounts'
  BY <1>5, SameLeases DEF EnsureReady, Goto, leaseVars, localVars
<1>6. ASSUME NEW q \in Requests, BeginTransition(q) PROVE ActiveCounts'
  BY <1>6, SameLeases DEF BeginTransition, Goto, leaseVars
<1>7. ASSUME NEW q \in Requests, GiveUp(q) PROVE ActiveCounts'
  BY <1>7, SameLeases DEF GiveUp, Goto, leaseVars, localVars
<1>8. ASSUME NEW q \in Requests, SameCapability(q) PROVE ActiveCounts'
  BY <1>8, SameLeases DEF SameCapability, Goto, leaseVars, localVars
<1>9. ASSUME NEW q \in Requests, SwitchTo(q) PROVE ActiveCounts'
  BY <1>9, SameLeases DEF SwitchTo, Enqueue, Goto, leaseVars, localVars
<1>10. ASSUME NEW q \in Requests, SwitchNotAccepted(q) PROVE ActiveCounts'
  BY <1>10, SameLeases DEF SwitchNotAccepted, Goto, leaseVars, localVars
<1>11. ASSUME NEW q \in Requests, StartWatcher(q) PROVE ActiveCounts'
  BY <1>11, SameLeases DEF StartWatcher, Goto, leaseVars, localVars
<1>12. ASSUME NEW q \in Requests, EndRefresh(q) PROVE ActiveCounts'
  BY <1>12, Waked, SameLeases DEF EndRefresh, leaseVars
<1>13. ASSUME NEW q \in Requests, Activate(q) PROVE ActiveCounts'
  BY <1>13, SameLeases DEF Activate, Goto, leaseVars
<1>14. ASSUME NEW q \in Requests, ActivateFails(q) PROVE ActiveCounts'
  BY <1>14, SameLeases DEF ActivateFails, Goto, leaseVars, localVars
<1>15. ASSUME NEW q \in Requests, Publish(q) PROVE ActiveCounts'
  BY <1>15, SameLeases DEF Publish, Goto, leaseVars
<1>16. ASSUME NEW q \in Requests, PublishRefused(q) PROVE ActiveCounts'
  BY <1>16, SameLeases DEF PublishRefused, Goto, leaseVars, localVars
<1>17. ASSUME NEW q \in Requests, Discard(q) PROVE ActiveCounts'
  BY <1>17, SameLeases DEF Discard, Goto, leaseVars
<1>18. ASSUME NEW q \in Requests, EndActivation(q) PROVE ActiveCounts'
  BY <1>18, Waked, SameLeases DEF EndActivation, leaseVars
<1>19. ASSUME NEW q \in Requests, Acquire(q) PROVE ActiveCounts'
  <2>1. /\ pc[q] = "ready" /\ pc' = [pc EXCEPT ![q] = "serving"] /\ UNCHANGED route
        /\ active' = [active EXCEPT ![route[q]] = @ + 1]
    BY <1>19 DEF Acquire, Goto
  <2>2. ASSUME NEW r \in Routes, r # route[q]
        PROVE  LeasedAt(r)' = LeasedAt(r) /\ active'[r] = active[r]
    BY <2>1, <2>2 DEF LeasedAt
  <2>3. LeasedAt(route[q])' = LeasedAt(route[q]) \cup {q} /\ q \notin LeasedAt(route[q])
    BY <2>1 DEF LeasedAt
  <2>4. /\ IsFiniteSet(LeasedAt(route[q])')
        /\ Cardinality(LeasedAt(route[q])') = Cardinality(LeasedAt(route[q])) + 1
    BY <2>3, FS_AddElement DEF ActiveCounts
  <2>5. /\ active[route[q]] = Cardinality(LeasedAt(route[q]))
        /\ active'[route[q]] = Cardinality(LeasedAt(route[q])')
    <3>1. /\ route[q] \in Routes /\ active[route[q]] \in Nat
          /\ active[route[q]] = Cardinality(LeasedAt(route[q]))
      BY DEF ActiveCounts
    <3>2. LeasedAt(route[q]) # {} => active[route[q]] > 0
      BY <3>1, FS_EmptySet, FS_CardinalityType DEF ActiveCounts
    <3>3. QED
      BY <2>1, <2>3, <2>4, <3>1, <3>2
  <2>6. ASSUME NEW r \in Routes
        PROVE  IsFiniteSet(LeasedAt(r)') /\ active'[r] = Cardinality(LeasedAt(r)')
    <3>1. CASE r = route[q]
      BY <2>1, <2>4, <2>5, <3>1
    <3>2. CASE r # route[q]
      BY <2>2, <3>2 DEF ActiveCounts
    <3>3. QED
      BY <3>1, <3>2
  <2>7. QED
    BY <2>6 DEF ActiveCounts
<1>20. ASSUME NEW q \in Requests, AcquireAgain(q) PROVE ActiveCounts'
  BY <1>20, SameLeases DEF AcquireAgain, Goto, leaseVars, localVars
<1>21. ASSUME NEW q \in Requests, Mutate(q) PROVE ActiveCounts'
  BY <1>21, SameLeases DEF Mutate, Enqueue, Goto, leaseVars, localVars
<1>22. ASSUME NEW q \in Requests, MutationAnswered(q) PROVE ActiveCounts'
  BY <1>22, SameLeases DEF MutationAnswered, Bumped, Goto, leaseVars, localVars
<1>23. ASSUME NEW q \in Requests, Subscribe(q) PROVE ActiveCounts'
  BY <1>23, SameLeases DEF Subscribe, Goto, localVars
<1>24. ASSUME NEW q \in Requests, Unsubscribe(q) PROVE ActiveCounts'
  BY <1>24, SameLeases DEF Unsubscribe, Goto, localVars
<1>25. ASSUME NEW q \in Requests, Release(q) PROVE ActiveCounts'
  <2>1. /\ pc[q] \in {"serving", "leaving"} /\ pc' = [pc EXCEPT ![q] = "done"] /\ UNCHANGED route
        /\ active' = [active EXCEPT ![route[q]] = IF @ > 0 THEN @ - 1 ELSE 0]
    BY <1>25 DEF Release, Goto
  <2>2. ASSUME NEW r \in Routes, r # route[q]
        PROVE  LeasedAt(r)' = LeasedAt(r) /\ active'[r] = active[r]
    BY <2>1, <2>2 DEF LeasedAt
  <2>3. LeasedAt(route[q])' = LeasedAt(route[q]) \ {q} /\ q \in LeasedAt(route[q])
    BY <2>1 DEF LeasedAt
  <2>4. /\ IsFiniteSet(LeasedAt(route[q])')
        /\ Cardinality(LeasedAt(route[q])') = Cardinality(LeasedAt(route[q])) - 1
    BY <2>3, FS_RemoveElement DEF ActiveCounts
  <2>5. /\ active[route[q]] = Cardinality(LeasedAt(route[q]))
        /\ active'[route[q]] = Cardinality(LeasedAt(route[q])')
    <3>1. /\ route[q] \in Routes /\ active[route[q]] \in Nat
          /\ active[route[q]] = Cardinality(LeasedAt(route[q]))
      BY DEF ActiveCounts
    <3>2. LeasedAt(route[q]) # {} => active[route[q]] > 0
      BY <3>1, FS_EmptySet, FS_CardinalityType DEF ActiveCounts
    <3>3. QED
      BY <2>1, <2>3, <2>4, <3>1, <3>2
  <2>6. ASSUME NEW r \in Routes
        PROVE  IsFiniteSet(LeasedAt(r)') /\ active'[r] = Cardinality(LeasedAt(r)')
    <3>1. CASE r = route[q]
      BY <2>1, <2>4, <2>5, <3>1
    <3>2. CASE r # route[q]
      BY <2>2, <3>2 DEF ActiveCounts
    <3>3. QED
      BY <3>1, <3>2
  <2>7. QED
    BY <2>6 DEF ActiveCounts
<1>26. ASSUME NEW q \in Requests, AbandonQueued(q) PROVE ActiveCounts'
  BY <1>26, SameLeases DEF AbandonQueued, AfterAbandon, Goto, leaseVars, localVars
<1>27. ASSUME NEW q \in Requests, AbandonRunning(q) PROVE ActiveCounts'
  BY <1>27, SameLeases DEF AbandonRunning, AfterAbandon, Goto, leaseVars, localVars
<1>28. ASSUME NEW q \in Requests, AnswerLost(q) PROVE ActiveCounts'
  BY <1>28, SameLeases DEF AnswerLost, AfterAbandon, Goto, leaseVars, localVars
<1>29. ASSUME NEW b \in Backends, CompleteJob(b) PROVE ActiveCounts'
  <2>1. UNCHANGED <<active, route>>
    BY <1>29 DEF CompleteJob, leaseVars, localVars
  <2>2. \A q \in Requests : \/ pc'[q] = pc[q]
                            \/ pc[q] = "switching" /\ pc'[q] = "switched"
                            \/ pc[q] = "mutating" /\ pc'[q] = "answered"
    BY <1>29, Completed
  <2>3. QED
    BY <2>1, <2>2, SameLeases
<1>30. ASSUME NEW r \in Routes, EndRetire(r) PROVE ActiveCounts'
  BY <1>30, Waked, SameLeases DEF EndRetire, leaseVars, localVars
<1>31. ASSUME UNCHANGED seen PROVE ActiveCounts'
  BY <1>31, SameLeases
<1>32. ASSUME NEW b \in Backends,
             WatchEvent(b)
      PROVE  UNCHANGED seen
  BY <1>32 DEF WatchEvent, leaseVars, localVars
<1>33. ASSUME NEW r \in Routes,
             FireTimer(r) \/ Retire(r) \/ RetireDeclined(r) \/ RetireSuperseded(r)
             \/ RetireStop(r) \/ FlipDisk(r) \/ MarkShutting(r) \/ StopReady(r)
             \/ StopLater(r) \/ StopAfterTransition(r) \/ DrainBackend(r)
      PROVE  UNCHANGED seen
  BY <1>33 DEF FireTimer, Retire, RetireDeclined, RetireSuperseded, RetireStop, FlipDisk,
     MarkShutting, Round, StopReady, StopBackend, StopLater, StopAfterTransition,
     DrainBackend, leaseVars, localVars
<1>34. ASSUME NEW o \in Openers,
             OpenResolve(o) \/ OpenLookup(o) \/ OpenRecord(o) \/ OpenReserve(o)
      PROVE  UNCHANGED seen
  BY <1>34 DEF OpenResolve, OpenLookup, OpenRecord, OpenReserve, leaseVars, localVars
<1>35. ASSUME BeginShutdown \/ EndLoop PROVE UNCHANGED seen
  BY <1>35 DEF BeginShutdown, EndLoop, leaseVars, localVars
<1>36. CASE UNCHANGED vars
  BY <1>36, <1>31 DEF vars, leaseVars, localVars
<1>37. QED
  BY <1>2, <1>3, <1>4, <1>5, <1>6, <1>7, <1>8, <1>9, <1>10, <1>11, <1>12, <1>13, <1>14,
     <1>15, <1>16, <1>17, <1>18, <1>19, <1>20, <1>21, <1>22, <1>23, <1>24, <1>25, <1>26,
     <1>27, <1>28, <1>29, <1>30, <1>31, <1>32, <1>33, <1>34, <1>35, <1>36
     DEF Next, RequestStep, EnsureStep, ContextEnds, RetireStep, ShutdownStep, OpenStep,
         Quiescent

\* subscribers counts the event streams.
LEMMA SubscriberCountsStep == Inv /\ [Next]_vars => SubscriberCounts'
<1> SUFFICES ASSUME Inv, [Next]_vars PROVE SubscriberCounts'
  OBVIOUS
<1> DEFINE seen == <<subscribers, pc, route>>
<1>0. TypeOK /\ SubscriberCounts /\ Callers
  BY DEF Inv, Leases
<1>1. /\ subscribers \in [Routes -> Nat] /\ pc \in [Requests -> PCs]
      /\ route \in [Requests -> Routes]
  BY <1>0 DEF TypeOK, LeaseTypes, RequestTypes
<1> USE RegistryAssumption, <1>0, <1>1
<1>2. ASSUME NEW q \in Requests, Arrive(q) PROVE SubscriberCounts'
  BY <1>2, SameSubscribers DEF Arrive, Goto, leaseVars
<1>3. ASSUME NEW q \in Requests, EnsureRefused(q) PROVE SubscriberCounts'
  BY <1>3, SameSubscribers DEF EnsureRefused, Goto, leaseVars, localVars
<1>4. ASSUME NEW q \in Requests, EnsureWaits(q) PROVE SubscriberCounts'
  BY <1>4, SameSubscribers DEF EnsureWaits, Goto, leaseVars, localVars
<1>5. ASSUME NEW q \in Requests, EnsureReady(q) PROVE SubscriberCounts'
  BY <1>5, SameSubscribers DEF EnsureReady, Goto, leaseVars, localVars
<1>6. ASSUME NEW q \in Requests, BeginTransition(q) PROVE SubscriberCounts'
  BY <1>6, SameSubscribers DEF BeginTransition, Goto, leaseVars
<1>7. ASSUME NEW q \in Requests, GiveUp(q) PROVE SubscriberCounts'
  BY <1>7, SameSubscribers DEF GiveUp, Goto, leaseVars, localVars
<1>8. ASSUME NEW q \in Requests, SameCapability(q) PROVE SubscriberCounts'
  BY <1>8, SameSubscribers DEF SameCapability, Goto, leaseVars, localVars
<1>9. ASSUME NEW q \in Requests, SwitchTo(q) PROVE SubscriberCounts'
  BY <1>9, SameSubscribers DEF SwitchTo, Enqueue, Goto, leaseVars, localVars
<1>10. ASSUME NEW q \in Requests, SwitchNotAccepted(q) PROVE SubscriberCounts'
  BY <1>10, SameSubscribers DEF SwitchNotAccepted, Goto, leaseVars, localVars
<1>11. ASSUME NEW q \in Requests, StartWatcher(q) PROVE SubscriberCounts'
  BY <1>11, SameSubscribers DEF StartWatcher, Goto, leaseVars, localVars
<1>12. ASSUME NEW q \in Requests, EndRefresh(q) PROVE SubscriberCounts'
  BY <1>12, Waked, SameSubscribers DEF EndRefresh, leaseVars
<1>13. ASSUME NEW q \in Requests, Activate(q) PROVE SubscriberCounts'
  BY <1>13, SameSubscribers DEF Activate, Goto, leaseVars
<1>14. ASSUME NEW q \in Requests, ActivateFails(q) PROVE SubscriberCounts'
  BY <1>14, SameSubscribers DEF ActivateFails, Goto, leaseVars, localVars
<1>15. ASSUME NEW q \in Requests, Publish(q) PROVE SubscriberCounts'
  BY <1>15, SameSubscribers DEF Publish, Goto, leaseVars
<1>16. ASSUME NEW q \in Requests, PublishRefused(q) PROVE SubscriberCounts'
  BY <1>16, SameSubscribers DEF PublishRefused, Goto, leaseVars, localVars
<1>17. ASSUME NEW q \in Requests, Discard(q) PROVE SubscriberCounts'
  BY <1>17, SameSubscribers DEF Discard, Goto, leaseVars
<1>18. ASSUME NEW q \in Requests, EndActivation(q) PROVE SubscriberCounts'
  BY <1>18, Waked, SameSubscribers DEF EndActivation, leaseVars
<1>19. ASSUME NEW q \in Requests, Acquire(q) PROVE SubscriberCounts'
  BY <1>19, SameSubscribers DEF Acquire, Goto
<1>20. ASSUME NEW q \in Requests, AcquireAgain(q) PROVE SubscriberCounts'
  BY <1>20, SameSubscribers DEF AcquireAgain, Goto, leaseVars, localVars
<1>21. ASSUME NEW q \in Requests, Mutate(q) PROVE SubscriberCounts'
  BY <1>21, SameSubscribers DEF Mutate, Enqueue, Goto, leaseVars, localVars
<1>22. ASSUME NEW q \in Requests, MutationAnswered(q) PROVE SubscriberCounts'
  BY <1>22, SameSubscribers DEF MutationAnswered, Bumped, Goto, leaseVars, localVars
<1>23. ASSUME NEW q \in Requests, Subscribe(q) PROVE SubscriberCounts'
  <2>1. /\ pc[q] = "serving" /\ pc' = [pc EXCEPT ![q] = "subscribed"] /\ UNCHANGED route
        /\ subscribers' = [subscribers EXCEPT ![route[q]] = @ + 1]
    BY <1>23 DEF Subscribe, Goto, localVars
  <2>2. ASSUME NEW r \in Routes, r # route[q]
        PROVE  SubscribedAt(r)' = SubscribedAt(r) /\ subscribers'[r] = subscribers[r]
    BY <2>1, <2>2 DEF SubscribedAt
  <2>3. SubscribedAt(route[q])' = SubscribedAt(route[q]) \cup {q} /\ q \notin SubscribedAt(route[q])
    BY <2>1 DEF SubscribedAt
  <2>4. /\ IsFiniteSet(SubscribedAt(route[q])')
        /\ Cardinality(SubscribedAt(route[q])') = Cardinality(SubscribedAt(route[q])) + 1
    BY <2>3, FS_AddElement DEF SubscriberCounts
  <2>5. /\ subscribers[route[q]] = Cardinality(SubscribedAt(route[q]))
        /\ subscribers'[route[q]] = Cardinality(SubscribedAt(route[q])')
    <3>1. /\ route[q] \in Routes /\ subscribers[route[q]] \in Nat
          /\ subscribers[route[q]] = Cardinality(SubscribedAt(route[q]))
      BY DEF SubscriberCounts
    <3>2. SubscribedAt(route[q]) # {} => subscribers[route[q]] > 0
      BY <3>1, FS_EmptySet, FS_CardinalityType DEF SubscriberCounts
    <3>3. QED
      BY <2>1, <2>3, <2>4, <3>1, <3>2
  <2>6. ASSUME NEW r \in Routes
        PROVE  IsFiniteSet(SubscribedAt(r)') /\ subscribers'[r] = Cardinality(SubscribedAt(r)')
    <3>1. CASE r = route[q]
      BY <2>1, <2>4, <2>5, <3>1
    <3>2. CASE r # route[q]
      BY <2>2, <3>2 DEF SubscriberCounts
    <3>3. QED
      BY <3>1, <3>2
  <2>7. QED
    BY <2>6 DEF SubscriberCounts
<1>24. ASSUME NEW q \in Requests, Unsubscribe(q) PROVE SubscriberCounts'
  <2>1. /\ pc[q] = "subscribed" /\ pc' = [pc EXCEPT ![q] = "leaving"] /\ UNCHANGED route
        /\ subscribers' = [subscribers EXCEPT ![route[q]] = IF @ > 0 THEN @ - 1 ELSE 0]
    BY <1>24 DEF Unsubscribe, Goto, localVars
  <2>2. ASSUME NEW r \in Routes, r # route[q]
        PROVE  SubscribedAt(r)' = SubscribedAt(r) /\ subscribers'[r] = subscribers[r]
    BY <2>1, <2>2 DEF SubscribedAt
  <2>3. SubscribedAt(route[q])' = SubscribedAt(route[q]) \ {q} /\ q \in SubscribedAt(route[q])
    BY <2>1 DEF SubscribedAt
  <2>4. /\ IsFiniteSet(SubscribedAt(route[q])')
        /\ Cardinality(SubscribedAt(route[q])') = Cardinality(SubscribedAt(route[q])) - 1
    BY <2>3, FS_RemoveElement DEF SubscriberCounts
  <2>5. /\ subscribers[route[q]] = Cardinality(SubscribedAt(route[q]))
        /\ subscribers'[route[q]] = Cardinality(SubscribedAt(route[q])')
    <3>1. /\ route[q] \in Routes /\ subscribers[route[q]] \in Nat
          /\ subscribers[route[q]] = Cardinality(SubscribedAt(route[q]))
      BY DEF SubscriberCounts
    <3>2. SubscribedAt(route[q]) # {} => subscribers[route[q]] > 0
      BY <3>1, FS_EmptySet, FS_CardinalityType DEF SubscriberCounts
    <3>3. QED
      BY <2>1, <2>3, <2>4, <3>1, <3>2
  <2>6. ASSUME NEW r \in Routes
        PROVE  IsFiniteSet(SubscribedAt(r)') /\ subscribers'[r] = Cardinality(SubscribedAt(r)')
    <3>1. CASE r = route[q]
      BY <2>1, <2>4, <2>5, <3>1
    <3>2. CASE r # route[q]
      BY <2>2, <3>2 DEF SubscriberCounts
    <3>3. QED
      BY <3>1, <3>2
  <2>7. QED
    BY <2>6 DEF SubscriberCounts
<1>25. ASSUME NEW q \in Requests, Release(q) PROVE SubscriberCounts'
  BY <1>25, SameSubscribers DEF Release, Goto
<1>26. ASSUME NEW q \in Requests, AbandonQueued(q) PROVE SubscriberCounts'
  BY <1>26, SameSubscribers DEF AbandonQueued, AfterAbandon, Goto, leaseVars, localVars
<1>27. ASSUME NEW q \in Requests, AbandonRunning(q) PROVE SubscriberCounts'
  BY <1>27, SameSubscribers DEF AbandonRunning, AfterAbandon, Goto, leaseVars, localVars
<1>28. ASSUME NEW q \in Requests, AnswerLost(q) PROVE SubscriberCounts'
  BY <1>28, SameSubscribers DEF AnswerLost, AfterAbandon, Goto, leaseVars, localVars
<1>29. ASSUME NEW b \in Backends, CompleteJob(b) PROVE SubscriberCounts'
  <2>1. UNCHANGED <<subscribers, route>>
    BY <1>29 DEF CompleteJob, leaseVars, localVars
  <2>2. \A q \in Requests : \/ pc'[q] = pc[q]
                            \/ pc[q] = "switching" /\ pc'[q] = "switched"
                            \/ pc[q] = "mutating" /\ pc'[q] = "answered"
    BY <1>29, Completed
  <2>3. QED
    BY <2>1, <2>2, SameSubscribers
<1>30. ASSUME NEW r \in Routes, EndRetire(r) PROVE SubscriberCounts'
  BY <1>30, Waked, SameSubscribers DEF EndRetire, leaseVars, localVars
<1>31. ASSUME UNCHANGED seen PROVE SubscriberCounts'
  BY <1>31, SameSubscribers
<1>32. ASSUME NEW b \in Backends,
             WatchEvent(b)
      PROVE  UNCHANGED seen
  BY <1>32 DEF WatchEvent, leaseVars, localVars
<1>33. ASSUME NEW r \in Routes,
             FireTimer(r) \/ Retire(r) \/ RetireDeclined(r) \/ RetireSuperseded(r)
             \/ RetireStop(r) \/ FlipDisk(r) \/ MarkShutting(r) \/ StopReady(r)
             \/ StopLater(r) \/ StopAfterTransition(r) \/ DrainBackend(r)
      PROVE  UNCHANGED seen
  BY <1>33 DEF FireTimer, Retire, RetireDeclined, RetireSuperseded, RetireStop, FlipDisk,
     MarkShutting, Round, StopReady, StopBackend, StopLater, StopAfterTransition,
     DrainBackend, leaseVars, localVars
<1>34. ASSUME NEW o \in Openers,
             OpenResolve(o) \/ OpenLookup(o) \/ OpenRecord(o) \/ OpenReserve(o)
      PROVE  UNCHANGED seen
  BY <1>34 DEF OpenResolve, OpenLookup, OpenRecord, OpenReserve, leaseVars, localVars
<1>35. ASSUME BeginShutdown \/ EndLoop PROVE UNCHANGED seen
  BY <1>35 DEF BeginShutdown, EndLoop, leaseVars, localVars
<1>36. CASE UNCHANGED vars
  BY <1>36, <1>31 DEF vars, leaseVars, localVars
<1>37. QED
  BY <1>2, <1>3, <1>4, <1>5, <1>6, <1>7, <1>8, <1>9, <1>10, <1>11, <1>12, <1>13, <1>14,
     <1>15, <1>16, <1>17, <1>18, <1>19, <1>20, <1>21, <1>22, <1>23, <1>24, <1>25, <1>26,
     <1>27, <1>28, <1>29, <1>30, <1>31, <1>32, <1>33, <1>34, <1>35, <1>36
     DEF Next, RequestStep, EnsureStep, ContextEnds, RetireStep, ShutdownStep, OpenStep,
         Quiescent

\* A request in its handler has its route's backend.
LEMMA LeasesHoldStep == Inv /\ [Next]_vars => LeasesHold'
<1> SUFFICES ASSUME Inv, [Next]_vars PROVE LeasesHold'
  OBVIOUS
<1> DEFINE seen == <<pc, srv, session, route>>
<1>0. TypeOK /\ Ownership /\ SessionsAtHome /\ RetiringAtHome /\ Activators /\ Carriers
      /\ LeasesHold /\ Callers /\ ActiveCounts /\ Captures /\ Loops
  BY DEF Inv, BackendsHaveHomes, Leases, Shutdown
<1>1. /\ pc \in [Requests -> PCs] /\ srv \in [Requests -> Backends \cup {None}]
      /\ session \in [Routes -> Backends \cup {None}] /\ route \in [Requests -> Routes]
      /\ active \in [Routes -> Nat]
  BY <1>0 DEF TypeOK, EntryTypes, LeaseTypes, RequestTypes
<1> USE RegistryAssumption, <1>0, <1>1 DEF LeasesHold, Leased
<1>2. ASSUME NEW q \in Requests, Arrive(q) PROVE LeasesHold'
  BY <1>2 DEF Arrive, Goto, entryVars
<1>3. ASSUME NEW q \in Requests, EnsureRefused(q) PROVE LeasesHold'
  BY <1>3 DEF EnsureRefused, Goto, entryVars, localVars
<1>4. ASSUME NEW q \in Requests, EnsureWaits(q) PROVE LeasesHold'
  BY <1>4 DEF EnsureWaits, Goto, entryVars, localVars
<1>5. ASSUME NEW q \in Requests, EnsureReady(q) PROVE LeasesHold'
  BY <1>5 DEF EnsureReady, Goto, entryVars, localVars
<1>6. ASSUME NEW q \in Requests, BeginTransition(q) PROVE LeasesHold'
  BY <1>6 DEF BeginTransition, Goto
<1>7. ASSUME NEW q \in Requests, GiveUp(q) PROVE LeasesHold'
  BY <1>7 DEF GiveUp, Goto, entryVars, localVars
<1>8. ASSUME NEW q \in Requests, SameCapability(q) PROVE LeasesHold'
  BY <1>8 DEF SameCapability, Goto, entryVars, localVars
<1>9. ASSUME NEW q \in Requests, SwitchTo(q) PROVE LeasesHold'
  BY <1>9 DEF SwitchTo, Enqueue, Goto, entryVars, localVars
<1>10. ASSUME NEW q \in Requests, SwitchNotAccepted(q) PROVE LeasesHold'
  BY <1>10 DEF SwitchNotAccepted, Goto, entryVars, localVars
<1>11. ASSUME NEW q \in Requests, StartWatcher(q) PROVE LeasesHold'
  BY <1>11 DEF StartWatcher, Goto, entryVars, localVars
<1>12. ASSUME NEW q \in Requests, EndRefresh(q) PROVE LeasesHold'
  BY <1>12, Waked DEF EndRefresh
<1>13. ASSUME NEW q \in Requests, Activate(q) PROVE LeasesHold'
  BY <1>13 DEF Activate, Goto, entryVars
<1>14. ASSUME NEW q \in Requests, ActivateFails(q) PROVE LeasesHold'
  BY <1>14 DEF ActivateFails, Goto, entryVars, localVars
<1>15. ASSUME NEW q \in Requests, Publish(q) PROVE LeasesHold'
  BY <1>15 DEF Publish, Goto, Activators, Activating
<1>16. ASSUME NEW q \in Requests, PublishRefused(q) PROVE LeasesHold'
  BY <1>16 DEF PublishRefused, Goto, entryVars, localVars
<1>17. ASSUME NEW q \in Requests, Discard(q) PROVE LeasesHold'
  BY <1>17 DEF Discard, Goto, entryVars
<1>18. ASSUME NEW q \in Requests, EndActivation(q) PROVE LeasesHold'
  BY <1>18, Waked DEF EndActivation, entryVars
<1>19. ASSUME NEW q \in Requests, Acquire(q) PROVE LeasesHold'
  BY <1>19 DEF Acquire, Goto, entryVars
<1>20. ASSUME NEW q \in Requests, AcquireAgain(q) PROVE LeasesHold'
  BY <1>20 DEF AcquireAgain, Goto, entryVars, localVars
<1>21. ASSUME NEW q \in Requests, Mutate(q) PROVE LeasesHold'
  BY <1>21 DEF Mutate, Enqueue, Goto, entryVars, localVars
<1>22. ASSUME NEW q \in Requests, MutationAnswered(q) PROVE LeasesHold'
  BY <1>22 DEF MutationAnswered, Bumped, Goto, entryVars, localVars
<1>23. ASSUME NEW q \in Requests, Subscribe(q) PROVE LeasesHold'
  BY <1>23 DEF Subscribe, Goto, entryVars, localVars
<1>24. ASSUME NEW q \in Requests, Unsubscribe(q) PROVE LeasesHold'
  BY <1>24 DEF Unsubscribe, Goto, entryVars, localVars
<1>25. ASSUME NEW q \in Requests, Release(q) PROVE LeasesHold'
  BY <1>25 DEF Release, Goto, entryVars
<1>26. ASSUME NEW q \in Requests, AbandonQueued(q) PROVE LeasesHold'
  BY <1>26 DEF AbandonQueued, AfterAbandon, Goto, entryVars, localVars
<1>27. ASSUME NEW q \in Requests, AbandonRunning(q) PROVE LeasesHold'
  BY <1>27 DEF AbandonRunning, AfterAbandon, Goto, entryVars, localVars
<1>28. ASSUME NEW q \in Requests, AnswerLost(q) PROVE LeasesHold'
  BY <1>28 DEF AnswerLost, AfterAbandon, Goto, entryVars, localVars
<1>29. ASSUME NEW b \in Backends, CompleteJob(b) PROVE LeasesHold'
  <2>1. UNCHANGED <<srv, session, route>>
    BY <1>29 DEF CompleteJob, entryVars, localVars
  <2>2. \A q \in Requests : \/ pc'[q] = pc[q]
                            \/ pc[q] = "switching" /\ pc'[q] = "switched"
                            \/ pc[q] = "mutating" /\ pc'[q] = "answered"
    BY <1>29, Completed
  <2>3. QED
    BY <2>1, <2>2
<1>30. ASSUME NEW r \in Routes, Retire(r) PROVE LeasesHold'
  BY <1>30, Idle DEF Retire, Retirable, localVars
<1>31. ASSUME NEW r \in Routes, EndRetire(r) PROVE LeasesHold'
  BY <1>31, Waked DEF EndRetire, localVars
<1>32. ASSUME NEW r \in Routes, DrainBackend(r) PROVE LeasesHold'
  BY <1>32, Drained, Idle DEF localVars
<1>33. ASSUME UNCHANGED seen PROVE LeasesHold'
  BY <1>33
<1>34. ASSUME NEW b \in Backends,
             WatchEvent(b)
      PROVE  UNCHANGED seen
  BY <1>34 DEF WatchEvent, entryVars, localVars
<1>35. ASSUME NEW r \in Routes,
             FireTimer(r) \/ RetireDeclined(r) \/ RetireSuperseded(r) \/ RetireStop(r)
             \/ FlipDisk(r) \/ MarkShutting(r) \/ StopReady(r) \/ StopLater(r)
             \/ StopAfterTransition(r)
      PROVE  UNCHANGED seen
  BY <1>35 DEF FireTimer, RetireDeclined, RetireSuperseded, RetireStop, FlipDisk,
     MarkShutting, Round, StopReady, StopBackend, StopLater, StopAfterTransition, entryVars,
     localVars
<1>36. ASSUME NEW o \in Openers,
             OpenResolve(o) \/ OpenLookup(o) \/ OpenRecord(o) \/ OpenReserve(o)
      PROVE  UNCHANGED seen
  BY <1>36 DEF OpenResolve, OpenLookup, OpenRecord, OpenReserve, entryVars, localVars
<1>37. ASSUME BeginShutdown \/ EndLoop PROVE UNCHANGED seen
  BY <1>37 DEF BeginShutdown, EndLoop, entryVars, localVars
<1>38. CASE UNCHANGED vars
  BY <1>38, <1>33 DEF vars, entryVars, localVars
<1>39. QED
  BY <1>2, <1>3, <1>4, <1>5, <1>6, <1>7, <1>8, <1>9, <1>10, <1>11, <1>12, <1>13, <1>14,
     <1>15, <1>16, <1>17, <1>18, <1>19, <1>20, <1>21, <1>22, <1>23, <1>24, <1>25, <1>26,
     <1>27, <1>28, <1>29, <1>30, <1>31, <1>32, <1>33, <1>34, <1>35, <1>36, <1>37, <1>38
     DEF Next, RequestStep, EnsureStep, ContextEnds, RetireStep, ShutdownStep, OpenStep,
         Quiescent

\* Only shutdown stops a published backend.
LEMMA OpenUntilClosingStep == Inv /\ [Next]_vars => OpenUntilClosing'
<1> SUFFICES ASSUME Inv, [Next]_vars PROVE OpenUntilClosing'
  OBVIOUS
<1> DEFINE seen == <<session, stage, closing, shutting>>
<1>0. TypeOK /\ Ownership /\ SessionsAtHome /\ RetiringAtHome /\ Activators /\ Carriers
      /\ OpenUntilClosing /\ Loops
  BY DEF Inv, BackendsHaveHomes, Shutdown
<1>1. /\ session \in [Routes -> Backends \cup {None}]
      /\ stage \in [Backends -> {"closed", "open", "stopped"}] /\ closing \in BOOLEAN
      /\ shutting \in [Routes -> BOOLEAN] /\ retiring \in [Routes -> Backends \cup {None}]
      /\ pc \in [Requests -> PCs] /\ srv \in [Requests -> Backends \cup {None}]
      /\ route \in [Requests -> Routes]
  BY <1>0 DEF TypeOK, EntryTypes, BackendTypes, RequestTypes
<1> USE RegistryAssumption, <1>0, <1>1 DEF OpenUntilClosing
<1>2. ASSUME NEW q \in Requests, Activate(q) PROVE OpenUntilClosing'
  BY <1>2 DEF Activate, registryVars, entryVars
<1>3. ASSUME NEW q \in Requests, Publish(q) PROVE OpenUntilClosing'
  BY <1>3 DEF Publish, registryVars, Carriers, Carrying
<1>4. ASSUME NEW q \in Requests, Discard(q) PROVE OpenUntilClosing'
  BY <1>4, Apart DEF Discard, registryVars, entryVars, Carrying
<1>5. ASSUME NEW r \in Routes, Retire(r) PROVE OpenUntilClosing'
  BY <1>5, Apart DEF Retire, Retirable, registryVars, backendVars
<1>6. ASSUME NEW r \in Routes, RetireStop(r) PROVE OpenUntilClosing'
  BY <1>6, Apart DEF RetireStop, registryVars, entryVars
<1>7. ASSUME NEW r \in Routes, EndRetire(r) PROVE OpenUntilClosing'
  BY <1>7, Apart DEF EndRetire, Woken, registryVars, RetiringAtHome
<1>8. ASSUME NEW r \in Routes, MarkShutting(r) PROVE OpenUntilClosing'
  BY <1>8 DEF MarkShutting, Round, entryVars, backendVars, Loops
<1>9. ASSUME NEW r \in Routes, StopReady(r) PROVE OpenUntilClosing'
  BY <1>9, Apart DEF StopReady, Round, StopBackend, registryVars, entryVars, Loops
<1>10. ASSUME NEW r \in Routes, StopAfterTransition(r) PROVE OpenUntilClosing'
  BY <1>10, Apart DEF StopAfterTransition, Round, StopBackend, registryVars, entryVars,
     Loops
<1>11. ASSUME NEW r \in Routes, DrainBackend(r) PROVE OpenUntilClosing'
  BY <1>11 DEF DrainBackend, Round, registryVars, Loops
<1>12. CASE BeginShutdown
  BY <1>12 DEF BeginShutdown, entryVars, backendVars
<1>13. ASSUME UNCHANGED seen PROVE OpenUntilClosing'
  BY <1>13
<1>14. ASSUME NEW q \in Requests,
             Arrive(q) \/ EnsureRefused(q) \/ EnsureWaits(q) \/ EnsureReady(q)
             \/ BeginTransition(q) \/ GiveUp(q) \/ SameCapability(q) \/ SwitchTo(q)
             \/ SwitchNotAccepted(q) \/ StartWatcher(q) \/ EndRefresh(q)
             \/ ActivateFails(q) \/ PublishRefused(q) \/ EndActivation(q) \/ Acquire(q)
             \/ AcquireAgain(q) \/ Mutate(q) \/ MutationAnswered(q) \/ Subscribe(q)
             \/ Unsubscribe(q) \/ Release(q) \/ AbandonQueued(q) \/ AbandonRunning(q)
             \/ AnswerLost(q)
      PROVE  UNCHANGED seen
  BY <1>14 DEF Arrive, EnsureRefused, EnsureWaits, EnsureReady, BeginTransition, GiveUp,
     SameCapability, SwitchTo, Enqueue, SwitchNotAccepted, StartWatcher, EndRefresh,
     ActivateFails, PublishRefused, EndActivation, Acquire, AcquireAgain, Mutate,
     MutationAnswered, Subscribe, Unsubscribe, ScheduleDormancy, Release, AbandonQueued,
     AbandonRunning, AnswerLost, registryVars, entryVars, backendVars
<1>15. ASSUME NEW b \in Backends,
             CompleteJob(b) \/ WatchEvent(b)
      PROVE  UNCHANGED seen
  BY <1>15 DEF CompleteJob, WatchEvent, registryVars, entryVars
<1>16. ASSUME NEW r \in Routes,
             FireTimer(r) \/ RetireDeclined(r) \/ RetireSuperseded(r) \/ FlipDisk(r)
             \/ StopLater(r)
      PROVE  UNCHANGED seen
  BY <1>16 DEF FireTimer, RetireDeclined, RetireSuperseded, FlipDisk, StopLater, Round,
     registryVars, entryVars, backendVars
<1>17. ASSUME NEW o \in Openers,
             OpenResolve(o) \/ OpenLookup(o) \/ OpenRecord(o) \/ OpenReserve(o)
      PROVE  UNCHANGED seen
  BY <1>17 DEF OpenResolve, OpenLookup, OpenRecord, OpenReserve, registryVars, entryVars,
     backendVars
<1>18. ASSUME EndLoop PROVE UNCHANGED seen
  BY <1>18 DEF EndLoop, registryVars, entryVars, backendVars
<1>19. CASE UNCHANGED vars
  BY <1>19, <1>13 DEF vars, registryVars, entryVars, backendVars
<1>20. QED
  BY <1>2, <1>3, <1>4, <1>5, <1>6, <1>7, <1>8, <1>9, <1>10, <1>11, <1>12, <1>13, <1>14,
     <1>15, <1>16, <1>17, <1>18, <1>19
     DEF Next, RequestStep, EnsureStep, ContextEnds, RetireStep, ShutdownStep, OpenStep,
         Quiescent

\* A timer is set only while its route is idle.
LEMMA TimerOnlyWhenIdleStep == Inv /\ [Next]_vars => TimerOnlyWhenIdle'
<1> SUFFICES ASSUME Inv, [Next]_vars PROVE TimerOnlyWhenIdle'
  OBVIOUS
<1> DEFINE seen == <<closing, dormancy, session, active, subscribers, transition>>
<1>0. TypeOK /\ TimerOnlyWhenIdle /\ KnownRoutes /\ Owners /\ Retirers /\ Captures /\ Loops
      /\ OpenUntilClosing
  BY DEF Inv, Ownership, Shutdown
<1>1. /\ closing \in BOOLEAN
      /\ dormancy \in [Routes -> {"none", "armed", "fired", "spent"}]
      /\ session \in [Routes -> Backends \cup {None}] /\ active \in [Routes -> Nat]
      /\ subscribers \in [Routes -> Nat]
      /\ transition \in [Routes -> Requests \cup {Retirer, None}]
      /\ pc \in [Requests -> PCs] /\ route \in [Requests -> Routes]
      /\ shutting \in [Routes -> BOOLEAN]
  BY <1>0 DEF TypeOK, EntryTypes, LeaseTypes, RequestTypes
<1> USE RegistryAssumption, <1>0, <1>1 DEF TimerOnlyWhenIdle
<1>2. ASSUME NEW q \in Requests, EnsureRefused(q) PROVE TimerOnlyWhenIdle'
  BY <1>2 DEF EnsureRefused, CancelDormancy, registryVars, entryVars, leaseVars
<1>3. ASSUME NEW q \in Requests, EnsureWaits(q) PROVE TimerOnlyWhenIdle'
  BY <1>3 DEF EnsureWaits, CancelDormancy, registryVars, entryVars, leaseVars
<1>4. ASSUME NEW q \in Requests, EnsureReady(q) PROVE TimerOnlyWhenIdle'
  BY <1>4 DEF EnsureReady, CancelDormancy, registryVars, entryVars, leaseVars
<1>5. ASSUME NEW q \in Requests, BeginTransition(q) PROVE TimerOnlyWhenIdle'
  BY <1>5 DEF BeginTransition, CancelDormancy, registryVars, leaseVars
<1>6. ASSUME NEW q \in Requests, EndRefresh(q) PROVE TimerOnlyWhenIdle'
  BY <1>6 DEF EndRefresh, EndTransition, Woken, registryVars, leaseVars, timerVars
<1>7. ASSUME NEW q \in Requests, Publish(q) PROVE TimerOnlyWhenIdle'
  BY <1>7 DEF Publish, registryVars, leaseVars, timerVars, Owners, Owning
<1>8. ASSUME NEW q \in Requests, EndActivation(q) PROVE TimerOnlyWhenIdle'
  BY <1>8 DEF EndActivation, EndTransition, Woken, registryVars, entryVars, leaseVars,
     timerVars
<1>9. ASSUME NEW q \in Requests, Acquire(q) PROVE TimerOnlyWhenIdle'
  BY <1>9 DEF Acquire, CancelDormancy, registryVars, entryVars
<1>10. ASSUME NEW q \in Requests, Subscribe(q) PROVE TimerOnlyWhenIdle'
  BY <1>10 DEF Subscribe, CancelDormancy, registryVars, entryVars
<1>11. ASSUME NEW q \in Requests, Unsubscribe(q) PROVE TimerOnlyWhenIdle'
  BY <1>11 DEF Unsubscribe, ScheduleDormancy, registryVars, entryVars
<1>12. ASSUME NEW q \in Requests, Release(q) PROVE TimerOnlyWhenIdle'
  BY <1>12 DEF Release, ScheduleDormancy, registryVars, entryVars
<1>13. ASSUME NEW r \in Routes, FireTimer(r) PROVE TimerOnlyWhenIdle'
  BY <1>13 DEF FireTimer, registryVars, entryVars, leaseVars
<1>14. ASSUME NEW r \in Routes, Retire(r) PROVE TimerOnlyWhenIdle'
  BY <1>14 DEF Retire, Retirable, registryVars, leaseVars
<1>15. ASSUME NEW r \in Routes, RetireDeclined(r) PROVE TimerOnlyWhenIdle'
  BY <1>15 DEF RetireDeclined, Retirable, registryVars, entryVars, leaseVars, Refusing,
     OpenUntilClosing
<1>16. ASSUME NEW r \in Routes, EndRetire(r) PROVE TimerOnlyWhenIdle'
  BY <1>16 DEF EndRetire, EndTransition, Woken, registryVars, leaseVars, timerVars
<1>17. ASSUME NEW r \in Routes, MarkShutting(r) PROVE TimerOnlyWhenIdle'
  BY <1>17 DEF MarkShutting, Round, CancelDormancy, entryVars, leaseVars
<1>18. ASSUME NEW r \in Routes, DrainBackend(r) PROVE TimerOnlyWhenIdle'
  BY <1>18 DEF DrainBackend, Round, registryVars, leaseVars, timerVars, Loops
<1>19. CASE BeginShutdown
  BY <1>19 DEF BeginShutdown, entryVars, leaseVars, timerVars
<1>20. ASSUME UNCHANGED seen PROVE TimerOnlyWhenIdle'
  BY <1>20
<1>21. ASSUME NEW q \in Requests,
             Arrive(q) \/ GiveUp(q) \/ SameCapability(q) \/ SwitchTo(q)
             \/ SwitchNotAccepted(q) \/ StartWatcher(q) \/ Activate(q) \/ ActivateFails(q)
             \/ PublishRefused(q) \/ Discard(q) \/ AcquireAgain(q) \/ Mutate(q)
             \/ MutationAnswered(q) \/ AbandonQueued(q) \/ AbandonRunning(q)
             \/ AnswerLost(q)
      PROVE  UNCHANGED seen
  BY <1>21 DEF Arrive, GiveUp, SameCapability, SwitchTo, Enqueue, SwitchNotAccepted,
     StartWatcher, Activate, ActivateFails, PublishRefused, Discard, AcquireAgain, Mutate,
     MutationAnswered, AbandonQueued, AbandonRunning, AnswerLost, registryVars, entryVars,
     leaseVars, timerVars
<1>22. ASSUME NEW b \in Backends,
             CompleteJob(b) \/ WatchEvent(b)
      PROVE  UNCHANGED seen
  BY <1>22 DEF CompleteJob, WatchEvent, registryVars, entryVars, leaseVars, timerVars
<1>23. ASSUME NEW r \in Routes,
             RetireSuperseded(r) \/ RetireStop(r) \/ FlipDisk(r) \/ StopReady(r)
             \/ StopLater(r) \/ StopAfterTransition(r)
      PROVE  UNCHANGED seen
  BY <1>23 DEF RetireSuperseded, RetireStop, FlipDisk, StopReady, Round, StopBackend,
     StopLater, StopAfterTransition, registryVars, entryVars, leaseVars, timerVars
<1>24. ASSUME NEW o \in Openers,
             OpenResolve(o) \/ OpenLookup(o) \/ OpenRecord(o) \/ OpenReserve(o)
      PROVE  UNCHANGED seen
  BY <1>24 DEF OpenResolve, OpenLookup, OpenRecord, OpenReserve, registryVars, entryVars,
     leaseVars, timerVars
<1>25. ASSUME EndLoop PROVE UNCHANGED seen
  BY <1>25 DEF EndLoop, registryVars, entryVars, leaseVars, timerVars
<1>26. CASE UNCHANGED vars
  BY <1>26, <1>20 DEF vars, registryVars, entryVars, leaseVars, timerVars
<1>27. QED
  BY <1>2, <1>3, <1>4, <1>5, <1>6, <1>7, <1>8, <1>9, <1>10, <1>11, <1>12, <1>13, <1>14,
     <1>15, <1>16, <1>17, <1>18, <1>19, <1>20, <1>21, <1>22, <1>23, <1>24, <1>25, <1>26
     DEF Next, RequestStep, EnsureStep, ContextEnds, RetireStep, ShutdownStep, OpenStep,
         Quiescent

-----------------------------------------------------------------------------
(* Generations: a revived backend starts above what was answered.         *)

\* No server has answered with more than its generation.
LEMMA ServedSoFarStep == Inv /\ [Next]_vars => ServedSoFar'
<1> SUFFICES ASSUME Inv, [Next]_vars PROVE ServedSoFar'
  OBVIOUS
<1> DEFINE seen == <<session, retiring, served, gen>>
<1>0. TypeOK /\ Ownership /\ SessionsAtHome /\ RetiringAtHome /\ Activators /\ Carriers
      /\ ServedSoFar /\ PublishedIsAhead /\ LeasesHold /\ Captures /\ Loops
  BY DEF Inv, BackendsHaveHomes, Leases, Generations, Shutdown
<1>1. /\ session \in [Routes -> Backends \cup {None}]
      /\ retiring \in [Routes -> Backends \cup {None}] /\ served \in [Routes -> Nat]
      /\ gen \in [Backends -> Nat] /\ pc \in [Requests -> PCs]
      /\ route \in [Requests -> Routes] /\ srv \in [Requests -> Backends \cup {None}]
      /\ stage \in [Backends -> {"closed", "open", "stopped"}]
      /\ home \in [Backends -> Routes] /\ generation \in [Routes -> Nat]
  BY <1>0 DEF TypeOK, EntryTypes, BackendTypes, RequestTypes
<1> USE RegistryAssumption, <1>0, <1>1 DEF ServedSoFar
<1>2. ASSUME NEW q \in Requests, Activate(q) PROVE ServedSoFar'
  BY <1>2, Apart DEF Activate, entryVars, SessionsAtHome, RetiringAtHome
<1>3. ASSUME NEW q \in Requests, Publish(q) PROVE ServedSoFar'
  <2>0. srv[q] \in Backends /\ gen[srv[q]] \in Nat /\ session[route[q]] = None
    BY <1>3 DEF Publish, Carriers, Carrying, Activators, Activating
  <2>1. retiring[route[q]] = None
    BY <1>3 DEF Publish, Ownership, Owners, Owning, Retirers
  <2>2. /\ session' = [session EXCEPT ![route[q]] = srv[q]] /\ UNCHANGED <<gen, retiring>>
        /\ served' = [served EXCEPT ![route[q]] = IF gen[srv[q]] > @ THEN gen[srv[q]] ELSE @]
    BY <1>3 DEF Publish, Answered
  <2>3. served[route[q]] <= gen[srv[q]]
    BY <1>3, <2>0 DEF Publish, Refusing, PublishedIsAhead
  <2>4. QED
    BY <2>0, <2>1, <2>2, <2>3
<1>4. ASSUME NEW q \in Requests, MutationAnswered(q) PROVE ServedSoFar'
  <2>1. srv[q] \in Backends /\ session[route[q]] = srv[q] /\ home[srv[q]] = route[q]
    BY <1>4 DEF MutationAnswered, LeasesHold, Leased, SessionsAtHome
  <2>2. CASE UNCHANGED <<gen, served>>
    BY <1>4, <2>2 DEF MutationAnswered, entryVars
  <2>3. CASE gen' = [gen EXCEPT ![srv[q]] = Bumped(@)] /\ Answered(home[srv[q]], gen'[srv[q]])
    <3>1. /\ Bumped(gen[srv[q]]) \in Nat /\ Bumped(gen[srv[q]]) >= gen[srv[q]]
      BY <2>1 DEF Bumped
    <3> DEFINE n == Bumped(gen[srv[q]])
    <3>2. /\ gen' = [gen EXCEPT ![srv[q]] = n] /\ UNCHANGED <<session, retiring>>
          /\ served' = [served EXCEPT ![route[q]] = IF n > @ THEN n ELSE @]
      BY <1>4, <2>1, <2>3 DEF Answered, MutationAnswered, entryVars
    <3> HIDE DEF n
    <3>3. ASSUME NEW r \in Routes, r # route[q]
          PROVE  session[r] # srv[q] /\ retiring[r] # srv[q]
      BY <2>1, <3>3, Apart
    <3>4. retiring[route[q]] = None
      BY <2>1 DEF SessionsAtHome
    <3>5. n \in Nat /\ n >= gen[srv[q]]
      BY <3>1 DEF n
    <3>6. QED
      BY <2>1, <3>2, <3>3, <3>4, <3>5
  <2>4. QED
    BY <1>4, <2>2, <2>3 DEF MutationAnswered
<1>5. ASSUME NEW b \in Backends, WatchEvent(b) PROVE ServedSoFar'
  <2> DEFINE n == Bumped(gen[b])
  <2>1. n \in Nat /\ n >= gen[b] /\ gen' = [gen EXCEPT ![b] = n] /\ UNCHANGED <<session, retiring>>
    BY <1>5 DEF WatchEvent, Bumped, entryVars
  <2> HIDE DEF n
  <2>2. CASE Published(b) /\ served' = [served EXCEPT ![home[b]] = IF n > @ THEN n ELSE @]
    BY <2>1, <2>2, Apart DEF Published, SessionsAtHome, RetiringAtHome
  <2>3. CASE UNCHANGED served
    BY <2>1, <2>3
  <2>4. gen'[b] = n
    BY <2>1
  <2>5. QED
    BY <1>5, <2>2, <2>3, <2>4 DEF WatchEvent, Answered
<1>6. ASSUME NEW r \in Routes, Retire(r) PROVE ServedSoFar'
  BY <1>6, Apart DEF Retire, Retirable, backendVars
<1>7. ASSUME NEW r \in Routes, EndRetire(r) PROVE ServedSoFar'
  BY <1>7 DEF EndRetire, Woken
<1>8. ASSUME NEW r \in Routes, DrainBackend(r) PROVE ServedSoFar'
  BY <1>8 DEF DrainBackend, Round
<1>9. ASSUME UNCHANGED seen PROVE ServedSoFar'
  BY <1>9
<1>10. ASSUME NEW q \in Requests,
             Arrive(q) \/ EnsureRefused(q) \/ EnsureWaits(q) \/ EnsureReady(q)
             \/ BeginTransition(q) \/ GiveUp(q) \/ SameCapability(q) \/ SwitchTo(q)
             \/ SwitchNotAccepted(q) \/ StartWatcher(q) \/ EndRefresh(q)
             \/ ActivateFails(q) \/ PublishRefused(q) \/ Discard(q) \/ EndActivation(q)
             \/ Acquire(q) \/ AcquireAgain(q) \/ Mutate(q) \/ Subscribe(q)
             \/ Unsubscribe(q) \/ Release(q) \/ AbandonQueued(q) \/ AbandonRunning(q)
             \/ AnswerLost(q)
      PROVE  UNCHANGED seen
  BY <1>10 DEF Arrive, EnsureRefused, EnsureWaits, EnsureReady, BeginTransition, GiveUp,
     SameCapability, SwitchTo, Enqueue, SwitchNotAccepted, StartWatcher, EndRefresh,
     ActivateFails, PublishRefused, Discard, EndActivation, Acquire, AcquireAgain, Mutate,
     Subscribe, Unsubscribe, ScheduleDormancy, Release, AbandonQueued, AbandonRunning,
     AnswerLost, entryVars, backendVars
<1>11. ASSUME NEW b \in Backends,
             CompleteJob(b)
      PROVE  UNCHANGED seen
  BY <1>11 DEF CompleteJob, entryVars
<1>12. ASSUME NEW r \in Routes,
             FireTimer(r) \/ RetireDeclined(r) \/ RetireSuperseded(r) \/ RetireStop(r)
             \/ FlipDisk(r) \/ MarkShutting(r) \/ StopReady(r) \/ StopLater(r)
             \/ StopAfterTransition(r)
      PROVE  UNCHANGED seen
  BY <1>12 DEF FireTimer, RetireDeclined, RetireSuperseded, RetireStop, FlipDisk,
     MarkShutting, Round, StopReady, StopBackend, StopLater, StopAfterTransition, entryVars,
     backendVars
<1>13. ASSUME NEW o \in Openers,
             OpenResolve(o) \/ OpenLookup(o) \/ OpenRecord(o) \/ OpenReserve(o)
      PROVE  UNCHANGED seen
  BY <1>13 DEF OpenResolve, OpenLookup, OpenRecord, OpenReserve, entryVars, backendVars
<1>14. ASSUME BeginShutdown \/ EndLoop PROVE UNCHANGED seen
  BY <1>14 DEF BeginShutdown, EndLoop, entryVars, backendVars
<1>15. CASE UNCHANGED vars
  BY <1>15, <1>9 DEF vars, entryVars, backendVars
<1>16. QED
  BY <1>2, <1>3, <1>4, <1>5, <1>6, <1>7, <1>8, <1>9, <1>10, <1>11, <1>12, <1>13, <1>14,
     <1>15
     DEF Next, RequestStep, EnsureStep, ContextEnds, RetireStep, ShutdownStep, OpenStep,
         Quiescent

\* The next backend starts with more.
LEMMA NextIsAheadStep == Inv /\ [Next]_vars => NextIsAhead'
<1> SUFFICES ASSUME Inv, [Next]_vars PROVE NextIsAhead'
  OBVIOUS
<1> DEFINE seen == <<session, retiring, served, closing, generation>>
<1>0. TypeOK /\ Ownership /\ SessionsAtHome /\ RetiringAtHome /\ Activators /\ Carriers
      /\ NextIsAhead /\ ServedSoFar /\ LeasesHold /\ Captures /\ Loops
  BY DEF Inv, BackendsHaveHomes, Leases, Generations, Shutdown
<1>1. /\ session \in [Routes -> Backends \cup {None}]
      /\ retiring \in [Routes -> Backends \cup {None}] /\ served \in [Routes -> Nat]
      /\ closing \in BOOLEAN /\ generation \in [Routes -> Nat] /\ pc \in [Requests -> PCs]
      /\ route \in [Requests -> Routes] /\ srv \in [Requests -> Backends \cup {None}]
      /\ gen \in [Backends -> Nat] /\ home \in [Backends -> Routes]
      /\ transition \in [Routes -> Requests \cup {Retirer, None}]
  BY <1>0 DEF TypeOK, EntryTypes, LeaseTypes, BackendTypes, RequestTypes
<1> USE RegistryAssumption, <1>0, <1>1 DEF NextIsAhead
<1>2. ASSUME NEW q \in Requests, Publish(q) PROVE NextIsAhead'
  BY <1>2 DEF Publish, Answered, registryVars, Carriers, Carrying
<1>3. ASSUME NEW q \in Requests, MutationAnswered(q) PROVE NextIsAhead'
  BY <1>3 DEF MutationAnswered, Bumped, Answered, registryVars, entryVars, LeasesHold,
     Leased, SessionsAtHome
<1>4. ASSUME NEW b \in Backends, WatchEvent(b) PROVE NextIsAhead'
  BY <1>4 DEF WatchEvent, Bumped, Answered, Published, registryVars, entryVars,
     SessionsAtHome, RetiringAtHome
<1>5. ASSUME NEW r \in Routes, Retire(r) PROVE NextIsAhead'
  BY <1>5 DEF Retire, Retirable, registryVars, backendVars
<1>6. ASSUME NEW r \in Routes, EndRetire(r) PROVE NextIsAhead'
  BY <1>6, Apart DEF EndRetire, Woken, registryVars, ServedSoFar
<1>7. ASSUME NEW r \in Routes, DrainBackend(r) PROVE NextIsAhead'
  BY <1>7 DEF DrainBackend, Round, registryVars, Loops
<1>8. CASE BeginShutdown
  BY <1>8 DEF BeginShutdown, entryVars, backendVars
<1>9. ASSUME UNCHANGED seen PROVE NextIsAhead'
  BY <1>9
<1>10. ASSUME NEW q \in Requests,
             Arrive(q) \/ EnsureRefused(q) \/ EnsureWaits(q) \/ EnsureReady(q)
             \/ BeginTransition(q) \/ GiveUp(q) \/ SameCapability(q) \/ SwitchTo(q)
             \/ SwitchNotAccepted(q) \/ StartWatcher(q) \/ EndRefresh(q) \/ Activate(q)
             \/ ActivateFails(q) \/ PublishRefused(q) \/ Discard(q) \/ EndActivation(q)
             \/ Acquire(q) \/ AcquireAgain(q) \/ Mutate(q) \/ Subscribe(q)
             \/ Unsubscribe(q) \/ Release(q) \/ AbandonQueued(q) \/ AbandonRunning(q)
             \/ AnswerLost(q)
      PROVE  UNCHANGED seen
  BY <1>10 DEF Arrive, EnsureRefused, EnsureWaits, EnsureReady, BeginTransition, GiveUp,
     SameCapability, SwitchTo, Enqueue, SwitchNotAccepted, StartWatcher, EndRefresh,
     Activate, ActivateFails, PublishRefused, Discard, EndActivation, Acquire, AcquireAgain,
     Mutate, Subscribe, Unsubscribe, ScheduleDormancy, Release, AbandonQueued,
     AbandonRunning, AnswerLost, registryVars, entryVars, backendVars
<1>11. ASSUME NEW b \in Backends,
             CompleteJob(b)
      PROVE  UNCHANGED seen
  BY <1>11 DEF CompleteJob, registryVars, entryVars
<1>12. ASSUME NEW r \in Routes,
             FireTimer(r) \/ RetireDeclined(r) \/ RetireSuperseded(r) \/ RetireStop(r)
             \/ FlipDisk(r) \/ MarkShutting(r) \/ StopReady(r) \/ StopLater(r)
             \/ StopAfterTransition(r)
      PROVE  UNCHANGED seen
  BY <1>12 DEF FireTimer, RetireDeclined, RetireSuperseded, RetireStop, FlipDisk,
     MarkShutting, Round, StopReady, StopBackend, StopLater, StopAfterTransition,
     registryVars, entryVars, backendVars
<1>13. ASSUME NEW o \in Openers,
             OpenResolve(o) \/ OpenLookup(o) \/ OpenRecord(o) \/ OpenReserve(o)
      PROVE  UNCHANGED seen
  BY <1>13 DEF OpenResolve, OpenLookup, OpenRecord, OpenReserve, registryVars, entryVars,
     backendVars
<1>14. ASSUME EndLoop PROVE UNCHANGED seen
  BY <1>14 DEF EndLoop, registryVars, entryVars, backendVars
<1>15. CASE UNCHANGED vars
  BY <1>15, <1>9 DEF vars, registryVars, entryVars, backendVars
<1>16. QED
  BY <1>2, <1>3, <1>4, <1>5, <1>6, <1>7, <1>8, <1>9, <1>10, <1>11, <1>12, <1>13, <1>14,
     <1>15
     DEF Next, RequestStep, EnsureStep, ContextEnds, RetireStep, ShutdownStep, OpenStep,
         Quiescent

\* A backend is published with more than was answered before.
LEMMA PublishedIsAheadStep == Inv /\ [Next]_vars => PublishedIsAhead'
<1> SUFFICES ASSUME Inv, [Next]_vars PROVE PublishedIsAhead'
  OBVIOUS
<1> DEFINE seen == <<served, gen, closing, pc, route, srv>>
<1>0. TypeOK /\ Ownership /\ SessionsAtHome /\ RetiringAtHome /\ Activators /\ Carriers
      /\ PublishedIsAhead /\ NextIsAhead /\ LeasesHold /\ Callers /\ Captures /\ Loops
  BY DEF Inv, BackendsHaveHomes, Leases, Generations, Shutdown
<1>1. /\ served \in [Routes -> Nat] /\ gen \in [Backends -> Nat] /\ closing \in BOOLEAN
      /\ pc \in [Requests -> PCs] /\ route \in [Requests -> Routes]
      /\ srv \in [Requests -> Backends \cup {None}]
      /\ session \in [Routes -> Backends \cup {None}]
      /\ retiring \in [Routes -> Backends \cup {None}] /\ home \in [Backends -> Routes]
      /\ stage \in [Backends -> {"closed", "open", "stopped"}]
      /\ generation \in [Routes -> Nat]
      /\ transition \in [Routes -> Requests \cup {Retirer, None}]
  BY <1>0 DEF TypeOK, EntryTypes, LeaseTypes, BackendTypes, RequestTypes
<1> USE RegistryAssumption, <1>0, <1>1 DEF PublishedIsAhead
<1>2. ASSUME NEW q \in Requests, Arrive(q) PROVE PublishedIsAhead'
  BY <1>2 DEF Arrive, Goto, registryVars, backendVars
<1>3. ASSUME NEW q \in Requests, EnsureRefused(q) PROVE PublishedIsAhead'
  BY <1>3 DEF EnsureRefused, Goto, registryVars, backendVars, localVars
<1>4. ASSUME NEW q \in Requests, EnsureWaits(q) PROVE PublishedIsAhead'
  BY <1>4 DEF EnsureWaits, Goto, registryVars, backendVars, localVars
<1>5. ASSUME NEW q \in Requests, EnsureReady(q) PROVE PublishedIsAhead'
  BY <1>5 DEF EnsureReady, Goto, registryVars, backendVars, localVars
<1>6. ASSUME NEW q \in Requests, BeginTransition(q) PROVE PublishedIsAhead'
  BY <1>6 DEF BeginTransition, Goto, registryVars, backendVars
<1>7. ASSUME NEW q \in Requests, GiveUp(q) PROVE PublishedIsAhead'
  BY <1>7 DEF GiveUp, Goto, registryVars, backendVars, localVars
<1>8. ASSUME NEW q \in Requests, SameCapability(q) PROVE PublishedIsAhead'
  BY <1>8 DEF SameCapability, Goto, registryVars, backendVars, localVars
<1>9. ASSUME NEW q \in Requests, SwitchTo(q) PROVE PublishedIsAhead'
  BY <1>9 DEF SwitchTo, Enqueue, Goto, registryVars, localVars
<1>10. ASSUME NEW q \in Requests, SwitchNotAccepted(q) PROVE PublishedIsAhead'
  BY <1>10 DEF SwitchNotAccepted, Goto, registryVars, backendVars, localVars
<1>11. ASSUME NEW q \in Requests, StartWatcher(q) PROVE PublishedIsAhead'
  BY <1>11 DEF StartWatcher, Goto, registryVars, localVars
<1>12. ASSUME NEW q \in Requests, EndRefresh(q) PROVE PublishedIsAhead'
  BY <1>12, Waked DEF EndRefresh, registryVars, backendVars
<1>13. ASSUME NEW q \in Requests, Activate(q) PROVE PublishedIsAhead'
  BY <1>13, Apart DEF Activate, Goto, registryVars, NextIsAhead, Activators, Activating,
     Ownership, Owners, Owning, Retirers, Carriers, Carrying
<1>14. ASSUME NEW q \in Requests, ActivateFails(q) PROVE PublishedIsAhead'
  BY <1>14 DEF ActivateFails, Goto, registryVars, backendVars, localVars
<1>15. ASSUME NEW q \in Requests, Publish(q) PROVE PublishedIsAhead'
  BY <1>15 DEF Publish, Answered, Goto, registryVars, Ownership, Owners, Owning
<1>16. ASSUME NEW q \in Requests, PublishRefused(q) PROVE PublishedIsAhead'
  BY <1>16 DEF PublishRefused, Goto, registryVars, backendVars, localVars
<1>17. ASSUME NEW q \in Requests, Discard(q) PROVE PublishedIsAhead'
  BY <1>17 DEF Discard, Goto, registryVars
<1>18. ASSUME NEW q \in Requests, EndActivation(q) PROVE PublishedIsAhead'
  BY <1>18, Waked DEF EndActivation, registryVars, backendVars
<1>19. ASSUME NEW q \in Requests, Acquire(q) PROVE PublishedIsAhead'
  BY <1>19 DEF Acquire, Goto, registryVars, backendVars
<1>20. ASSUME NEW q \in Requests, AcquireAgain(q) PROVE PublishedIsAhead'
  BY <1>20 DEF AcquireAgain, Goto, registryVars, backendVars, localVars
<1>21. ASSUME NEW q \in Requests, Mutate(q) PROVE PublishedIsAhead'
  BY <1>21 DEF Mutate, Enqueue, Goto, registryVars, localVars
<1>22. ASSUME NEW q \in Requests, MutationAnswered(q) PROVE PublishedIsAhead'
  <2>1. srv[q] \in Backends /\ session[route[q]] = srv[q] /\ home[srv[q]] = route[q]
    BY <1>22 DEF MutationAnswered, LeasesHold, Leased, SessionsAtHome
  <2>2. ASSUME NEW p \in Requests, pc[p] = "publish"
        PROVE  route[p] # route[q] /\ srv[p] # srv[q]
    BY <2>1, <2>2 DEF Carriers, Carrying, Activators, Activating
  <2>3. UNCHANGED <<closing, route, srv>> /\ pc' = [pc EXCEPT ![q] = "leaving"]
    BY <1>22 DEF MutationAnswered, Goto, registryVars, localVars
  <2>4. CASE UNCHANGED <<gen, served>>
    BY <2>3, <2>4
  <2>5. CASE gen' = [gen EXCEPT ![srv[q]] = Bumped(@)] /\ Answered(home[srv[q]], gen'[srv[q]])
    <3>1. ASSUME NEW p \in Requests, pc[p] = "publish"
          PROVE  served'[route[p]] = served[route[p]] /\ gen'[srv[p]] = gen[srv[p]]
      BY <2>1, <2>2, <2>5, <3>1 DEF Answered, Carriers, Carrying
    <3>2. QED
      BY <2>3, <3>1
  <2>6. QED
    BY <1>22, <2>4, <2>5 DEF MutationAnswered
<1>23. ASSUME NEW q \in Requests, Subscribe(q) PROVE PublishedIsAhead'
  BY <1>23 DEF Subscribe, Goto, registryVars, backendVars, localVars
<1>24. ASSUME NEW q \in Requests, Unsubscribe(q) PROVE PublishedIsAhead'
  BY <1>24 DEF Unsubscribe, Goto, registryVars, backendVars, localVars
<1>25. ASSUME NEW q \in Requests, Release(q) PROVE PublishedIsAhead'
  BY <1>25 DEF Release, Goto, registryVars, backendVars
<1>26. ASSUME NEW q \in Requests, AbandonQueued(q) PROVE PublishedIsAhead'
  BY <1>26 DEF AbandonQueued, AfterAbandon, Goto, registryVars, localVars
<1>27. ASSUME NEW q \in Requests, AbandonRunning(q) PROVE PublishedIsAhead'
  BY <1>27 DEF AbandonRunning, AfterAbandon, Goto, registryVars, localVars
<1>28. ASSUME NEW q \in Requests, AnswerLost(q) PROVE PublishedIsAhead'
  BY <1>28 DEF AnswerLost, AfterAbandon, Goto, registryVars, backendVars, localVars
<1>29. ASSUME NEW b \in Backends, CompleteJob(b) PROVE PublishedIsAhead'
  <2>1. UNCHANGED <<served, gen, closing, route, srv>>
    BY <1>29 DEF CompleteJob, registryVars, localVars
  <2>2. \A q \in Requests : \/ pc'[q] = pc[q]
                            \/ pc[q] = "switching" /\ pc'[q] = "switched"
                            \/ pc[q] = "mutating" /\ pc'[q] = "answered"
    BY <1>29, Completed
  <2>3. QED
    BY <2>1, <2>2
<1>30. ASSUME NEW b \in Backends, WatchEvent(b) PROVE PublishedIsAhead'
  <2> DEFINE n == Bumped(gen[b])
  <2>1. /\ n \in Nat /\ n >= gen[b] /\ gen' = [gen EXCEPT ![b] = n]
        /\ UNCHANGED <<closing, pc, route, srv>>
    BY <1>30 DEF WatchEvent, Bumped, registryVars, localVars
  <2> HIDE DEF n
  <2>2. ASSUME NEW q \in Requests, pc[q] = "publish" PROVE served'[route[q]] = served[route[q]]
    <3>1. srv[q] \in Backends /\ home[srv[q]] = route[q] /\ session[route[q]] = None
      BY <2>2 DEF Carriers, Carrying, Activators, Activating
    <3>2. Published(b) => b # srv[q] /\ home[b] # route[q]
      BY <2>2, <3>1, Apart DEF Published, SessionsAtHome, RetiringAtHome, Carrying,
         Ownership, Owners, Owning, Retirers
    <3>3. QED
      BY <1>30, <3>2 DEF WatchEvent, Answered
  <2>3. QED
    BY <2>1, <2>2 DEF Carriers, Carrying
<1>31. ASSUME NEW r \in Routes, EndRetire(r) PROVE PublishedIsAhead'
  BY <1>31, Waked DEF EndRetire, registryVars, localVars
<1>32. CASE BeginShutdown
  BY <1>32 DEF BeginShutdown, backendVars, localVars
<1>33. ASSUME UNCHANGED seen PROVE PublishedIsAhead'
  BY <1>33
<1>34. ASSUME NEW r \in Routes,
             FireTimer(r) \/ Retire(r) \/ RetireDeclined(r) \/ RetireSuperseded(r)
             \/ RetireStop(r) \/ FlipDisk(r) \/ MarkShutting(r) \/ StopReady(r)
             \/ StopLater(r) \/ StopAfterTransition(r) \/ DrainBackend(r)
      PROVE  UNCHANGED seen
  BY <1>34 DEF FireTimer, Retire, RetireDeclined, RetireSuperseded, RetireStop, FlipDisk,
     MarkShutting, Round, StopReady, StopBackend, StopLater, StopAfterTransition,
     DrainBackend, registryVars, backendVars, localVars
<1>35. ASSUME NEW o \in Openers,
             OpenResolve(o) \/ OpenLookup(o) \/ OpenRecord(o) \/ OpenReserve(o)
      PROVE  UNCHANGED seen
  BY <1>35 DEF OpenResolve, OpenLookup, OpenRecord, OpenReserve, registryVars, backendVars,
     localVars
<1>36. ASSUME EndLoop PROVE UNCHANGED seen
  BY <1>36 DEF EndLoop, registryVars, backendVars, localVars
<1>37. CASE UNCHANGED vars
  BY <1>37, <1>33 DEF vars, registryVars, backendVars, localVars
<1>38. QED
  BY <1>2, <1>3, <1>4, <1>5, <1>6, <1>7, <1>8, <1>9, <1>10, <1>11, <1>12, <1>13, <1>14,
     <1>15, <1>16, <1>17, <1>18, <1>19, <1>20, <1>21, <1>22, <1>23, <1>24, <1>25, <1>26,
     <1>27, <1>28, <1>29, <1>30, <1>31, <1>32, <1>33, <1>34, <1>35, <1>36, <1>37
     DEF Next, RequestStep, EnsureStep, ContextEnds, RetireStep, ShutdownStep, OpenStep,
         Quiescent

\* A route that has a backend again starts above what it answered with.
Advances ==
  \A r \in Routes : session[r] = None /\ session'[r] # None => gen[session'[r]] > served[r]

\* Only Publish gives a route a backend.
LEMMA RevivedStep == Inv /\ [Next]_vars => Advances
<1> SUFFICES ASSUME Inv, [Next]_vars PROVE Advances
  OBVIOUS
<1> DEFINE seen == <<session>>
<1>0. TypeOK /\ PublishedIsAhead /\ Carriers
  BY DEF Inv, BackendsHaveHomes, Generations
<1>1. /\ session \in [Routes -> Backends \cup {None}] /\ gen \in [Backends -> Nat]
      /\ served \in [Routes -> Nat] /\ pc \in [Requests -> PCs]
      /\ route \in [Requests -> Routes] /\ srv \in [Requests -> Backends \cup {None}]
  BY <1>0 DEF TypeOK, EntryTypes, BackendTypes, RequestTypes
<1> USE RegistryAssumption, <1>0, <1>1 DEF Advances
<1>2. ASSUME NEW q \in Requests, Publish(q) PROVE Advances
  <2>1. pc[q] = "publish" /\ ~closing /\ session' = [session EXCEPT ![route[q]] = srv[q]]
    BY <1>2 DEF Publish, Refusing
  <2>2. srv[q] \in Backends /\ served[route[q]] < gen[srv[q]]
    BY <2>1 DEF Carriers, Carrying, PublishedIsAhead
  <2>3. QED
    BY <2>1, <2>2
<1>3. ASSUME NEW r \in Routes, Retire(r) PROVE Advances
  BY <1>3 DEF Retire, Retirable
<1>4. ASSUME NEW r \in Routes, DrainBackend(r) PROVE Advances
  BY <1>4 DEF DrainBackend, Round
<1>5. ASSUME UNCHANGED seen PROVE Advances
  BY <1>5
<1>6. ASSUME NEW q \in Requests,
             Arrive(q) \/ EnsureRefused(q) \/ EnsureWaits(q) \/ EnsureReady(q)
             \/ BeginTransition(q) \/ GiveUp(q) \/ SameCapability(q) \/ SwitchTo(q)
             \/ SwitchNotAccepted(q) \/ StartWatcher(q) \/ EndRefresh(q) \/ Activate(q)
             \/ ActivateFails(q) \/ PublishRefused(q) \/ Discard(q) \/ EndActivation(q)
             \/ Acquire(q) \/ AcquireAgain(q) \/ Mutate(q) \/ MutationAnswered(q)
             \/ Subscribe(q) \/ Unsubscribe(q) \/ Release(q) \/ AbandonQueued(q)
             \/ AbandonRunning(q) \/ AnswerLost(q)
      PROVE  UNCHANGED seen
  BY <1>6 DEF Arrive, EnsureRefused, EnsureWaits, EnsureReady, BeginTransition, GiveUp,
     SameCapability, SwitchTo, Enqueue, SwitchNotAccepted, StartWatcher, EndRefresh,
     Activate, ActivateFails, PublishRefused, Discard, EndActivation, Acquire, AcquireAgain,
     Mutate, MutationAnswered, Subscribe, Unsubscribe, ScheduleDormancy, Release,
     AbandonQueued, AbandonRunning, AnswerLost, entryVars
<1>7. ASSUME NEW b \in Backends,
             CompleteJob(b) \/ WatchEvent(b)
      PROVE  UNCHANGED seen
  BY <1>7 DEF CompleteJob, WatchEvent, entryVars
<1>8. ASSUME NEW r \in Routes,
             FireTimer(r) \/ RetireDeclined(r) \/ RetireSuperseded(r) \/ RetireStop(r)
             \/ EndRetire(r) \/ FlipDisk(r) \/ MarkShutting(r) \/ StopReady(r)
             \/ StopLater(r) \/ StopAfterTransition(r)
      PROVE  UNCHANGED seen
  BY <1>8 DEF FireTimer, RetireDeclined, RetireSuperseded, RetireStop, EndRetire, FlipDisk,
     MarkShutting, Round, StopReady, StopBackend, StopLater, StopAfterTransition, entryVars
<1>9. ASSUME NEW o \in Openers,
             OpenResolve(o) \/ OpenLookup(o) \/ OpenRecord(o) \/ OpenReserve(o)
      PROVE  UNCHANGED seen
  BY <1>9 DEF OpenResolve, OpenLookup, OpenRecord, OpenReserve, entryVars
<1>10. ASSUME BeginShutdown \/ EndLoop PROVE UNCHANGED seen
  BY <1>10 DEF BeginShutdown, EndLoop, entryVars
<1>11. CASE UNCHANGED vars
  BY <1>11, <1>5 DEF vars, entryVars
<1>12. QED
  BY <1>2, <1>3, <1>4, <1>5, <1>6, <1>7, <1>8, <1>9, <1>10, <1>11
     DEF Next, RequestStep, EnsureStep, ContextEnds, RetireStep, ShutdownStep, OpenStep,
         Quiescent

-----------------------------------------------------------------------------
(* Refreshes: the last capability asked for is the one in use.            *)

\* A refresh is not forgotten.
LEMMA SettledAgreeStep == Inv /\ [Next]_vars => SettledAgree'
<1> SUFFICES ASSUME Inv, [Next]_vars PROVE SettledAgree'
  OBVIOUS
<1> DEFINE seen == <<transition, session, orphaned, refreshPending, cap, repository>>
<1>0. TypeOK /\ Ownership /\ SessionsAtHome /\ RetiringAtHome /\ Activators /\ Carriers
      /\ KnownRoutes /\ Refreshers /\ Callers /\ SettledAgree /\ ActivatedAgree
      /\ RefreshesWantLast /\ SwitchesApply /\ Captures /\ Loops
  BY DEF Inv, BackendsHaveHomes, Refreshes, Shutdown
<1>1. /\ transition \in [Routes -> Requests \cup {Retirer, None}]
      /\ session \in [Routes -> Backends \cup {None}] /\ orphaned \in SUBSET Backends
      /\ refreshPending \in [Routes -> BOOLEAN] /\ cap \in [Backends -> Caps]
      /\ repository \in [Routes -> Caps] /\ pc \in [Requests -> PCs]
      /\ route \in [Requests -> Routes] /\ srv \in [Requests -> Backends \cup {None}]
      /\ want \in [Requests -> Caps] /\ retiring \in [Routes -> Backends \cup {None}]
      /\ stage \in [Backends -> {"closed", "open", "stopped"}]
  BY <1>0 DEF TypeOK, EntryTypes, LeaseTypes, BackendTypes, RequestTypes
<1> USE RegistryAssumption, <1>0, <1>1 DEF SettledAgree, Agreed
<1>2. ASSUME NEW q \in Requests, BeginTransition(q) PROVE SettledAgree'
  BY <1>2 DEF BeginTransition, backendVars
<1>3. ASSUME NEW q \in Requests, EndRefresh(q) PROVE SettledAgree'
  <2>1. /\ transition' = [transition EXCEPT ![route[q]] = None]
        /\ UNCHANGED <<session, orphaned, cap, repository>>
    BY <1>3 DEF EndRefresh, EndTransition, backendVars
  <2>2. CASE pc[q] = "refreshFailed"
    <3>1. refreshPending' = [refreshPending EXCEPT ![route[q]] = TRUE]
      BY <1>3, <2>2 DEF EndRefresh
    <3>2. QED
      BY <2>1, <3>1
  <2>3. CASE pc[q] = "refreshed"
    <3>1. UNCHANGED refreshPending
      BY <1>3, <2>3 DEF EndRefresh
    <3>2. Agreed(route[q])
      BY <2>3 DEF Refreshers, Refreshing, RefreshesWantLast, SwitchesApply
    <3>3. QED
      BY <2>1, <3>1, <3>2
  <2>4. QED
    BY <1>3, <2>2, <2>3 DEF EndRefresh
<1>4. ASSUME NEW q \in Requests, Activate(q) PROVE SettledAgree'
  BY <1>4 DEF Activate, entryVars, SessionsAtHome
<1>5. ASSUME NEW q \in Requests, Publish(q) PROVE SettledAgree'
  BY <1>5 DEF Publish, Ownership, Owners, Owning
<1>6. ASSUME NEW q \in Requests, EndActivation(q) PROVE SettledAgree'
  BY <1>6 DEF EndActivation, EndTransition, Woken, entryVars, backendVars, ActivatedAgree,
     Activators, Activating
<1>7. ASSUME NEW q \in Requests, AbandonRunning(q) PROVE SettledAgree'
  BY <1>7 DEF AbandonRunning, AfterAbandon, entryVars
<1>8. ASSUME NEW b \in Backends, CompleteJob(b) PROVE SettledAgree'
  <2>1. UNCHANGED <<transition, session, orphaned, refreshPending, repository>>
    BY <1>8 DEF CompleteJob, entryVars
  <2>2. QED
    BY <1>8, <2>1, Switches, Apart
<1>9. ASSUME NEW r \in Routes, Retire(r) PROVE SettledAgree'
  BY <1>9 DEF Retire, Retirable, backendVars
<1>10. ASSUME NEW r \in Routes, EndRetire(r) PROVE SettledAgree'
  BY <1>10 DEF EndRetire, EndTransition, Woken, SessionsAtHome
<1>11. ASSUME NEW r \in Routes, DrainBackend(r) PROVE SettledAgree'
  BY <1>11, Drained DEF DrainBackend, Round
<1>12. ASSUME NEW o \in Openers, OpenRecord(o) PROVE SettledAgree'
  BY <1>12 DEF OpenRecord, Opening, backendVars
<1>13. ASSUME NEW o \in Openers, OpenReserve(o) PROVE SettledAgree'
  BY <1>13 DEF OpenReserve, Opening, backendVars, KnownRoutes
<1>14. ASSUME UNCHANGED seen PROVE SettledAgree'
  BY <1>14
<1>15. ASSUME NEW q \in Requests,
             Arrive(q) \/ EnsureRefused(q) \/ EnsureWaits(q) \/ EnsureReady(q) \/ GiveUp(q)
             \/ SameCapability(q) \/ SwitchTo(q) \/ SwitchNotAccepted(q) \/ StartWatcher(q)
             \/ ActivateFails(q) \/ PublishRefused(q) \/ Discard(q) \/ Acquire(q)
             \/ AcquireAgain(q) \/ Mutate(q) \/ MutationAnswered(q) \/ Subscribe(q)
             \/ Unsubscribe(q) \/ Release(q) \/ AbandonQueued(q) \/ AnswerLost(q)
      PROVE  UNCHANGED seen
  BY <1>15 DEF Arrive, EnsureRefused, EnsureWaits, EnsureReady, GiveUp, SameCapability,
     SwitchTo, Enqueue, SwitchNotAccepted, StartWatcher, ActivateFails, PublishRefused,
     Discard, Acquire, AcquireAgain, Mutate, MutationAnswered, Subscribe, Unsubscribe,
     ScheduleDormancy, Release, AbandonQueued, AnswerLost, entryVars, backendVars
<1>16. ASSUME NEW b \in Backends,
             WatchEvent(b)
      PROVE  UNCHANGED seen
  BY <1>16 DEF WatchEvent, entryVars
<1>17. ASSUME NEW r \in Routes,
             FireTimer(r) \/ RetireDeclined(r) \/ RetireSuperseded(r) \/ RetireStop(r)
             \/ FlipDisk(r) \/ MarkShutting(r) \/ StopReady(r) \/ StopLater(r)
             \/ StopAfterTransition(r)
      PROVE  UNCHANGED seen
  BY <1>17 DEF FireTimer, RetireDeclined, RetireSuperseded, RetireStop, FlipDisk,
     MarkShutting, Round, StopReady, StopBackend, StopLater, StopAfterTransition, entryVars,
     backendVars
<1>18. ASSUME NEW o \in Openers,
             OpenResolve(o) \/ OpenLookup(o)
      PROVE  UNCHANGED seen
  BY <1>18 DEF OpenResolve, OpenLookup, entryVars, backendVars
<1>19. ASSUME BeginShutdown \/ EndLoop PROVE UNCHANGED seen
  BY <1>19 DEF BeginShutdown, EndLoop, entryVars, backendVars
<1>20. CASE UNCHANGED vars
  BY <1>20, <1>14 DEF vars, entryVars, backendVars
<1>21. QED
  BY <1>2, <1>3, <1>4, <1>5, <1>6, <1>7, <1>8, <1>9, <1>10, <1>11, <1>12, <1>13, <1>14,
     <1>15, <1>16, <1>17, <1>18, <1>19, <1>20
     DEF Next, RequestStep, EnsureStep, ContextEnds, RetireStep, ShutdownStep, OpenStep,
         Quiescent

\* Nor is one asked for while a backend is made.
LEMMA ActivatedAgreeStep == Inv /\ [Next]_vars => ActivatedAgree'
<1> SUFFICES ASSUME Inv, [Next]_vars PROVE ActivatedAgree'
  OBVIOUS
<1> DEFINE seen == <<pc, route, session, orphaned, refreshPending, cap, repository>>
<1>0. TypeOK /\ Ownership /\ SessionsAtHome /\ RetiringAtHome /\ Activators /\ Carriers
      /\ KnownRoutes /\ Refreshers /\ Callers /\ ActivatedAgree /\ Captures /\ Loops
  BY DEF Inv, BackendsHaveHomes, Refreshes, Shutdown
<1>1. /\ pc \in [Requests -> PCs] /\ route \in [Requests -> Routes]
      /\ session \in [Routes -> Backends \cup {None}] /\ orphaned \in SUBSET Backends
      /\ refreshPending \in [Routes -> BOOLEAN] /\ cap \in [Backends -> Caps]
      /\ repository \in [Routes -> Caps] /\ srv \in [Requests -> Backends \cup {None}]
      /\ want \in [Requests -> Caps]
      /\ transition \in [Routes -> Requests \cup {Retirer, None}]
      /\ stage \in [Backends -> {"closed", "open", "stopped"}] /\ known \in SUBSET Routes
  BY <1>0 DEF TypeOK, EntryTypes, LeaseTypes, BackendTypes, RequestTypes
<1> USE RegistryAssumption, <1>0, <1>1 DEF ActivatedAgree, Agreed
<1>2. ASSUME NEW q \in Requests, Arrive(q) PROVE ActivatedAgree'
  BY <1>2 DEF Arrive, Goto, entryVars, backendVars
<1>3. ASSUME NEW q \in Requests, EnsureRefused(q) PROVE ActivatedAgree'
  BY <1>3 DEF EnsureRefused, Goto, entryVars, backendVars, localVars
<1>4. ASSUME NEW q \in Requests, EnsureWaits(q) PROVE ActivatedAgree'
  BY <1>4 DEF EnsureWaits, Goto, entryVars, backendVars, localVars
<1>5. ASSUME NEW q \in Requests, EnsureReady(q) PROVE ActivatedAgree'
  BY <1>5 DEF EnsureReady, Goto, entryVars, backendVars, localVars
<1>6. ASSUME NEW q \in Requests, BeginTransition(q) PROVE ActivatedAgree'
  BY <1>6 DEF BeginTransition, Goto, backendVars, Ownership, Owners, Owning
<1>7. ASSUME NEW q \in Requests, GiveUp(q) PROVE ActivatedAgree'
  BY <1>7 DEF GiveUp, Goto, entryVars, backendVars, localVars
<1>8. ASSUME NEW q \in Requests, SameCapability(q) PROVE ActivatedAgree'
  BY <1>8 DEF SameCapability, Goto, entryVars, backendVars, localVars
<1>9. ASSUME NEW q \in Requests, SwitchTo(q) PROVE ActivatedAgree'
  BY <1>9 DEF SwitchTo, Enqueue, Goto, entryVars, localVars
<1>10. ASSUME NEW q \in Requests, SwitchNotAccepted(q) PROVE ActivatedAgree'
  BY <1>10 DEF SwitchNotAccepted, Goto, entryVars, backendVars, localVars
<1>11. ASSUME NEW q \in Requests, StartWatcher(q) PROVE ActivatedAgree'
  BY <1>11 DEF StartWatcher, Goto, entryVars, localVars
<1>12. ASSUME NEW q \in Requests, EndRefresh(q) PROVE ActivatedAgree'
  BY <1>12, Waked DEF EndRefresh, backendVars, Ownership, Owners, Owning
<1>13. ASSUME NEW q \in Requests, Activate(q) PROVE ActivatedAgree'
  BY <1>13 DEF Activate, Goto, entryVars, SessionsAtHome
<1>14. ASSUME NEW q \in Requests, ActivateFails(q) PROVE ActivatedAgree'
  BY <1>14 DEF ActivateFails, Goto, entryVars, backendVars, localVars
<1>15. ASSUME NEW q \in Requests, Publish(q) PROVE ActivatedAgree'
  BY <1>15 DEF Publish, Goto, Ownership, Owners, Owning
<1>16. ASSUME NEW q \in Requests, PublishRefused(q) PROVE ActivatedAgree'
  BY <1>16 DEF PublishRefused, Goto, entryVars, backendVars, localVars
<1>17. ASSUME NEW q \in Requests, Discard(q) PROVE ActivatedAgree'
  BY <1>17 DEF Discard, Goto, entryVars
<1>18. ASSUME NEW q \in Requests, EndActivation(q) PROVE ActivatedAgree'
  BY <1>18, Waked DEF EndActivation, entryVars, backendVars
<1>19. ASSUME NEW q \in Requests, Acquire(q) PROVE ActivatedAgree'
  BY <1>19 DEF Acquire, Goto, entryVars, backendVars
<1>20. ASSUME NEW q \in Requests, AcquireAgain(q) PROVE ActivatedAgree'
  BY <1>20 DEF AcquireAgain, Goto, entryVars, backendVars, localVars
<1>21. ASSUME NEW q \in Requests, Mutate(q) PROVE ActivatedAgree'
  BY <1>21 DEF Mutate, Enqueue, Goto, entryVars, localVars
<1>22. ASSUME NEW q \in Requests, MutationAnswered(q) PROVE ActivatedAgree'
  BY <1>22 DEF MutationAnswered, Bumped, Goto, entryVars, localVars
<1>23. ASSUME NEW q \in Requests, Subscribe(q) PROVE ActivatedAgree'
  BY <1>23 DEF Subscribe, Goto, entryVars, backendVars, localVars
<1>24. ASSUME NEW q \in Requests, Unsubscribe(q) PROVE ActivatedAgree'
  BY <1>24 DEF Unsubscribe, Goto, entryVars, backendVars, localVars
<1>25. ASSUME NEW q \in Requests, Release(q) PROVE ActivatedAgree'
  BY <1>25 DEF Release, Goto, entryVars, backendVars
<1>26. ASSUME NEW q \in Requests, AbandonQueued(q) PROVE ActivatedAgree'
  BY <1>26 DEF AbandonQueued, AfterAbandon, Goto, entryVars, localVars
<1>27. ASSUME NEW q \in Requests, AbandonRunning(q) PROVE ActivatedAgree'
  BY <1>27 DEF AbandonRunning, AfterAbandon, Goto, entryVars, localVars
<1>28. ASSUME NEW q \in Requests, AnswerLost(q) PROVE ActivatedAgree'
  BY <1>28 DEF AnswerLost, AfterAbandon, Goto, entryVars, backendVars, localVars
<1>29. ASSUME NEW b \in Backends, CompleteJob(b) PROVE ActivatedAgree'
  <2>1. UNCHANGED <<route, session, orphaned, refreshPending, repository>>
    BY <1>29 DEF CompleteJob, entryVars, localVars
  <2>2. ASSUME NEW p \in Requests, pc'[p] = "activated"
        PROVE  pc[p] = "activated" /\ transition[route[p]] = p
    <3>1. pc[p] = "activated"
      BY <1>29, <2>2, Completed
    <3>2. QED
      BY <3>1 DEF Ownership, Owners, Owning
  <2>3. QED
    BY <1>29, <2>1, <2>2, Switches, Apart
<1>30. ASSUME NEW r \in Routes, Retire(r) PROVE ActivatedAgree'
  BY <1>30 DEF Retire, Retirable, backendVars, localVars
<1>31. ASSUME NEW r \in Routes, EndRetire(r) PROVE ActivatedAgree'
  BY <1>31, Waked DEF EndRetire, localVars
<1>32. ASSUME NEW r \in Routes, DrainBackend(r) PROVE ActivatedAgree'
  BY <1>32, Drained DEF DrainBackend, Round, localVars
<1>33. ASSUME NEW o \in Openers, OpenRecord(o) PROVE ActivatedAgree'
  BY <1>33 DEF OpenRecord, Opening, backendVars, localVars
<1>34. ASSUME NEW o \in Openers, OpenReserve(o) PROVE ActivatedAgree'
  BY <1>34 DEF OpenReserve, Opening, backendVars, localVars, KnownRoutes
<1>35. ASSUME UNCHANGED seen PROVE ActivatedAgree'
  BY <1>35
<1>36. ASSUME NEW b \in Backends,
             WatchEvent(b)
      PROVE  UNCHANGED seen
  BY <1>36 DEF WatchEvent, entryVars, localVars
<1>37. ASSUME NEW r \in Routes,
             FireTimer(r) \/ RetireDeclined(r) \/ RetireSuperseded(r) \/ RetireStop(r)
             \/ FlipDisk(r) \/ MarkShutting(r) \/ StopReady(r) \/ StopLater(r)
             \/ StopAfterTransition(r)
      PROVE  UNCHANGED seen
  BY <1>37 DEF FireTimer, RetireDeclined, RetireSuperseded, RetireStop, FlipDisk,
     MarkShutting, Round, StopReady, StopBackend, StopLater, StopAfterTransition, entryVars,
     backendVars, localVars
<1>38. ASSUME NEW o \in Openers,
             OpenResolve(o) \/ OpenLookup(o)
      PROVE  UNCHANGED seen
  BY <1>38 DEF OpenResolve, OpenLookup, entryVars, backendVars, localVars
<1>39. ASSUME BeginShutdown \/ EndLoop PROVE UNCHANGED seen
  BY <1>39 DEF BeginShutdown, EndLoop, entryVars, backendVars, localVars
<1>40. CASE UNCHANGED vars
  BY <1>40, <1>35 DEF vars, entryVars, backendVars, localVars
<1>41. QED
  BY <1>2, <1>3, <1>4, <1>5, <1>6, <1>7, <1>8, <1>9, <1>10, <1>11, <1>12, <1>13, <1>14,
     <1>15, <1>16, <1>17, <1>18, <1>19, <1>20, <1>21, <1>22, <1>23, <1>24, <1>25, <1>26,
     <1>27, <1>28, <1>29, <1>30, <1>31, <1>32, <1>33, <1>34, <1>35, <1>36, <1>37, <1>38,
     <1>39, <1>40
     DEF Next, RequestStep, EnsureStep, ContextEnds, RetireStep, ShutdownStep, OpenStep,
         Quiescent

\* A refresh is towards what was asked for last.
LEMMA RefreshesWantLastStep == Inv /\ [Next]_vars => RefreshesWantLast'
<1> SUFFICES ASSUME Inv, [Next]_vars PROVE RefreshesWantLast'
  OBVIOUS
<1> DEFINE seen == <<pc, route, refreshPending, repository, want>>
<1>0. TypeOK /\ Ownership /\ SessionsAtHome /\ RetiringAtHome /\ Activators /\ Carriers
      /\ KnownRoutes /\ Refreshers /\ Callers /\ RefreshesWantLast
  BY DEF Inv, BackendsHaveHomes, Refreshes
<1>1. /\ pc \in [Requests -> PCs] /\ route \in [Requests -> Routes]
      /\ refreshPending \in [Routes -> BOOLEAN] /\ repository \in [Routes -> Caps]
      /\ want \in [Requests -> Caps] /\ srv \in [Requests -> Backends \cup {None}]
      /\ transition \in [Routes -> Requests \cup {Retirer, None}]
      /\ known \in SUBSET Routes
  BY <1>0 DEF TypeOK, EntryTypes, LeaseTypes, RequestTypes
<1> USE RegistryAssumption, <1>0, <1>1 DEF RefreshesWantLast, Refreshing
<1>2. ASSUME NEW q \in Requests, Arrive(q) PROVE RefreshesWantLast'
  BY <1>2 DEF Arrive, Goto, entryVars
<1>3. ASSUME NEW q \in Requests, EnsureRefused(q) PROVE RefreshesWantLast'
  BY <1>3 DEF EnsureRefused, Goto, entryVars, localVars
<1>4. ASSUME NEW q \in Requests, EnsureWaits(q) PROVE RefreshesWantLast'
  BY <1>4 DEF EnsureWaits, Goto, entryVars, localVars
<1>5. ASSUME NEW q \in Requests, EnsureReady(q) PROVE RefreshesWantLast'
  BY <1>5 DEF EnsureReady, Goto, entryVars, localVars
<1>6. ASSUME NEW q \in Requests, BeginTransition(q) PROVE RefreshesWantLast'
  BY <1>6 DEF BeginTransition, Goto, Ownership, Owners, Owning
<1>7. ASSUME NEW q \in Requests, GiveUp(q) PROVE RefreshesWantLast'
  BY <1>7 DEF GiveUp, Goto, entryVars, localVars
<1>8. ASSUME NEW q \in Requests, SameCapability(q) PROVE RefreshesWantLast'
  BY <1>8 DEF SameCapability, Goto, entryVars, localVars
<1>9. ASSUME NEW q \in Requests, SwitchTo(q) PROVE RefreshesWantLast'
  BY <1>9 DEF SwitchTo, Enqueue, Goto, entryVars, localVars
<1>10. ASSUME NEW q \in Requests, SwitchNotAccepted(q) PROVE RefreshesWantLast'
  BY <1>10 DEF SwitchNotAccepted, Goto, entryVars, localVars
<1>11. ASSUME NEW q \in Requests, StartWatcher(q) PROVE RefreshesWantLast'
  BY <1>11 DEF StartWatcher, Goto, entryVars, localVars
<1>12. ASSUME NEW q \in Requests, EndRefresh(q) PROVE RefreshesWantLast'
  BY <1>12, Waked DEF EndRefresh, Ownership, Owners, Owning
<1>13. ASSUME NEW q \in Requests, Activate(q) PROVE RefreshesWantLast'
  BY <1>13 DEF Activate, Goto, entryVars
<1>14. ASSUME NEW q \in Requests, ActivateFails(q) PROVE RefreshesWantLast'
  BY <1>14 DEF ActivateFails, Goto, entryVars, localVars
<1>15. ASSUME NEW q \in Requests, Publish(q) PROVE RefreshesWantLast'
  BY <1>15 DEF Publish, Goto, Ownership, Owners, Owning
<1>16. ASSUME NEW q \in Requests, PublishRefused(q) PROVE RefreshesWantLast'
  BY <1>16 DEF PublishRefused, Goto, entryVars, localVars
<1>17. ASSUME NEW q \in Requests, Discard(q) PROVE RefreshesWantLast'
  BY <1>17 DEF Discard, Goto, entryVars
<1>18. ASSUME NEW q \in Requests, EndActivation(q) PROVE RefreshesWantLast'
  BY <1>18, Waked DEF EndActivation, entryVars
<1>19. ASSUME NEW q \in Requests, Acquire(q) PROVE RefreshesWantLast'
  BY <1>19 DEF Acquire, Goto, entryVars
<1>20. ASSUME NEW q \in Requests, AcquireAgain(q) PROVE RefreshesWantLast'
  BY <1>20 DEF AcquireAgain, Goto, entryVars, localVars
<1>21. ASSUME NEW q \in Requests, Mutate(q) PROVE RefreshesWantLast'
  BY <1>21 DEF Mutate, Enqueue, Goto, entryVars, localVars
<1>22. ASSUME NEW q \in Requests, MutationAnswered(q) PROVE RefreshesWantLast'
  BY <1>22 DEF MutationAnswered, Bumped, Goto, entryVars, localVars
<1>23. ASSUME NEW q \in Requests, Subscribe(q) PROVE RefreshesWantLast'
  BY <1>23 DEF Subscribe, Goto, entryVars, localVars
<1>24. ASSUME NEW q \in Requests, Unsubscribe(q) PROVE RefreshesWantLast'
  BY <1>24 DEF Unsubscribe, Goto, entryVars, localVars
<1>25. ASSUME NEW q \in Requests, Release(q) PROVE RefreshesWantLast'
  BY <1>25 DEF Release, Goto, entryVars
<1>26. ASSUME NEW q \in Requests, AbandonQueued(q) PROVE RefreshesWantLast'
  BY <1>26 DEF AbandonQueued, AfterAbandon, Goto, entryVars, localVars
<1>27. ASSUME NEW q \in Requests, AbandonRunning(q) PROVE RefreshesWantLast'
  BY <1>27 DEF AbandonRunning, AfterAbandon, Goto, entryVars, localVars
<1>28. ASSUME NEW q \in Requests, AnswerLost(q) PROVE RefreshesWantLast'
  BY <1>28 DEF AnswerLost, AfterAbandon, Goto, entryVars, localVars
<1>29. ASSUME NEW b \in Backends, CompleteJob(b) PROVE RefreshesWantLast'
  <2>1. UNCHANGED <<route, refreshPending, repository, want>>
    BY <1>29 DEF CompleteJob, entryVars, localVars
  <2>2. \A q \in Requests : \/ pc'[q] = pc[q]
                            \/ pc[q] = "switching" /\ pc'[q] = "switched"
                            \/ pc[q] = "mutating" /\ pc'[q] = "answered"
    BY <1>29, Completed
  <2>3. QED
    BY <2>1, <2>2
<1>30. ASSUME NEW r \in Routes, EndRetire(r) PROVE RefreshesWantLast'
  BY <1>30, Waked DEF EndRetire, localVars
<1>31. ASSUME NEW o \in Openers, OpenRecord(o) PROVE RefreshesWantLast'
  BY <1>31 DEF OpenRecord, Opening, localVars
<1>32. ASSUME NEW o \in Openers, OpenReserve(o) PROVE RefreshesWantLast'
  BY <1>32 DEF OpenReserve, Opening, localVars, KnownRoutes
<1>33. ASSUME UNCHANGED seen PROVE RefreshesWantLast'
  BY <1>33
<1>34. ASSUME NEW b \in Backends,
             WatchEvent(b)
      PROVE  UNCHANGED seen
  BY <1>34 DEF WatchEvent, entryVars, localVars
<1>35. ASSUME NEW r \in Routes,
             FireTimer(r) \/ Retire(r) \/ RetireDeclined(r) \/ RetireSuperseded(r)
             \/ RetireStop(r) \/ FlipDisk(r) \/ MarkShutting(r) \/ StopReady(r)
             \/ StopLater(r) \/ StopAfterTransition(r) \/ DrainBackend(r)
      PROVE  UNCHANGED seen
  BY <1>35 DEF FireTimer, Retire, RetireDeclined, RetireSuperseded, RetireStop, FlipDisk,
     MarkShutting, Round, StopReady, StopBackend, StopLater, StopAfterTransition,
     DrainBackend, entryVars, localVars
<1>36. ASSUME NEW o \in Openers,
             OpenResolve(o) \/ OpenLookup(o)
      PROVE  UNCHANGED seen
  BY <1>36 DEF OpenResolve, OpenLookup, entryVars, localVars
<1>37. ASSUME BeginShutdown \/ EndLoop PROVE UNCHANGED seen
  BY <1>37 DEF BeginShutdown, EndLoop, entryVars, localVars
<1>38. CASE UNCHANGED vars
  BY <1>38, <1>33 DEF vars, entryVars, localVars
<1>39. QED
  BY <1>2, <1>3, <1>4, <1>5, <1>6, <1>7, <1>8, <1>9, <1>10, <1>11, <1>12, <1>13, <1>14,
     <1>15, <1>16, <1>17, <1>18, <1>19, <1>20, <1>21, <1>22, <1>23, <1>24, <1>25, <1>26,
     <1>27, <1>28, <1>29, <1>30, <1>31, <1>32, <1>33, <1>34, <1>35, <1>36, <1>37, <1>38
     DEF Next, RequestStep, EnsureStep, ContextEnds, RetireStep, ShutdownStep, OpenStep,
         Quiescent

\* A switch that was answered was made.
LEMMA SwitchesApplyStep == Inv /\ [Next]_vars => SwitchesApply'
<1> SUFFICES ASSUME Inv, [Next]_vars PROVE SwitchesApply'
  OBVIOUS
<1> DEFINE seen == <<pc, srv, orphaned, cap, want>>
<1>0. TypeOK /\ Ownership /\ SessionsAtHome /\ RetiringAtHome /\ Activators /\ Carriers
      /\ Refreshers /\ Callers /\ SwitchesApply
  BY DEF Inv, BackendsHaveHomes, Refreshes
<1>1. /\ pc \in [Requests -> PCs] /\ srv \in [Requests -> Backends \cup {None}]
      /\ orphaned \in SUBSET Backends /\ cap \in [Backends -> Caps]
      /\ want \in [Requests -> Caps] /\ route \in [Requests -> Routes]
      /\ transition \in [Routes -> Requests \cup {Retirer, None}]
      /\ session \in [Routes -> Backends \cup {None}]
      /\ stage \in [Backends -> {"closed", "open", "stopped"}]
      /\ jobs \in [Backends -> Seq(Job)]
  BY <1>0 DEF TypeOK, EntryTypes, LeaseTypes, BackendTypes, RequestTypes
<1> USE RegistryAssumption, <1>0, <1>1 DEF SwitchesApply, Refreshing
<1>2. ASSUME NEW q \in Requests, Arrive(q) PROVE SwitchesApply'
  BY <1>2 DEF Arrive, Goto, backendVars
<1>3. ASSUME NEW q \in Requests, EnsureRefused(q) PROVE SwitchesApply'
  BY <1>3 DEF EnsureRefused, Goto, backendVars, localVars
<1>4. ASSUME NEW q \in Requests, EnsureWaits(q) PROVE SwitchesApply'
  BY <1>4 DEF EnsureWaits, Goto, backendVars, localVars
<1>5. ASSUME NEW q \in Requests, EnsureReady(q) PROVE SwitchesApply'
  BY <1>5 DEF EnsureReady, Goto, backendVars, localVars
<1>6. ASSUME NEW q \in Requests, BeginTransition(q) PROVE SwitchesApply'
  BY <1>6 DEF BeginTransition, Goto, backendVars
<1>7. ASSUME NEW q \in Requests, GiveUp(q) PROVE SwitchesApply'
  BY <1>7 DEF GiveUp, Goto, backendVars, localVars
<1>8. ASSUME NEW q \in Requests, SameCapability(q) PROVE SwitchesApply'
  BY <1>8 DEF SameCapability, Goto, backendVars, localVars
<1>9. ASSUME NEW q \in Requests, SwitchTo(q) PROVE SwitchesApply'
  BY <1>9 DEF SwitchTo, Enqueue, Goto, localVars
<1>10. ASSUME NEW q \in Requests, SwitchNotAccepted(q) PROVE SwitchesApply'
  BY <1>10 DEF SwitchNotAccepted, Goto, backendVars, localVars
<1>11. ASSUME NEW q \in Requests, StartWatcher(q) PROVE SwitchesApply'
  BY <1>11 DEF StartWatcher, Goto, localVars
<1>12. ASSUME NEW q \in Requests, EndRefresh(q) PROVE SwitchesApply'
  BY <1>12, Waked DEF EndRefresh, backendVars
<1>13. ASSUME NEW q \in Requests, Activate(q) PROVE SwitchesApply'
  BY <1>13 DEF Activate, Goto, Refreshers, SessionsAtHome
<1>14. ASSUME NEW q \in Requests, ActivateFails(q) PROVE SwitchesApply'
  BY <1>14 DEF ActivateFails, Goto, backendVars, localVars
<1>15. ASSUME NEW q \in Requests, Publish(q) PROVE SwitchesApply'
  BY <1>15 DEF Publish, Goto
<1>16. ASSUME NEW q \in Requests, PublishRefused(q) PROVE SwitchesApply'
  BY <1>16 DEF PublishRefused, Goto, backendVars, localVars
<1>17. ASSUME NEW q \in Requests, Discard(q) PROVE SwitchesApply'
  BY <1>17 DEF Discard, Goto
<1>18. ASSUME NEW q \in Requests, EndActivation(q) PROVE SwitchesApply'
  BY <1>18, Waked DEF EndActivation, backendVars
<1>19. ASSUME NEW q \in Requests, Acquire(q) PROVE SwitchesApply'
  BY <1>19 DEF Acquire, Goto, backendVars
<1>20. ASSUME NEW q \in Requests, AcquireAgain(q) PROVE SwitchesApply'
  BY <1>20 DEF AcquireAgain, Goto, backendVars, localVars
<1>21. ASSUME NEW q \in Requests, Mutate(q) PROVE SwitchesApply'
  BY <1>21 DEF Mutate, Enqueue, Goto, localVars
<1>22. ASSUME NEW q \in Requests, MutationAnswered(q) PROVE SwitchesApply'
  BY <1>22 DEF MutationAnswered, Bumped, Goto, localVars
<1>23. ASSUME NEW q \in Requests, Subscribe(q) PROVE SwitchesApply'
  BY <1>23 DEF Subscribe, Goto, backendVars, localVars
<1>24. ASSUME NEW q \in Requests, Unsubscribe(q) PROVE SwitchesApply'
  BY <1>24 DEF Unsubscribe, Goto, backendVars, localVars
<1>25. ASSUME NEW q \in Requests, Release(q) PROVE SwitchesApply'
  BY <1>25 DEF Release, Goto, backendVars
<1>26. ASSUME NEW q \in Requests, AbandonQueued(q) PROVE SwitchesApply'
  BY <1>26 DEF AbandonQueued, AfterAbandon, Goto, localVars
<1>27. ASSUME NEW q \in Requests, AbandonRunning(q) PROVE SwitchesApply'
  BY <1>27 DEF AbandonRunning, AfterAbandon, Goto, localVars
<1>28. ASSUME NEW q \in Requests, AnswerLost(q) PROVE SwitchesApply'
  BY <1>28 DEF AnswerLost, AfterAbandon, Goto, backendVars, localVars
<1>29. ASSUME NEW b \in Backends, CompleteJob(b) PROVE SwitchesApply'
  <2>1. UNCHANGED <<srv, orphaned, want>>
    BY <1>29 DEF CompleteJob, localVars
  <2>2. ASSUME NEW p \in Requests, pc'[p] \in {"switched", "refreshed"}
        PROVE  srv[p] \in orphaned \/ cap'[srv[p]] = want[p]
    <3>1. CASE pc[p] \in {"switched", "refreshed"}
      <4>1. /\ transition[route[p]] = p /\ srv[p] \in Backends /\ session[route[p]] = srv[p]
            /\ srv[p] \in orphaned \/ cap[srv[p]] = want[p]
        BY <3>1 DEF Ownership, Owners, Owning, Refreshers
      <4>2. ASSUME NEW q \in Requests, pc[q] = "switching", srv[q] = b, srv[p] = b,
                   session[route[q]] = b, transition[route[q]] = q
            PROVE  FALSE
        <5>1. session[route[q]] = session[route[p]] /\ session[route[p]] # None
          BY <4>1, <4>2
        <5>2. route[q] = route[p]
          BY <5>1, Apart
        <5>3. QED
          BY <3>1, <4>1, <4>2, <5>2
      <4>3. \/ cap'[srv[p]] = cap[srv[p]]
            \/ srv[p] = b /\ b \in orphaned
        BY <1>29, <4>1, <4>2, Switches
      <4>4. QED
        BY <4>1, <4>3
    <3>2. CASE pc[p] \notin {"switched", "refreshed"}
      <4>1. srv[p] = b /\ Head(jobs[b]) = [by |-> p, to |-> want[p]] /\ want[p] # None
        BY <1>29, <2>2, <3>2, Completed
      <4>2. cap'[b] = want[p]
        BY <1>29, <4>1 DEF CompleteJob
      <4>3. QED
        BY <4>1, <4>2
    <3>3. QED
      BY <3>1, <3>2
  <2>3. QED
    BY <2>1, <2>2
<1>30. ASSUME NEW r \in Routes, EndRetire(r) PROVE SwitchesApply'
  BY <1>30, Waked DEF EndRetire, localVars
<1>31. ASSUME UNCHANGED seen PROVE SwitchesApply'
  BY <1>31
<1>32. ASSUME NEW b \in Backends,
             WatchEvent(b)
      PROVE  UNCHANGED seen
  BY <1>32 DEF WatchEvent, localVars
<1>33. ASSUME NEW r \in Routes,
             FireTimer(r) \/ Retire(r) \/ RetireDeclined(r) \/ RetireSuperseded(r)
             \/ RetireStop(r) \/ FlipDisk(r) \/ MarkShutting(r) \/ StopReady(r)
             \/ StopLater(r) \/ StopAfterTransition(r) \/ DrainBackend(r)
      PROVE  UNCHANGED seen
  BY <1>33 DEF FireTimer, Retire, RetireDeclined, RetireSuperseded, RetireStop, FlipDisk,
     MarkShutting, Round, StopReady, StopBackend, StopLater, StopAfterTransition,
     DrainBackend, backendVars, localVars
<1>34. ASSUME NEW o \in Openers,
             OpenResolve(o) \/ OpenLookup(o) \/ OpenRecord(o) \/ OpenReserve(o)
      PROVE  UNCHANGED seen
  BY <1>34 DEF OpenResolve, OpenLookup, OpenRecord, OpenReserve, backendVars, localVars
<1>35. ASSUME BeginShutdown \/ EndLoop PROVE UNCHANGED seen
  BY <1>35 DEF BeginShutdown, EndLoop, backendVars, localVars
<1>36. CASE UNCHANGED vars
  BY <1>36, <1>31 DEF vars, backendVars, localVars
<1>37. QED
  BY <1>2, <1>3, <1>4, <1>5, <1>6, <1>7, <1>8, <1>9, <1>10, <1>11, <1>12, <1>13, <1>14,
     <1>15, <1>16, <1>17, <1>18, <1>19, <1>20, <1>21, <1>22, <1>23, <1>24, <1>25, <1>26,
     <1>27, <1>28, <1>29, <1>30, <1>31, <1>32, <1>33, <1>34, <1>35, <1>36
     DEF Next, RequestStep, EnsureStep, ContextEnds, RetireStep, ShutdownStep, OpenStep,
         Quiescent

-----------------------------------------------------------------------------
(* Shutdown: its loops leave nothing out.                                 *)

\* What shutdown has stopped stays where it was.
LEMMA CapturesStep == Inv /\ [Next]_vars => Captures'
<1> SUFFICES ASSUME Inv, [Next]_vars PROVE Captures'
  OBVIOUS
<1> DEFINE seen == <<transition, session, captured, home, shutdown, stage, backends>>
<1>0. TypeOK /\ Ownership /\ SessionsAtHome /\ RetiringAtHome /\ Activators /\ Carriers
      /\ KnownRoutes /\ Captures /\ Loops
  BY DEF Inv, BackendsHaveHomes, Shutdown
<1>1. /\ transition \in [Routes -> Requests \cup {Retirer, None}]
      /\ session \in [Routes -> Backends \cup {None}]
      /\ captured \in [Routes -> Backends \cup {None}] /\ home \in [Backends -> Routes]
      /\ stage \in [Backends -> {"closed", "open", "stopped"}] /\ backends \in Seq(Routes)
      /\ closing \in BOOLEAN /\ pc \in [Requests -> PCs] /\ route \in [Requests -> Routes]
      /\ srv \in [Requests -> Backends \cup {None}]
      /\ retiring \in [Routes -> Backends \cup {None}] /\ known \in SUBSET Routes
      /\ todo \in Seq(Routes)
  BY <1>0 DEF TypeOK, EntryTypes, LeaseTypes, BackendTypes, RequestTypes, ShutdownTypes
<1> USE RegistryAssumption, <1>0, <1>1 DEF Captures
<1>2. ASSUME NEW q \in Requests, BeginTransition(q) PROVE Captures'
  BY <1>2 DEF BeginTransition, backendVars, shutdownVars, Refusing, Loops, Elems
<1>3. ASSUME NEW q \in Requests, EndRefresh(q) PROVE Captures'
  BY <1>3 DEF EndRefresh, EndTransition, Woken, backendVars, shutdownVars
<1>4. ASSUME NEW q \in Requests, Activate(q) PROVE Captures'
  <2>1. shutdown \notin {"draining", "done"}
    BY <1>4 DEF Activate, Loops, KnownRoutes, Ownership, Owners, Owning
  <2>2. CASE shutdown \in {"stopping", "waiting"}
    BY <1>4, <2>2 DEF Activate, entryVars, shutdownVars
  <2>3. CASE shutdown \notin {"stopping", "waiting"}
    <3>1. backends = <<>> /\ backends' = backends
      BY <1>4, <2>1, <2>3 DEF Activate, shutdownVars, Loops, TypeOK, ShutdownTypes
    <3>2. QED
      BY <3>1 DEF Elems
  <2>4. QED
    BY <2>2, <2>3
<1>5. ASSUME NEW q \in Requests, Publish(q) PROVE Captures'
  BY <1>5 DEF Publish, shutdownVars, Ownership, Owners, Owning, Retirers
<1>6. ASSUME NEW q \in Requests, Discard(q) PROVE Captures'
  BY <1>6 DEF Discard, entryVars, shutdownVars, Ownership, Owners, Owning, Retirers,
     Carriers, Carrying
<1>7. ASSUME NEW q \in Requests, EndActivation(q) PROVE Captures'
  BY <1>7 DEF EndActivation, EndTransition, Woken, entryVars, backendVars, shutdownVars
<1>8. ASSUME NEW r \in Routes, Retire(r) PROVE Captures'
  BY <1>8 DEF Retire, Retirable, backendVars, shutdownVars, Refusing, Loops, Elems
<1>9. ASSUME NEW r \in Routes, RetireStop(r) PROVE Captures'
  BY <1>9 DEF RetireStop, entryVars, shutdownVars
<1>10. ASSUME NEW r \in Routes, EndRetire(r) PROVE Captures'
  BY <1>10 DEF EndRetire, EndTransition, Woken, shutdownVars, Ownership, Owners, Owning,
     Retirers, RetiringAtHome
<1>11. ASSUME NEW r \in Routes, StopReady(r) PROVE Captures'
  BY <1>11, Contents DEF StopReady, Round, StopBackend, entryVars, SessionsAtHome
<1>12. ASSUME NEW r \in Routes, StopAfterTransition(r) PROVE Captures'
  BY <1>12, Contents DEF StopAfterTransition, Round, StopBackend, entryVars, SessionsAtHome
<1>13. ASSUME NEW r \in Routes, DrainBackend(r) PROVE Captures'
  BY <1>13, Drained DEF DrainBackend, Round
<1>14. CASE BeginShutdown
  BY <1>14 DEF BeginShutdown, entryVars, backendVars, Loops, Elems
<1>15. CASE EndLoop
  BY <1>15 DEF EndLoop, entryVars, backendVars, Loops, Elems
<1>16. ASSUME UNCHANGED seen PROVE Captures'
  BY <1>16
<1>17. ASSUME NEW q \in Requests,
             Arrive(q) \/ EnsureRefused(q) \/ EnsureWaits(q) \/ EnsureReady(q) \/ GiveUp(q)
             \/ SameCapability(q) \/ SwitchTo(q) \/ SwitchNotAccepted(q) \/ StartWatcher(q)
             \/ ActivateFails(q) \/ PublishRefused(q) \/ Acquire(q) \/ AcquireAgain(q)
             \/ Mutate(q) \/ MutationAnswered(q) \/ Subscribe(q) \/ Unsubscribe(q)
             \/ Release(q) \/ AbandonQueued(q) \/ AbandonRunning(q) \/ AnswerLost(q)
      PROVE  UNCHANGED seen
  BY <1>17 DEF Arrive, EnsureRefused, EnsureWaits, EnsureReady, GiveUp, SameCapability,
     SwitchTo, Enqueue, SwitchNotAccepted, StartWatcher, ActivateFails, PublishRefused,
     Acquire, AcquireAgain, Mutate, MutationAnswered, Subscribe, Unsubscribe,
     ScheduleDormancy, Release, AbandonQueued, AbandonRunning, AnswerLost, entryVars,
     backendVars, shutdownVars
<1>18. ASSUME NEW b \in Backends,
             CompleteJob(b) \/ WatchEvent(b)
      PROVE  UNCHANGED seen
  BY <1>18 DEF CompleteJob, WatchEvent, entryVars, shutdownVars
<1>19. ASSUME NEW r \in Routes,
             FireTimer(r) \/ RetireDeclined(r) \/ RetireSuperseded(r) \/ FlipDisk(r)
             \/ MarkShutting(r) \/ StopLater(r)
      PROVE  UNCHANGED seen
  BY <1>19 DEF FireTimer, RetireDeclined, RetireSuperseded, FlipDisk, MarkShutting, Round,
     StopLater, entryVars, backendVars, shutdownVars
<1>20. ASSUME NEW o \in Openers,
             OpenResolve(o) \/ OpenLookup(o) \/ OpenRecord(o) \/ OpenReserve(o)
      PROVE  UNCHANGED seen
  BY <1>20 DEF OpenResolve, OpenLookup, OpenRecord, OpenReserve, entryVars, backendVars,
     shutdownVars
<1>21. CASE UNCHANGED vars
  BY <1>21, <1>16 DEF vars, entryVars, backendVars, shutdownVars
<1>22. QED
  BY <1>2, <1>3, <1>4, <1>5, <1>6, <1>7, <1>8, <1>9, <1>10, <1>11, <1>12, <1>13, <1>14,
     <1>15, <1>16, <1>17, <1>18, <1>19, <1>20, <1>21
     DEF Next, RequestStep, EnsureStep, ContextEnds, RetireStep, ShutdownStep, OpenStep,
         Quiescent

\* Each loop of shutdown has what is left of the routes before it.
LEMMA LoopsStep == Inv /\ [Next]_vars => Loops'
<1> SUFFICES ASSUME Inv, [Next]_vars PROVE Loops'
  OBVIOUS
<1> DEFINE seen == <<closing, shutdown, backends, known, entries, todo, late, session,
                     active>>
<1>0. TypeOK /\ KnownRoutes /\ Captures /\ Loops
  BY DEF Inv, Shutdown
<1>1. /\ closing \in BOOLEAN /\ backends \in Seq(Routes) /\ known \in SUBSET Routes
      /\ entries \in Seq(Routes) /\ todo \in Seq(Routes) /\ late \in Seq(Routes)
      /\ session \in [Routes -> Backends \cup {None}] /\ active \in [Routes -> Nat]
      /\ pc \in [Requests -> PCs] /\ route \in [Requests -> Routes]
      /\ captured \in [Routes -> Backends \cup {None}]
  BY <1>0 DEF TypeOK, EntryTypes, LeaseTypes, RequestTypes, ShutdownTypes
<1> USE RegistryAssumption, <1>0, <1>1 DEF Loops
<1>2. ASSUME NEW q \in Requests, Publish(q) PROVE Loops'
  BY <1>2 DEF Publish, registryVars, leaseVars, shutdownVars, Refusing
<1>3. ASSUME NEW q \in Requests, Acquire(q) PROVE Loops'
  BY <1>3 DEF Acquire, registryVars, entryVars, shutdownVars, Refusing
<1>4. ASSUME NEW q \in Requests, Release(q) PROVE Loops'
  BY <1>4 DEF Release, registryVars, entryVars, shutdownVars
<1>5. ASSUME NEW r \in Routes, Retire(r) PROVE Loops'
  BY <1>5 DEF Retire, Retirable, registryVars, leaseVars, shutdownVars
<1>6. ASSUME NEW r \in Routes, MarkShutting(r) PROVE Loops'
  BY <1>6, Contents DEF MarkShutting, Round, entryVars, leaseVars
<1>7. ASSUME NEW r \in Routes, StopReady(r) PROVE Loops'
  BY <1>7, Contents DEF StopReady, Round, StopBackend, registryVars, entryVars, leaseVars
<1>8. ASSUME NEW r \in Routes, StopLater(r) PROVE Loops'
  BY <1>8, Contents DEF StopLater, Round, registryVars, entryVars, leaseVars
<1>9. ASSUME NEW r \in Routes, StopAfterTransition(r) PROVE Loops'
  BY <1>9, Contents DEF StopAfterTransition, Round, StopBackend, registryVars, entryVars,
     leaseVars
<1>10. ASSUME NEW r \in Routes, DrainBackend(r) PROVE Loops'
  <2>1. /\ shutdown = "draining" /\ todo # <<>> /\ r = Head(todo) /\ todo' = Tail(todo)
        /\ UNCHANGED <<closing, shutdown, backends, known, entries, late, active>>
    BY <1>10 DEF DrainBackend, Round, registryVars, leaseVars
  <2>2. Elems(todo) = {r} \cup Elems(todo') /\ todo' \in Seq(Routes)
    BY <2>1, Contents
  <2>3. /\ active[r] = 0 /\ session'[r] = None
        /\ \A x \in Routes : x # r => session'[x] = session[x]
    BY <1>10, Drained
  <2>4. QED
    BY <2>1, <2>2, <2>3
<1>11. ASSUME NEW o \in Openers, OpenReserve(o) PROVE Loops'
  BY <1>11 DEF OpenReserve, Opening, leaseVars, shutdownVars
<1>12. CASE BeginShutdown
  BY <1>12 DEF BeginShutdown, entryVars, leaseVars, Orders, Elems
<1>13. CASE EndLoop
  <2>1. todo = <<>> /\ Elems(todo) = {}
    BY <1>13 DEF EndLoop, Elems
  <2>2. UNCHANGED <<closing, backends, known, entries, late, session, active>>
    BY <1>13 DEF EndLoop, registryVars, entryVars, leaseVars
  <2>3. CASE shutdown = "marking" /\ shutdown' = "stopping" /\ todo' = entries
    BY <2>1, <2>2, <2>3
  <2>4. CASE shutdown = "stopping" /\ shutdown' = "waiting" /\ todo' = late
    BY <2>1, <2>2, <2>4
  <2>5. CASE shutdown = "waiting" /\ shutdown' = "draining" /\ todo' = backends
    BY <2>1, <2>2, <2>5
  <2>6. CASE shutdown = "draining" /\ shutdown' = "done" /\ todo' = <<>>
    BY <2>1, <2>2, <2>6
  <2>7. QED
    BY <1>13, <2>3, <2>4, <2>5, <2>6 DEF EndLoop
<1>14. ASSUME UNCHANGED seen PROVE Loops'
  BY <1>14
<1>15. ASSUME NEW q \in Requests,
             Arrive(q) \/ EnsureRefused(q) \/ EnsureWaits(q) \/ EnsureReady(q)
             \/ BeginTransition(q) \/ GiveUp(q) \/ SameCapability(q) \/ SwitchTo(q)
             \/ SwitchNotAccepted(q) \/ StartWatcher(q) \/ EndRefresh(q) \/ Activate(q)
             \/ ActivateFails(q) \/ PublishRefused(q) \/ Discard(q) \/ EndActivation(q)
             \/ AcquireAgain(q) \/ Mutate(q) \/ MutationAnswered(q) \/ Subscribe(q)
             \/ Unsubscribe(q) \/ AbandonQueued(q) \/ AbandonRunning(q) \/ AnswerLost(q)
      PROVE  UNCHANGED seen
  BY <1>15 DEF Arrive, EnsureRefused, EnsureWaits, EnsureReady, BeginTransition, GiveUp,
     SameCapability, SwitchTo, Enqueue, SwitchNotAccepted, StartWatcher, EndRefresh,
     Activate, ActivateFails, PublishRefused, Discard, EndActivation, AcquireAgain, Mutate,
     MutationAnswered, Subscribe, Unsubscribe, ScheduleDormancy, AbandonQueued,
     AbandonRunning, AnswerLost, registryVars, entryVars, leaseVars, shutdownVars
<1>16. ASSUME NEW b \in Backends,
             CompleteJob(b) \/ WatchEvent(b)
      PROVE  UNCHANGED seen
  BY <1>16 DEF CompleteJob, WatchEvent, registryVars, entryVars, leaseVars, shutdownVars
<1>17. ASSUME NEW r \in Routes,
             FireTimer(r) \/ RetireDeclined(r) \/ RetireSuperseded(r) \/ RetireStop(r)
             \/ EndRetire(r) \/ FlipDisk(r)
      PROVE  UNCHANGED seen
  BY <1>17 DEF FireTimer, RetireDeclined, RetireSuperseded, RetireStop, EndRetire, FlipDisk,
     registryVars, entryVars, leaseVars, shutdownVars
<1>18. ASSUME NEW o \in Openers,
             OpenResolve(o) \/ OpenLookup(o) \/ OpenRecord(o)
      PROVE  UNCHANGED seen
  BY <1>18 DEF OpenResolve, OpenLookup, OpenRecord, registryVars, entryVars, leaseVars,
     shutdownVars
<1>19. CASE UNCHANGED vars
  BY <1>19, <1>14 DEF vars, registryVars, entryVars, leaseVars, shutdownVars
<1>20. QED
  BY <1>2, <1>3, <1>4, <1>5, <1>6, <1>7, <1>8, <1>9, <1>10, <1>11, <1>12, <1>13, <1>14,
     <1>15, <1>16, <1>17, <1>18, <1>19
     DEF Next, RequestStep, EnsureStep, ContextEnds, RetireStep, ShutdownStep, OpenStep,
         Quiescent

-----------------------------------------------------------------------------
(* The invariant holds at the start, and every step keeps it.              *)

LEMMA InitInv == Init => Inv
<1> SUFFICES ASSUME Init PROVE Inv
  OBVIOUS
<1> PICK b \in Backends :
      /\ session = [r \in Routes |-> IF r = Initial THEN b ELSE None]
      /\ stage = [x \in Backends |-> IF x = b THEN "open" ELSE "closed"]
  BY DEF Init
<1> USE RegistryAssumption
<1>1. TypeOK
  <2>1. EntryTypes
    BY DEF Init, EntryTypes, Caps
  <2>2. LeaseTypes
    BY DEF Init, LeaseTypes
  <2>3. BackendTypes
    BY DEF Init, BackendTypes, Caps
  <2>4. RequestTypes
    BY DEF Init, RequestTypes, PCs, Leased, Caps
  <2>5. OpenerTypes
    BY DEF Init, OpenerTypes, Caps
  <2>6. ShutdownTypes
    BY DEF Init, ShutdownTypes
  <2>7. QED
    BY <2>1, <2>2, <2>3, <2>4, <2>5, <2>6 DEF TypeOK
<1>2. /\ \A q \in Requests : pc[q] = "idle" /\ route[q] = Initial
      /\ \A r \in Routes : session[r] = IF r = Initial THEN b ELSE None
      /\ \A x \in Backends :
           stage[x] = (IF x = b THEN "open" ELSE "closed") /\ home[x] = Initial /\ jobs[x] = <<>>
      /\ \A r \in Routes : transition[r] = None /\ retiring[r] = None
  BY DEF Init
<1>3. Ownership
  BY <1>2 DEF Ownership, Owners, Retirers, Owning
<1>4. KnownRoutes
  BY <1>2, FS_Singleton DEF KnownRoutes, Init
<1>5. BackendsHaveHomes
  BY <1>2 DEF BackendsHaveHomes, ClosedAreIdle, SessionsAtHome, RetiringAtHome, Activators,
     Carriers, Refreshers, Homes, Activating, Carrying, Refreshing
<1>6. Callers /\ OneJobEach
  BY <1>2 DEF Callers, OneJobEach, Singly, Elems
<1>7. Leases
  <2>1. \A r \in Routes : LeasedAt(r) = {} /\ SubscribedAt(r) = {}
    BY <1>2 DEF LeasedAt, SubscribedAt, Leased
  <2>2. ActiveCounts /\ SubscriberCounts
    BY <2>1, FS_EmptySet DEF Init, ActiveCounts, SubscriberCounts
  <2>3. QED
    BY <1>2, <2>2 DEF Leases, LeasesHold, Leased
<1>8. OpenUntilClosing /\ TimerOnlyWhenIdle
  BY <1>2 DEF Init, OpenUntilClosing, TimerOnlyWhenIdle
<1>9. Generations
  BY <1>2 DEF Init, Generations, ServedSoFar, NextIsAhead, PublishedIsAhead
<1>10. Refreshes
  BY <1>2 DEF Init, Refreshes, SettledAgree, ActivatedAgree, RefreshesWantLast, SwitchesApply,
     Agreed, Refreshing
<1>11. Shutdown
  BY DEF Init, Shutdown, Captures, Loops, Elems
<1>12. QED
  BY <1>1, <1>3, <1>4, <1>5, <1>6, <1>7, <1>8, <1>9, <1>10, <1>11 DEF Inv

LEMMA NextInv == Inv /\ [Next]_vars => Inv'
<1> SUFFICES ASSUME Inv, [Next]_vars PROVE Inv'
  OBVIOUS
<1> USE DEF Inv, Ownership, BackendsHaveHomes, Leases, Generations, Refreshes, Shutdown
<1>1. TypeOK'
  BY EntryTypesStep, LeaseTypesStep, BackendTypesStep, RequestTypesStep, OpenerTypesStep,
     ShutdownTypesStep DEF TypeOK
<1>2. Ownership' /\ KnownRoutes'
  BY OwnersStep, RetirersStep, KnownRoutesStep
<1>3. BackendsHaveHomes'
  BY ClosedAreIdleStep, SessionsAtHomeStep, RetiringAtHomeStep, ActivatorsStep, CarriersStep,
     RefreshersStep, HomesStep
<1>4. Callers' /\ OneJobEach'
  BY CallersStep, OneJobEachStep
<1>5. Leases'
  BY ActiveCountsStep, SubscriberCountsStep, LeasesHoldStep
<1>6. OpenUntilClosing' /\ TimerOnlyWhenIdle'
  BY OpenUntilClosingStep, TimerOnlyWhenIdleStep
<1>7. Generations'
  BY ServedSoFarStep, NextIsAheadStep, PublishedIsAheadStep
<1>8. Refreshes'
  BY SettledAgreeStep, ActivatedAgreeStep, RefreshesWantLastStep, SwitchesApplyStep
<1>9. Shutdown'
  BY CapturesStep, LoopsStep
<1>10. QED
  BY <1>1, <1>2, <1>3, <1>4, <1>5, <1>6, <1>7, <1>8, <1>9

\* The inductive invariant holds in every state.
LEMMA InvHolds == Spec => []Inv
  BY InitInv, NextInv, PTL DEF Spec

-----------------------------------------------------------------------------
(* What follows from it.                                                   *)

\* The registry, its backends and its requests keep their types: a queue is
\* never longer than it may be, a request in its handler has a backend.
THEOREM TypesHold == Spec => []TypeOK
<1>1. Inv => TypeOK
  BY DEF Inv
<1>2. QED
  BY <1>1, InvHolds, PTL

\* Two backends of one folder are never alive at once: neither activation
\* nor retirement nor shutdown makes a second one beside the first.
THEOREM OneBackend == Spec => []OneBackendPerRoute
<1>1. Inv => OneBackendPerRoute
  <2> SUFFICES ASSUME Inv, NEW a \in Backends, NEW b \in Backends,
                      Live(a), Live(b), home[a] = home[b]
               PROVE  a = b
    BY DEF OneBackendPerRoute
  <2>1. /\ route \in [Requests -> Routes] /\ home \in [Backends -> Routes] /\ None \notin Backends
    BY RegistryAssumption DEF Inv, TypeOK, RequestTypes, BackendTypes
  <2>2. stage[a] # "closed" /\ stage[b] # "closed"
    BY DEF Inv, BackendsHaveHomes, ClosedAreIdle, Live
  <2>3. ASSUME NEW q \in Requests, pc[q] \in Carrying
        PROVE  home[srv[q]] = route[q] /\ session[route[q]] = None /\ retiring[route[q]] = None
    <3>1. transition[route[q]] = q
      BY <2>3 DEF Inv, Ownership, Owners, Owning, Carrying
    <3>2. retiring[route[q]] = None
      BY <2>1, <3>1, RegistryAssumption DEF Inv, Ownership, Retirers
    <3>3. QED
      BY <2>3, <3>2 DEF Inv, BackendsHaveHomes, Carriers, Activators, Carrying, Activating
  <2>4. CASE a \in {session[home[a]], retiring[home[a]]}
    BY <2>1, <2>2, <2>3, <2>4 DEF Inv, BackendsHaveHomes, Homes, SessionsAtHome
  <2>5. CASE \E q \in Requests : pc[q] \in Carrying /\ srv[q] = a
    <3>1. PICK q \in Requests : pc[q] \in Carrying /\ srv[q] = a
      BY <2>5
    <3>2. b \notin {session[home[b]], retiring[home[b]]}
      BY <2>1, <2>3, <3>1
    <3>3. PICK p \in Requests : pc[p] \in Carrying /\ srv[p] = b
      BY <2>2, <3>2 DEF Inv, BackendsHaveHomes, Homes
    <3>4. route[p] = route[q]
      BY <2>3, <3>1, <3>3
    <3>5. p = q
      BY <2>1, <3>1, <3>3, <3>4 DEF Inv, Ownership, Owners, Owning, Carrying
    <3>6. QED
      BY <3>1, <3>3, <3>5
  <2>6. QED
    BY <2>2, <2>4, <2>5 DEF Inv, BackendsHaveHomes, Homes
<1>2. QED
  BY <1>1, InvHolds, PTL

\* A request in its handler keeps the backend it acquired, and no timer that
\* could retire it is set beside it.
THEOREM LeasesKeep == Spec => []LeaseKeepsBackend
<1>1. Inv => LeaseKeepsBackend
  <2> SUFFICES ASSUME Inv PROVE LeaseKeepsBackend
    OBVIOUS
  <2>1. ASSUME NEW q \in Requests, pc[q] \in Leased
        PROVE  /\ stage[srv[q]] # "closed"
               /\ ~closing => session[route[q]] = srv[q] /\ stage[srv[q]] = "open"
    <3>1. route[q] \in Routes /\ session[route[q]] = srv[q] /\ srv[q] # None
      BY <2>1, RegistryAssumption DEF Inv, TypeOK, RequestTypes, Leases, LeasesHold
    <3>2. QED
      BY <3>1 DEF Inv, BackendsHaveHomes, SessionsAtHome, OpenUntilClosing
  <2>2. QED
    BY <2>1 DEF LeaseKeepsBackend, Inv
<1>2. QED
  BY <1>1, InvHolds, PTL

\* With nothing pending and no transition under way the adapter works with
\* the capability that was asked for last.
THEOREM RefreshesHold == Spec => []RefreshNotLost
<1>1. Inv => RefreshNotLost
  BY DEF Inv, Refreshes, SettledAgree, Agreed, RefreshNotLost
<1>2. QED
  BY <1>1, InvHolds, PTL

\* When shutdown returns nothing of a backend, a handler, a retirement or an
\* activation is left.
THEOREM ShutdownCompletes == Spec => []ShutdownIsComplete
<1>1. Inv => ShutdownIsComplete
  <2> SUFFICES ASSUME Inv, shutdown = "done"
               PROVE  /\ \A b \in Backends : stage[b] = "closed" /\ jobs[b] = <<>>
                      /\ \A r \in Routes :
                           transition[r] = None /\ session[r] = None /\ active[r] = 0
                      /\ \A q \in Requests : pc[q] \notin Leased \cup Owning
    BY DEF ShutdownIsComplete
  <2>1. /\ route \in [Requests -> Routes] /\ home \in [Backends -> Routes]
        /\ None \notin Backends /\ None \notin Requests
    BY RegistryAssumption DEF Inv, TypeOK, RequestTypes, BackendTypes
  <2>2. \A r \in known : r \in Elems(backends) /\ session[r] = None /\ active[r] = 0
    BY DEF Inv, Shutdown, Loops, Elems
  <2>3. \A r \in Routes : transition[r] = None /\ session[r] = None
    BY <2>2 DEF Inv, Shutdown, Captures, KnownRoutes
  <2>4. \A q \in Requests : pc[q] \notin Owning
    BY <2>1, <2>3 DEF Inv, Ownership, Owners
  <2>5. \A q \in Requests : pc[q] \notin Leased
    BY <2>1, <2>3, RegistryAssumption DEF Inv, Leases, LeasesHold
  <2>6. \A r \in Routes : active[r] = 0
    <3>1. \A r \in Routes : LeasedAt(r) = {}
      BY <2>5 DEF LeasedAt
    <3>2. QED
      BY <3>1, FS_EmptySet DEF Inv, Leases, ActiveCounts
  <2>7. \A r \in Routes : retiring[r] = None
    BY <2>3, RegistryAssumption DEF Inv, Ownership, Retirers
  <2>8. \A b \in Backends : stage[b] = "closed"
    BY <2>1, <2>3, <2>4, <2>7 DEF Inv, BackendsHaveHomes, Homes, Carrying, Owning
  <2>9. QED
    BY <2>3, <2>4, <2>5, <2>6, <2>8 DEF Inv, BackendsHaveHomes, ClosedAreIdle
<1>2. QED
  BY <1>1, InvHolds, PTL

\* A revived backend starts above every generation its route has answered with.
THEOREM RevivalsAdvance == Spec => RevivalAdvancesGeneration
<1>1. Inv /\ [Next]_vars => Advances
  BY RevivedStep DEF Inv, Generations, BackendsHaveHomes
<1>2. Inv /\ [Next]_vars => [\A r \in Routes :
        session[r] = None /\ session'[r] # None => gen[session'[r]] > served[r]]_vars
  BY <1>1 DEF Advances
<1>3. QED
  BY <1>2, InvHolds, PTL DEF Spec, RevivalAdvancesGeneration
=============================================================================
