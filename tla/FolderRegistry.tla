--------------------------- MODULE FolderRegistry ---------------------------
(***************************************************************************)
(* The folder registry (internal/app/folder_registry.go) with the parts of *)
(* a backend it coordinates: routes that live as long as the process, and  *)
(* behind each of them a backend (folderSession and server.Server) that is *)
(* activated by a request, refreshed when the folder becomes or stops      *)
(* being a Git repository, retired after a grace period without use, and   *)
(* drained at shutdown.  Every section under an entry's lock is one step;  *)
(* what the code does with the lock released lies between steps.           *)
(*                                                                         *)
(* A backend's mutation queue is the serial executor that MutationQueue    *)
(* implements.  A request, and a call of openFolder, is made once.         *)
(***************************************************************************)
EXTENDS Naturals, Sequences, FiniteSets

CONSTANTS
  Routes,         \* routes that may come to exist
  Initial,        \* the route of the folder the process was started for
  Requests,       \* API requests
  Openers,        \* calls of openFolder
  Backends,       \* identities for backends; a closed one may be used again
  Retirer,        \* the goroutine of a route's dormancy timer
  None,
  MaxJobs,        \* places in a backend's mutation queue, the running job's included
  MaxGeneration,  \* bound: generations stop growing here
  MaxFlips        \* bound: how often a folder gains or loses its repository

Caps == {"plain", "git"}

ASSUME RegistryAssumption ==
  /\ Initial \in Routes
  /\ None \notin Requests \cup Backends \cup {Retirer} \cup Caps
  /\ Retirer \notin Requests
  /\ MaxJobs \in Nat \ {0} /\ MaxGeneration \in Nat \ {0} /\ MaxFlips \in Nat
  /\ Backends # {}

VARIABLES
  \* the registry and the fields of its entries
  known, closing,
  session, repository, refreshPending, generation, active, subscribers,
  dormancy,     \* the timer handle: none, armed, fired (callback under way) or spent
  stale,        \* is a callback under way whose dormancyID was superseded?
  transition,   \* who will close the entry's transition channel, or None
  shutting,
  retiring,     \* the backend the timer's goroutine has taken out of its entry
  \* backends
  stage,        \* closed, open, or stopped (admission and events closed)
  home,         \* a backend's route
  cap,          \* its adapter's repository
  watched,      \* the repository its last watcher setup was started for
  jobs,         \* accepted mutations and capability switches, the first may be running
  gen,          \* its server's generation
  \* requests: program counter and locals
  pc, route, srv, want, again,
  \* calls of openFolder
  opener,
  \* the directories on disk
  disk, flips,
  \* shutdown: its program counter, the entries, those left in its loop, those it
  \* waits for in a later one, and the backends it stopped, in order
  shutdown, entries, todo, late, backends, captured,
  \* history: the highest generation any server of a route has answered with,
  \* and the backends that were left a running switch nobody waits for
  served, orphaned

registryVars == <<known, closing, shutting>>
entryVars == <<session, repository, refreshPending, generation, retiring>>
leaseVars == <<active, subscribers>>
timerVars == <<dormancy, stale>>
backendVars == <<stage, home, cap, watched, jobs, gen, served, orphaned>>
localVars == <<route, srv, want, again>>
envVars == <<disk, flips>>
shutdownVars == <<shutdown, entries, todo, late, backends, captured>>
vars == <<registryVars, entryVars, leaseVars, timerVars, transition, backendVars,
          pc, localVars, opener, envVars, shutdownVars>>

Owning == {"refresh", "switching", "switched", "refreshed", "refreshFailed",
           "activate", "publish", "discard", "activated", "activationFailed"}
Leased == {"serving", "mutating", "answered", "subscribed", "leaving"}
PCs == {"idle", "ensure", "waiting", "ready", "done"} \cup Owning \cup Leased

Job == [by : Requests \cup {None}, to : Caps \cup {None}]

EntryTypes ==
  /\ known \in SUBSET Routes /\ closing \in BOOLEAN /\ shutting \in [Routes -> BOOLEAN]
  /\ session \in [Routes -> Backends \cup {None}]
  /\ retiring \in [Routes -> Backends \cup {None}]
  /\ repository \in [Routes -> Caps]
  /\ refreshPending \in [Routes -> BOOLEAN]
  /\ generation \in [Routes -> Nat]

LeaseTypes ==
  /\ active \in [Routes -> Nat] /\ subscribers \in [Routes -> Nat]
  /\ dormancy \in [Routes -> {"none", "armed", "fired", "spent"}]
  /\ stale \in [Routes -> BOOLEAN]
  /\ transition \in [Routes -> Requests \cup {Retirer, None}]

BackendTypes ==
  /\ stage \in [Backends -> {"closed", "open", "stopped"}]
  /\ home \in [Backends -> Routes]
  /\ cap \in [Backends -> Caps] /\ watched \in [Backends -> Caps]
  /\ jobs \in [Backends -> Seq(Job)] /\ \A b \in Backends : Len(jobs[b]) <= MaxJobs
  /\ gen \in [Backends -> Nat] /\ served \in [Routes -> Nat] /\ orphaned \in SUBSET Backends

RequestTypes ==
  /\ pc \in [Requests -> PCs]
  /\ route \in [Requests -> Routes]
  /\ srv \in [Requests -> Backends \cup {None}] /\ \A q \in Requests : pc[q] \in Leased => srv[q] # None
  /\ want \in [Requests -> Caps] /\ again \in [Requests -> BOOLEAN]

OpenerTypes ==
  /\ opener \in [Openers -> [pc : {"idle", "resolved", "record", "reserve", "done"},
                             route : Routes, cap : Caps]]
  /\ disk \in [Routes -> Caps] /\ flips \in Nat

ShutdownTypes ==
  /\ shutdown \in {"up", "marking", "stopping", "waiting", "draining", "done"}
  /\ entries \in Seq(Routes) /\ todo \in Seq(Routes)
  /\ late \in Seq(Routes) /\ backends \in Seq(Routes)
  /\ captured \in [Routes -> Backends \cup {None}]

TypeOK ==
  EntryTypes /\ LeaseTypes /\ BackendTypes /\ RequestTypes /\ OpenerTypes /\ ShutdownTypes

\* newFolderRegistry has returned: the initial folder's backend is published.
Init ==
  /\ known = {Initial} /\ closing = FALSE /\ shutting = [r \in Routes |-> FALSE]
  /\ \E b \in Backends :
       /\ session = [r \in Routes |-> IF r = Initial THEN b ELSE None]
       /\ stage = [x \in Backends |-> IF x = b THEN "open" ELSE "closed"]
  /\ repository = [r \in Routes |-> "plain"]
  /\ refreshPending = [r \in Routes |-> FALSE]
  /\ generation = [r \in Routes |-> 1]
  /\ retiring = [r \in Routes |-> None]
  /\ active = [r \in Routes |-> 0] /\ subscribers = [r \in Routes |-> 0]
  /\ dormancy = [r \in Routes |-> "none"] /\ stale = [r \in Routes |-> FALSE]
  /\ transition = [r \in Routes |-> None]
  /\ home = [b \in Backends |-> Initial]
  /\ cap = [b \in Backends |-> "plain"] /\ watched = [b \in Backends |-> "plain"]
  /\ jobs = [b \in Backends |-> <<>>]
  /\ gen = [b \in Backends |-> 1]
  /\ served = [r \in Routes |-> IF r = Initial THEN 1 ELSE 0] /\ orphaned = {}
  /\ pc = [q \in Requests |-> "idle"]
  /\ route = [q \in Requests |-> Initial]
  /\ srv = [q \in Requests |-> None]
  /\ want = [q \in Requests |-> "plain"] /\ again = [q \in Requests |-> FALSE]
  /\ opener = [o \in Openers |-> [pc |-> "idle", route |-> Initial, cap |-> "plain"]]
  /\ disk = [r \in Routes |-> "plain"] /\ flips = 0
  /\ shutdown = "up" /\ entries = <<>> /\ todo = <<>> /\ late = <<>> /\ backends = <<>>
  /\ captured = [r \in Routes |-> None]

-----------------------------------------------------------------------------
(* Shared pieces of the lock sections.                                     *)

Goto(q, to) == pc' = [pc EXCEPT ![q] = to]

CancelDormancy(r) ==
  /\ dormancy' = [dormancy EXCEPT ![r] = "none"]
  /\ stale' = [stale EXCEPT ![r] = @ \/ dormancy[r] = "fired"]

\* With the counts the lock section leaves behind.
ScheduleDormancy(r) ==
  /\ dormancy' = IF /\ ~shutting[r] /\ ~closing /\ session[r] # None
                    /\ active'[r] = 0 /\ subscribers'[r] = 0
                    /\ transition[r] = None /\ dormancy[r] = "none"
                 THEN [dormancy EXCEPT ![r] = "armed"]
                 ELSE dormancy
  /\ UNCHANGED stale

\* Closing the channel wakes every request that waits for it.
EndTransition(r) == transition' = [transition EXCEPT ![r] = None]
Woken(r) ==
  [p \in Requests |-> IF pc[p] = "waiting" /\ route[p] = r THEN "ensure" ELSE pc[p]]

Bumped(n) == IF n < MaxGeneration THEN n + 1 ELSE n
Answered(r, n) == served' = [served EXCEPT ![r] = IF n > @ THEN n ELSE @]

-----------------------------------------------------------------------------
(* ensureActive: every round begins with a lock section that cancels the   *)
(* dormancy timer.                                                         *)

Arrive(q) ==
  /\ pc[q] = "idle"
  /\ \E r \in known : route' = [route EXCEPT ![q] = r]
  /\ Goto(q, "ensure")
  /\ UNCHANGED <<registryVars, entryVars, leaseVars, timerVars, transition, backendVars,
                 srv, want, again, opener, envVars, shutdownVars>>

Refusing(r) == shutting[r] \/ closing

EnsureRefused(q) ==
  /\ pc[q] = "ensure" /\ Refusing(route[q])
  /\ CancelDormancy(route[q])
  /\ Goto(q, "done")
  /\ UNCHANGED <<registryVars, entryVars, leaseVars, transition, backendVars, localVars,
                 opener, envVars, shutdownVars>>

EnsureWaits(q) ==
  /\ pc[q] = "ensure" /\ ~Refusing(route[q])
  /\ transition[route[q]] # None
  /\ CancelDormancy(route[q])
  /\ Goto(q, "waiting")
  /\ UNCHANGED <<registryVars, entryVars, leaseVars, transition, backendVars, localVars,
                 opener, envVars, shutdownVars>>

\* The request's context ends first.
GiveUp(q) ==
  /\ pc[q] = "waiting"
  /\ Goto(q, "done")
  /\ UNCHANGED <<registryVars, entryVars, leaseVars, timerVars, transition, backendVars,
                 localVars, opener, envVars, shutdownVars>>

EnsureReady(q) ==
  /\ pc[q] = "ensure" /\ ~Refusing(route[q])
  /\ transition[route[q]] = None
  /\ session[route[q]] # None /\ ~refreshPending[route[q]]
  /\ CancelDormancy(route[q])
  /\ Goto(q, "ready")
  /\ UNCHANGED <<registryVars, entryVars, leaseVars, transition, backendVars, localVars,
                 opener, envVars, shutdownVars>>

\* To refresh the backend there is, or to activate one.
BeginTransition(q) ==
  LET r == route[q] IN
  /\ pc[q] = "ensure" /\ ~Refusing(r)
  /\ transition[r] = None
  /\ session[r] = None \/ refreshPending[r]
  /\ CancelDormancy(r)
  /\ transition' = [transition EXCEPT ![r] = q]
  /\ want' = [want EXCEPT ![q] = repository[r]]
  /\ srv' = [srv EXCEPT ![q] = session[r]]
  /\ refreshPending' = [refreshPending EXCEPT ![r] = FALSE]
  /\ Goto(q, IF session[r] # None THEN "refresh" ELSE "activate")
  /\ UNCHANGED <<registryVars, session, repository, generation, retiring, leaseVars,
                 backendVars, route, again, opener, envVars, shutdownVars>>

-----------------------------------------------------------------------------
(* folderSession.refresh, and the lock section after it.                   *)

Enqueue(b, job) ==
  /\ stage[b] = "open" /\ Len(jobs[b]) < MaxJobs
  /\ jobs' = [jobs EXCEPT ![b] = Append(@, job)]
  /\ UNCHANGED <<stage, home, cap, watched, gen, served, orphaned>>

SameCapability(q) ==
  /\ pc[q] = "refresh" /\ cap[srv[q]] = want[q]
  /\ Goto(q, "refreshed")
  /\ UNCHANGED <<registryVars, entryVars, leaseVars, timerVars, transition, backendVars,
                 localVars, opener, envVars, shutdownVars>>

SwitchTo(q) ==
  /\ pc[q] = "refresh" /\ cap[srv[q]] # want[q]
  /\ Enqueue(srv[q], [by |-> q, to |-> want[q]])
  /\ Goto(q, "switching")
  /\ UNCHANGED <<registryVars, entryVars, leaseVars, timerVars, transition, localVars,
                 opener, envVars, shutdownVars>>

\* The context ends before the switch is accepted.
SwitchNotAccepted(q) ==
  /\ pc[q] = "refresh" /\ cap[srv[q]] # want[q]
  /\ Goto(q, "refreshFailed")
  /\ UNCHANGED <<registryVars, entryVars, leaseVars, timerVars, transition, backendVars,
                 localVars, opener, envVars, shutdownVars>>

\* switchTo returned: the watcher is replaced to suit the new capability.
StartWatcher(q) ==
  /\ pc[q] = "switched"
  /\ watched' = [watched EXCEPT ![srv[q]] = IF stage[srv[q]] = "open" THEN want[q] ELSE @]
  /\ Goto(q, "refreshed")
  /\ UNCHANGED <<registryVars, entryVars, leaseVars, timerVars, transition,
                 stage, home, cap, jobs, gen, served, orphaned, localVars, opener, envVars, shutdownVars>>

\* As it would be if a failed refresh did not stay pending.
EndRefreshForgetting(q) ==
  LET r == route[q]
      failed == pc[q] = "refreshFailed" IN
  /\ pc[q] \in {"refreshed", "refreshFailed"}
  /\ refreshPending' = [refreshPending EXCEPT ![r] = @]
  /\ EndTransition(r)
  /\ pc' = [Woken(r) EXCEPT ![q] = IF failed THEN "done"
                                   ELSE IF refreshPending[r] THEN "ensure" ELSE "ready"]
  /\ srv' = [srv EXCEPT ![q] = None]
  /\ UNCHANGED <<registryVars, session, repository, generation, retiring, leaseVars, timerVars,
                 backendVars, route, want, again, opener, envVars, shutdownVars>>

EndRefresh(q) ==
  LET r == route[q]
      failed == pc[q] = "refreshFailed" IN
  /\ pc[q] \in {"refreshed", "refreshFailed"}
  /\ refreshPending' = [refreshPending EXCEPT ![r] = @ \/ failed]
  /\ EndTransition(r)
  /\ pc' = [Woken(r) EXCEPT ![q] = IF failed THEN "done"
                                   ELSE IF refreshPending[r] THEN "ensure" ELSE "ready"]
  /\ srv' = [srv EXCEPT ![q] = None]
  /\ UNCHANGED <<registryVars, session, repository, generation, retiring, leaseVars, timerVars,
                 backendVars, route, want, again, opener, envVars, shutdownVars>>

-----------------------------------------------------------------------------
(* Activation: resolve the folder, create a backend, publish it unless the *)
(* process is closing by then.                                             *)

Activate(q) ==
  LET r == route[q] IN
  /\ pc[q] = "activate"
  /\ \E b \in Backends :
       /\ stage[b] = "closed"
       /\ stage' = [stage EXCEPT ![b] = "open"]
       /\ home' = [home EXCEPT ![b] = r]
       /\ cap' = [cap EXCEPT ![b] = disk[r]]
       /\ watched' = [watched EXCEPT ![b] = disk[r]]
       /\ gen' = [gen EXCEPT ![b] = generation[r]]
       /\ orphaned' = orphaned \ {b}
       /\ srv' = [srv EXCEPT ![q] = b]
  /\ Goto(q, "publish")
  /\ UNCHANGED <<registryVars, entryVars, leaseVars, timerVars, transition, jobs, served,
                 route, want, again, opener, envVars, shutdownVars>>

\* The folder cannot be resolved, or no backend be created.
ActivateFails(q) ==
  /\ pc[q] = "activate"
  /\ Goto(q, "activationFailed")
  /\ UNCHANGED <<registryVars, entryVars, leaseVars, timerVars, transition, backendVars,
                 localVars, opener, envVars, shutdownVars>>

Publish(q) ==
  LET r == route[q] b == srv[q] IN
  /\ pc[q] = "publish" /\ ~Refusing(r)
  /\ session' = [session EXCEPT ![r] = b]
  /\ repository' = [repository EXCEPT ![r] = IF refreshPending[r] THEN @ ELSE cap[b]]
  /\ again' = [again EXCEPT ![q] = refreshPending[r]]
  /\ srv' = [srv EXCEPT ![q] = None]
  /\ Answered(r, gen[b])
  /\ Goto(q, "activated")
  /\ UNCHANGED <<registryVars, refreshPending, generation, retiring, leaseVars, timerVars,
                 transition, stage, home, cap, watched, jobs, gen, orphaned, route, want, opener,
                 envVars, shutdownVars>>

PublishRefused(q) ==
  /\ pc[q] = "publish" /\ Refusing(route[q])
  /\ Goto(q, "discard")
  /\ UNCHANGED <<registryVars, entryVars, leaseVars, timerVars, transition, backendVars,
                 localVars, opener, envVars, shutdownVars>>

\* session.close and WaitEvents on the backend nobody has seen.
Discard(q) ==
  /\ pc[q] = "discard"
  /\ stage' = [stage EXCEPT ![srv[q]] = "closed"]
  /\ srv' = [srv EXCEPT ![q] = None]
  /\ Goto(q, "activationFailed")
  /\ UNCHANGED <<registryVars, entryVars, leaseVars, timerVars, transition,
                 home, cap, watched, jobs, gen, served, orphaned, route, want, again, opener, envVars,
                 shutdownVars>>

\* As it would be if a failed activation returned early.
EndActivationUnlessFailed(q) ==
  LET r == route[q] IN
  /\ pc[q] \in {"activated", "activationFailed"}
  /\ IF pc[q] = "activationFailed" THEN UNCHANGED transition ELSE EndTransition(r)
  /\ pc' = [Woken(r) EXCEPT ![q] = IF pc[q] = "activationFailed" THEN "done"
                                   ELSE IF again[q] THEN "ensure" ELSE "ready"]
  /\ again' = [again EXCEPT ![q] = FALSE]
  /\ UNCHANGED <<registryVars, entryVars, leaseVars, timerVars, backendVars,
                 route, srv, want, opener, envVars, shutdownVars>>

EndActivation(q) ==
  LET r == route[q] IN
  /\ pc[q] \in {"activated", "activationFailed"}
  /\ EndTransition(r)
  /\ pc' = [Woken(r) EXCEPT ![q] = IF pc[q] = "activationFailed" THEN "done"
                                   ELSE IF again[q] THEN "ensure" ELSE "ready"]
  /\ again' = [again EXCEPT ![q] = FALSE]
  /\ UNCHANGED <<registryVars, entryVars, leaseVars, timerVars, backendVars,
                 route, srv, want, opener, envVars, shutdownVars>>

-----------------------------------------------------------------------------
(* acquireServer, the request's handler, release.                          *)

\* As it would be if a ready request relied on what ensureActive saw.
AcquireUnchecked(q) ==
  LET r == route[q] IN
  /\ pc[q] = "ready" /\ ~Refusing(r)
  /\ CancelDormancy(r)
  /\ active' = [active EXCEPT ![r] = @ + 1]
  /\ srv' = [srv EXCEPT ![q] = session[r]]
  /\ Goto(q, "serving")
  /\ UNCHANGED <<registryVars, entryVars, subscribers, transition, backendVars,
                 route, want, again, opener, envVars, shutdownVars>>

Acquire(q) ==
  LET r == route[q] IN
  /\ pc[q] = "ready" /\ ~Refusing(r) /\ session[r] # None
  /\ CancelDormancy(r)
  /\ active' = [active EXCEPT ![r] = @ + 1]
  /\ srv' = [srv EXCEPT ![q] = session[r]]
  /\ Goto(q, "serving")
  /\ UNCHANGED <<registryVars, entryVars, subscribers, transition, backendVars,
                 route, want, again, opener, envVars, shutdownVars>>

AcquireAgain(q) ==
  /\ pc[q] = "ready"
  /\ Refusing(route[q]) \/ session[route[q]] = None
  /\ Goto(q, IF Refusing(route[q]) THEN "done" ELSE "ensure")
  /\ UNCHANGED <<registryVars, entryVars, leaseVars, timerVars, transition, backendVars,
                 localVars, opener, envVars, shutdownVars>>

Mutate(q) ==
  /\ pc[q] = "serving"
  /\ Enqueue(srv[q], [by |-> q, to |-> None])
  /\ Goto(q, "mutating")
  /\ UNCHANGED <<registryVars, entryVars, leaseVars, timerVars, transition, localVars,
                 opener, envVars, shutdownVars>>

\* handleOperation: the generation advances when the mutation succeeded and
\* its caller is there to hear of it; both may also not be so.
MutationAnswered(q) ==
  LET b == srv[q] IN
  /\ pc[q] = "answered"
  /\ \/ /\ gen' = [gen EXCEPT ![b] = Bumped(@)]
        /\ Answered(home[b], gen'[b])
     \/ UNCHANGED <<gen, served>>
  /\ Goto(q, "leaving")
  /\ UNCHANGED <<registryVars, entryVars, leaseVars, timerVars, transition,
                 stage, home, cap, watched, jobs, orphaned, localVars, opener, envVars, shutdownVars>>

\* handleEvents.  Of a backend being stopped the hub may still be open; the
\* stream then ends as it closes.
Subscribe(q) ==
  LET r == route[q] IN
  /\ pc[q] = "serving"
  /\ subscribers' = [subscribers EXCEPT ![r] = @ + 1]
  /\ CancelDormancy(r)
  /\ Goto(q, "subscribed")
  /\ UNCHANGED <<registryVars, entryVars, active, transition, backendVars, localVars,
                 opener, envVars, shutdownVars>>

Unsubscribe(q) ==
  LET r == route[q] IN
  /\ pc[q] = "subscribed"
  /\ subscribers' = [subscribers EXCEPT ![r] = IF @ > 0 THEN @ - 1 ELSE 0]
  /\ UNCHANGED active
  /\ ScheduleDormancy(r)
  /\ Goto(q, "leaving")
  /\ UNCHANGED <<registryVars, entryVars, transition, backendVars, localVars,
                 opener, envVars, shutdownVars>>

\* Any handler ends so; a read, or what a stopped backend refuses, at once.
Release(q) ==
  LET r == route[q] IN
  /\ pc[q] \in {"serving", "leaving"}
  /\ active' = [active EXCEPT ![r] = IF @ > 0 THEN @ - 1 ELSE 0]
  /\ UNCHANGED subscribers
  /\ ScheduleDormancy(r)
  /\ srv' = [srv EXCEPT ![q] = None]
  /\ Goto(q, "done")
  /\ UNCHANGED <<registryVars, entryVars, transition, backendVars, route, want, again,
                 opener, envVars, shutdownVars>>

-----------------------------------------------------------------------------
(* The backend on its own: the queue's worker, and events that advance the *)
(* generation.                                                             *)

CompleteJob(b) ==
  LET job == Head(jobs[b]) IN
  /\ jobs[b] # <<>>
  /\ jobs' = [jobs EXCEPT ![b] = Tail(@)]
  /\ cap' = [cap EXCEPT ![b] = IF job.to # None THEN job.to ELSE @]
  /\ pc' = [q \in Requests |-> IF q = job.by
                               THEN IF job.to # None THEN "switched" ELSE "answered"
                               ELSE pc[q]]
  /\ UNCHANGED <<registryVars, entryVars, leaseVars, timerVars, transition,
                 stage, home, watched, gen, served, orphaned, localVars, opener, envVars, shutdownVars>>

AfterAbandon(q) == IF pc[q] \in {"switching", "switched"} THEN "refreshFailed" ELSE "leaving"

Skipping(s, i) == SubSeq(s, 1, i - 1) \o SubSeq(s, i + 1, Len(s))

\* A context that ends before the job's turn has the job skipped.
AbandonQueued(q) ==
  LET b == srv[q] IN
  /\ pc[q] \in {"switching", "mutating"}
  /\ \E i \in DOMAIN jobs[b] :
       /\ jobs[b][i].by = q
       /\ jobs' = [jobs EXCEPT ![b] = Skipping(@, i)]
  /\ Goto(q, AfterAbandon(q))
  /\ UNCHANGED <<registryVars, entryVars, leaseVars, timerVars, transition,
                 stage, home, cap, watched, gen, served, orphaned, localVars, opener, envVars, shutdownVars>>

\* One that ends while the job runs leaves the job to finish by itself.
AbandonRunning(q) ==
  LET b == srv[q] IN
  /\ pc[q] \in {"switching", "mutating"}
  /\ jobs[b] # <<>> /\ Head(jobs[b]).by = q
  /\ jobs' = [jobs EXCEPT ![b][1].by = None]
  /\ orphaned' = IF pc[q] = "switching" THEN orphaned \cup {b} ELSE orphaned
  /\ Goto(q, AfterAbandon(q))
  /\ UNCHANGED <<registryVars, entryVars, leaseVars, timerVars, transition,
                 stage, home, cap, watched, gen, served, localVars, opener, envVars, shutdownVars>>

\* Do's select finds both the job's answer and the context's end.
AnswerLost(q) ==
  /\ pc[q] \in {"switched", "answered"}
  /\ Goto(q, AfterAbandon(q))
  /\ UNCHANGED <<registryVars, entryVars, leaseVars, timerVars, transition, backendVars,
                 localVars, opener, envVars, shutdownVars>>

Published(b) == b \in {session[home[b]], retiring[home[b]]}

WatchEvent(b) ==
  /\ stage[b] # "closed" /\ gen[b] < MaxGeneration
  /\ gen' = [gen EXCEPT ![b] = Bumped(@)]
  /\ IF Published(b) THEN Answered(home[b], gen'[b]) ELSE UNCHANGED served
  /\ UNCHANGED <<registryVars, entryVars, leaseVars, timerVars, transition,
                 stage, home, cap, watched, jobs, orphaned, pc, localVars, opener, envVars, shutdownVars>>

-----------------------------------------------------------------------------
(* Dormancy.                                                               *)

FireTimer(r) ==
  /\ dormancy[r] = "armed"
  /\ session[r] # None /\ gen[session[r]] <= MaxGeneration
  /\ dormancy' = [dormancy EXCEPT ![r] = "fired"]
  /\ UNCHANGED <<registryVars, entryVars, leaseVars, stale, transition, backendVars, pc,
                 localVars, opener, envVars, shutdownVars>>

Retirable(r) ==
  /\ ~Refusing(r)
  /\ active[r] = 0 /\ subscribers[r] = 0
  /\ transition[r] = None /\ session[r] # None

Retire(r) ==
  /\ dormancy[r] = "fired" /\ Retirable(r)
  /\ transition' = [transition EXCEPT ![r] = Retirer]
  /\ dormancy' = [dormancy EXCEPT ![r] = "none"]
  /\ retiring' = [retiring EXCEPT ![r] = session[r]]
  /\ session' = [session EXCEPT ![r] = None]
  /\ UNCHANGED <<registryVars, repository, refreshPending, generation, leaseVars, stale,
                 backendVars, pc, localVars, opener, envVars, shutdownVars>>

RetireDeclined(r) ==
  /\ dormancy[r] = "fired" /\ ~Retirable(r)
  /\ dormancy' = [dormancy EXCEPT ![r] = "spent"]
  /\ UNCHANGED <<registryVars, entryVars, leaseVars, stale, transition, backendVars, pc,
                 localVars, opener, envVars, shutdownVars>>

\* entry.dormancyID has moved on since this callback's timer was set.
RetireSuperseded(r) ==
  /\ stale[r]
  /\ stale' = [stale EXCEPT ![r] = FALSE]
  /\ UNCHANGED <<registryVars, entryVars, leaseVars, dormancy, transition, backendVars, pc,
                 localVars, opener, envVars, shutdownVars>>

\* session.stop, the first half of session.close.
RetireStop(r) ==
  /\ retiring[r] # None /\ stage[retiring[r]] = "open"
  /\ stage' = [stage EXCEPT ![retiring[r]] = "stopped"]
  /\ UNCHANGED <<registryVars, entryVars, leaseVars, timerVars, transition,
                 home, cap, watched, jobs, gen, served, orphaned, pc, localVars, opener, envVars,
                 shutdownVars>>

\* As it would be with session.stop in place of session.close.
EndRetireUndrained(r) ==
  LET b == retiring[r] IN
  /\ b # None /\ stage[b] = "stopped"
  /\ stage' = [stage EXCEPT ![b] = "closed"]
  /\ generation' = [generation EXCEPT ![r] = gen[b] + 1]
  /\ retiring' = [retiring EXCEPT ![r] = None]
  /\ EndTransition(r)
  /\ pc' = Woken(r)
  /\ UNCHANGED <<registryVars, session, repository, refreshPending, leaseVars, timerVars,
                 home, cap, watched, jobs, gen, served, orphaned, localVars, opener, envVars, shutdownVars>>

\* As it would be if the next backend took over the generation.
EndRetireSameGeneration(r) ==
  LET b == retiring[r] IN
  /\ b # None /\ stage[b] = "stopped" /\ jobs[b] = <<>>
  /\ stage' = [stage EXCEPT ![b] = "closed"]
  /\ generation' = [generation EXCEPT ![r] = gen[b]]
  /\ retiring' = [retiring EXCEPT ![r] = None]
  /\ EndTransition(r)
  /\ pc' = Woken(r)
  /\ UNCHANGED <<registryVars, session, repository, refreshPending, leaseVars, timerVars,
                 home, cap, watched, jobs, gen, served, orphaned, localVars, opener, envVars, shutdownVars>>

\* As it would be if the channel were dropped, not closed.
EndRetireSilently(r) ==
  LET b == retiring[r] IN
  /\ b # None /\ stage[b] = "stopped" /\ jobs[b] = <<>>
  /\ stage' = [stage EXCEPT ![b] = "closed"]
  /\ generation' = [generation EXCEPT ![r] = gen[b] + 1]
  /\ retiring' = [retiring EXCEPT ![r] = None]
  /\ EndTransition(r)
  /\ UNCHANGED pc
  /\ UNCHANGED <<registryVars, session, repository, refreshPending, leaseVars, timerVars,
                 home, cap, watched, jobs, gen, served, orphaned, localVars, opener, envVars, shutdownVars>>

\* The queue has drained and the events are consumed; the last lock section.
EndRetire(r) ==
  LET b == retiring[r] IN
  /\ b # None /\ stage[b] = "stopped" /\ jobs[b] = <<>>
  /\ stage' = [stage EXCEPT ![b] = "closed"]
  /\ generation' = [generation EXCEPT ![r] = gen[b] + 1]
  /\ retiring' = [retiring EXCEPT ![r] = None]
  /\ EndTransition(r)
  /\ pc' = Woken(r)
  /\ UNCHANGED <<registryVars, session, repository, refreshPending, leaseVars, timerVars,
                 home, cap, watched, jobs, gen, served, orphaned, localVars, opener, envVars, shutdownVars>>

-----------------------------------------------------------------------------
(* openFolder: what is on disk is read first, then the route is looked up. *)

Opening(o, from, to) ==
  /\ opener[o].pc = from
  /\ opener' = [opener EXCEPT ![o].pc = to]

OpenResolve(o) ==
  /\ opener[o].pc = "idle" /\ ~closing
  /\ \E r \in Routes : opener' = [opener EXCEPT ![o] = [pc |-> "resolved", route |-> r, cap |-> disk[r]]]
  /\ UNCHANGED <<registryVars, entryVars, leaseVars, timerVars, transition, backendVars, pc,
                 localVars, envVars, shutdownVars>>

OpenLookup(o) ==
  /\ Opening(o, "resolved", IF closing THEN "done"
                            ELSE IF opener[o].route \in known THEN "record" ELSE "reserve")
  /\ UNCHANGED <<registryVars, entryVars, leaseVars, timerVars, transition, backendVars, pc,
                 localVars, envVars, shutdownVars>>

OpenRecord(o) ==
  LET r == opener[o].route IN
  /\ Opening(o, "record", "done")
  /\ IF Refusing(r) THEN UNCHANGED <<repository, refreshPending>>
     ELSE /\ repository' = [repository EXCEPT ![r] = opener[o].cap]
          /\ refreshPending' = [refreshPending EXCEPT ![r] = TRUE]
  /\ UNCHANGED <<registryVars, session, generation, retiring, leaseVars, timerVars, transition,
                 backendVars, pc, localVars, envVars, shutdownVars>>

\* Another call may have reserved the route since the lookup: then it stands.
OpenReserve(o) ==
  LET r == opener[o].route IN
  /\ Opening(o, "reserve", "done")
  /\ IF closing \/ r \in known THEN UNCHANGED <<known, repository>>
     ELSE /\ known' = known \cup {r}
          /\ repository' = [repository EXCEPT ![r] = opener[o].cap]
  /\ UNCHANGED <<closing, shutting, session, refreshPending, generation, retiring, leaseVars,
                 timerVars, transition, backendVars, pc, localVars, envVars, shutdownVars>>

\* git init, or a .git directory removed.
FlipDisk(r) ==
  /\ flips < MaxFlips
  /\ flips' = flips + 1
  /\ disk' = [disk EXCEPT ![r] = IF @ = "git" THEN "plain" ELSE "git"]
  /\ UNCHANGED <<registryVars, entryVars, leaseVars, timerVars, transition, backendVars, pc,
                 localVars, opener, shutdownVars>>

-----------------------------------------------------------------------------
(* shutdown: four loops, each over a list of entries in its order.  The    *)
(* list of all entries comes from a map, in any order.                     *)

Orders(S) == {s \in [1..Cardinality(S) -> S] : \A r \in S : \E i \in DOMAIN s : s[i] = r}

BeginShutdown ==
  /\ shutdown = "up"
  /\ closing' = TRUE
  /\ shutdown' = "marking"
  /\ entries' \in Orders(known)
  /\ todo' = entries'
  /\ UNCHANGED <<known, shutting, entryVars, leaseVars, timerVars, transition, backendVars, pc,
                 localVars, opener, envVars, late, backends, captured>>

Round(r, loop) ==
  /\ shutdown = loop /\ todo # <<>> /\ r = Head(todo)
  /\ todo' = Tail(todo)
  /\ UNCHANGED <<shutdown, entries>>

MarkShutting(r) ==
  /\ Round(r, "marking")
  /\ shutting' = [shutting EXCEPT ![r] = TRUE]
  /\ CancelDormancy(r)
  /\ UNCHANGED <<known, closing, entryVars, leaseVars, transition, backendVars, pc, localVars,
                 opener, envVars, late, backends, captured>>

\* session.stop on the backend of an entry, if it has one.
StopBackend(r) ==
  /\ backends' = Append(backends, r)
  /\ captured' = [captured EXCEPT ![r] = session[r]]
  /\ stage' = [b \in Backends |-> IF b = session[r] THEN "stopped" ELSE stage[b]]
  /\ UNCHANGED <<home, cap, watched, jobs, gen, served, orphaned>>

StopReady(r) ==
  /\ Round(r, "stopping")
  /\ transition[r] = None
  /\ StopBackend(r)
  /\ UNCHANGED <<registryVars, entryVars, leaseVars, timerVars, transition, pc, localVars,
                 opener, envVars, late>>

\* As it would be if entries in transition were skipped.
StopLaterForgotten(r) ==
  /\ Round(r, "stopping")
  /\ transition[r] # None
  /\ UNCHANGED late
  /\ UNCHANGED <<registryVars, entryVars, leaseVars, timerVars, transition, backendVars, pc,
                 localVars, opener, envVars, backends, captured>>

\* As it would be if the first loop waited for transitions.
StopLaterNever(r) ==
  /\ Round(r, "stopping")
  /\ transition[r] # None /\ FALSE
  /\ late' = Append(late, r)
  /\ UNCHANGED <<registryVars, entryVars, leaseVars, timerVars, transition, backendVars, pc,
                 localVars, opener, envVars, backends, captured>>

\* A transition may itself be draining: it is waited for in the next loop.
StopLater(r) ==
  /\ Round(r, "stopping")
  /\ transition[r] # None
  /\ late' = Append(late, r)
  /\ UNCHANGED <<registryVars, entryVars, leaseVars, timerVars, transition, backendVars, pc,
                 localVars, opener, envVars, backends, captured>>

StopAfterTransition(r) ==
  /\ Round(r, "waiting")
  /\ transition[r] = None
  /\ StopBackend(r)
  /\ UNCHANGED <<registryVars, entryVars, leaseVars, timerVars, transition, pc, localVars,
                 opener, envVars, late>>

\* As it would be without requests.Wait.
DrainBackendAtOnce(r) ==
  LET b == captured[r] IN
  /\ Round(r, "draining")
  /\ b # None => jobs[b] = <<>>
  /\ stage' = [x \in Backends |-> IF x = b THEN "closed" ELSE stage[x]]
  /\ session' = [session EXCEPT ![r] = IF @ = b THEN None ELSE @]
  /\ UNCHANGED <<registryVars, repository, refreshPending, generation, retiring, leaseVars,
                 timerVars, transition, home, cap, watched, jobs, gen, served, orphaned, pc,
                 localVars, opener, envVars, late, backends, captured>>

\* session.close, requests.Wait and WaitEvents, then the entry is emptied.
DrainBackend(r) ==
  LET b == captured[r] IN
  /\ Round(r, "draining")
  /\ active[r] = 0
  /\ b # None => jobs[b] = <<>>
  /\ stage' = [x \in Backends |-> IF x = b THEN "closed" ELSE stage[x]]
  /\ session' = [session EXCEPT ![r] = IF @ = b THEN None ELSE @]
  /\ UNCHANGED <<registryVars, repository, refreshPending, generation, retiring, leaseVars,
                 timerVars, transition, home, cap, watched, jobs, gen, served, orphaned, pc,
                 localVars, opener, envVars, late, backends, captured>>

EndLoop ==
  /\ todo = <<>>
  /\ \/ shutdown = "marking" /\ shutdown' = "stopping" /\ todo' = entries
     \/ shutdown = "stopping" /\ shutdown' = "waiting" /\ todo' = late
     \/ shutdown = "waiting" /\ shutdown' = "draining" /\ todo' = backends
     \/ shutdown = "draining" /\ shutdown' = "done" /\ todo' = <<>>
  /\ UNCHANGED <<registryVars, entryVars, leaseVars, timerVars, transition, backendVars, pc,
                 localVars, opener, envVars, entries, late, backends, captured>>

-----------------------------------------------------------------------------
EnsureStep(q) == EnsureRefused(q) \/ EnsureWaits(q) \/ EnsureReady(q) \/ BeginTransition(q)

\* What a request's goroutine does whenever it can.
RequestStep(q) ==
  \/ EnsureStep(q)
  \/ SameCapability(q) \/ SwitchTo(q) \/ StartWatcher(q) \/ EndRefresh(q)
  \/ Activate(q) \/ ActivateFails(q) \/ Publish(q) \/ PublishRefused(q) \/ Discard(q)
  \/ EndActivation(q)
  \/ Acquire(q) \/ AcquireAgain(q)
  \/ Mutate(q) \/ MutationAnswered(q) \/ Subscribe(q) \/ Release(q)

\* What the end of a request's context may do to it.
ContextEnds(q) ==
  GiveUp(q) \/ SwitchNotAccepted(q) \/ AbandonQueued(q) \/ AbandonRunning(q) \/ AnswerLost(q)

RetireStep(r) == Retire(r) \/ RetireDeclined(r) \/ RetireSuperseded(r) \/ RetireStop(r)
OpenStep(o) == OpenResolve(o) \/ OpenLookup(o) \/ OpenRecord(o) \/ OpenReserve(o)
ShutdownStep(r) ==
  MarkShutting(r) \/ StopReady(r) \/ StopLater(r) \/ StopAfterTransition(r) \/ DrainBackend(r)

Quiescent ==
  /\ shutdown = "done" /\ \A q \in Requests : pc[q] = "done"
  /\ UNCHANGED vars

Next ==
  \/ \E q \in Requests : Arrive(q) \/ RequestStep(q) \/ ContextEnds(q) \/ Unsubscribe(q)
  \/ \E b \in Backends : CompleteJob(b) \/ WatchEvent(b)
  \/ \E r \in Routes : FireTimer(r) \/ RetireStep(r) \/ EndRetire(r) \/ FlipDisk(r) \/ ShutdownStep(r)
  \/ \E o \in Openers : OpenStep(o)
  \/ BeginShutdown \/ EndLoop
  \/ Quiescent

Spec == Init /\ [][Next]_vars

(* Goroutines that can step do; a stream ends once its hub has closed; the *)
(* catalog's Flush, in a session's stop, is taken to return.               *)
StreamEnds(q) == Unsubscribe(q) /\ stage[srv[q]] # "open"
FairSpec ==
  /\ Spec
  /\ \A q \in Requests : WF_vars(RequestStep(q) \/ StreamEnds(q))
  /\ \A r \in Routes : WF_vars(RetireStep(r) \/ EndRetire(r))
  /\ WF_vars(EndLoop \/ \E r \in Routes : ShutdownStep(r))

(* No mutation runs for ever: the server gives each a deadline that        *)
(* outlives its caller.                                                    *)
JobsEnd == []<>(\A b \in Backends : jobs[b] = <<>>)

-----------------------------------------------------------------------------
Live(b) == stage[b] # "closed" \/ jobs[b] # <<>>

(* Two backends of one folder never live at once, a stopped one that still *)
(* drains a mutation included: a folder never has two mutation queues, two *)
(* watchers or two search indexes.                                         *)
OneBackendPerRoute ==
  \A a, b \in Backends : Live(a) /\ Live(b) /\ home[a] = home[b] => a = b

(* A timer is set only while the route is idle, and a handle left behind   *)
(* by a callback that declined would keep the route from ever retiring.    *)
TimerOnlyWhenIdle ==
  \A r \in Routes :
    /\ dormancy[r] \in {"armed", "fired"} /\ ~closing =>
         session[r] # None /\ active[r] = 0 /\ subscribers[r] = 0 /\ transition[r] = None
    /\ dormancy[r] = "spent" => closing

(* A request in its handler keeps the backend it acquired, open and in its *)
(* route, until the handler ends; only shutdown may stop it meanwhile.  No *)
(* timer that could retire it is set beside it.                            *)
LeaseKeepsBackend ==
  /\ \A q \in Requests : pc[q] \in Leased =>
       /\ stage[srv[q]] # "closed"
       /\ ~closing => session[route[q]] = srv[q] /\ stage[srv[q]] = "open"
  /\ TimerOnlyWhenIdle

(* An open or a failed refresh is not forgotten: with nothing pending and  *)
(* no transition under way, the adapter works with the capability that was *)
(* asked for last, unless its backend was once left a running switch whose *)
(* caller had gone: that one may be applied after a later open.            *)
RefreshNotLost ==
  \A r \in Routes :
    /\ session[r] # None /\ session[r] \notin orphaned
    /\ transition[r] = None /\ ~refreshPending[r]
    => cap[session[r]] = repository[r]

(* When shutdown returns, every backend is closed and no handler, retiring *)
(* goroutine or activation is left.                                        *)
ShutdownIsComplete ==
  shutdown = "done" =>
    /\ \A b \in Backends : stage[b] = "closed" /\ jobs[b] = <<>>
    /\ \A r \in Routes : transition[r] = None /\ session[r] = None /\ active[r] = 0
    /\ \A q \in Requests : pc[q] \notin Leased \cup Owning

(* A revived backend starts above every generation its route has answered  *)
(* with, so that a client never takes new state for state it has seen.     *)
RevivalAdvancesGeneration ==
  [][\A r \in Routes :
       session[r] = None /\ session'[r] # None => gen[session'[r]] > served[r]]_vars

(* A published backend's watcher was set up for the capability its adapter *)
(* works with: a capability refresh starts a replacement watcher.          *)
WatcherMatchesCapability ==
  \A r \in Routes :
    session[r] # None /\ transition[r] = None /\ ~refreshPending[r]
      => watched[session[r]] = cap[session[r]]

(* shutdown returns although requests, retirements and activations were    *)
(* under way when it began.                                                *)
ShutdownEnds == JobsEnd => (closing ~> shutdown = "done")

(* Every request is answered or refused.                                   *)
EveryRequestEnds ==
  JobsEnd =>
    \A q \in Requests : pc[q] \in {"ensure", "waiting"} ~> pc[q] \in {"done"} \cup Leased

(* shutdown disconnects the event streams of every backend that is ready   *)
(* when its turn comes, even while some mutation never ends.               *)
WaitedFor(r) == \E i \in 1..Len(late) : late[i] = r
StreamsAreDisconnected ==
  \A q \in Requests :
    (closing /\ pc[q] = "subscribed" /\ transition[route[q]] = None /\ ~WaitedFor(route[q]))
      ~> pc[q] # "subscribed"
=============================================================================
