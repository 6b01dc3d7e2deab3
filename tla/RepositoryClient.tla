-------------------------- MODULE RepositoryClient ---------------------------
(***************************************************************************)
(* How a folder's view in the browser follows the disk: the generation the *)
(* server stamps on what it reads (internal/server), the event stream, and *)
(* the client's store (web/src/diffshub/gitna/repository.tsx), which reads *)
(* snapshots one at a time, runs one reconciliation at a time, and tracks  *)
(* its connection through lost streams, failed reads and retries.          *)
(*                                                                         *)
(* A generation stands for a known state of the disk.  The client takes a  *)
(* snapshot over only when its generation is newer than the one it shows.  *)
(***************************************************************************)
EXTENDS Naturals, Sequences

CONSTANTS
  Watching,    \* is there a watcher?
  MaxChanges,  \* bound: changes on disk by others
  MaxActs,     \* bound: refreshes, retries and mutations by the user
  MaxFaults,   \* bound: lost streams and failed reads
  None

\* What a reconciliation reads: the snapshot, the Explorer too, or everything.
Scopes == 0..2
Everything == 2
Intents == [probe : BOOLEAN, scope : Scopes]
Outcomes == {"ready", "unready", "failed", "obsolete"}
Succeeded == {"ready", "unready"}

\* A reconciliation at one of these places, and the store.
Recons(places) ==
  [intent : Intents, at : places, stale : BOOLEAN, outcome : Outcomes,
   by : SUBSET {"timer", "retry"}]
Clients(places) ==
  [connection : {"connecting", "connected", "reconnecting", "reconciling"},
   open : BOOLEAN, hasOpened : BOOLEAN, lost : BOOLEAN,
   due : BOOLEAN, armed : BOOLEAN, ready : BOOLEAN,
   initial : {"none", "running"} \cup Outcomes, timer : Scopes \cup {None},
   pending : Intents \cup {None}, recon : Recons(places) \cup {None}]

ASSUME ClientAssumption ==
  /\ Watching \in BOOLEAN /\ MaxChanges \in Nat /\ MaxActs \in Nat /\ MaxFaults \in Nat
  /\ None \notin Scopes /\ None \notin Intents
  /\ None \notin Recons({"ask", "snapshot", "details", "ended"})

VARIABLES
  \* the server
  disk,      \* the version of what is on disk
  gen,       \* s.gen
  owed,      \* a change the watcher has yet to report
  \* between them
  link,      \* the event stream: connecting, open, broken (unnoticed) or dead
  inbox,     \* the scope of undelivered events, or None
  reader,    \* the snapshot read under way
  \* the client
  snap,      \* generation and version it shows
  client,
  mutation,  \* idle, calling, applied, refreshing or settling
  \* history and bounds
  base,      \* base[g]: the version when the generation became g
  missed,    \* the stream opened without a read of its own while the client was behind
  changes, acts, faults

serverVars == <<disk, gen, owed, base>>
boundVars == <<changes, acts, faults>>
vars == <<serverVars, link, inbox, reader, snap, client, mutation, missed,
          boundVars>>

Idle == [at |-> "idle", g |-> 0, v |-> 0, tries |-> 0, again |-> FALSE]
Asked(r) ==
  IF r.at = "idle" THEN [Idle EXCEPT !.at = "load", !.tries = 1] ELSE [r EXCEPT !.again = TRUE]

TypeOK ==
  /\ disk \in Nat /\ gen \in Nat \ {0} /\ owed \in BOOLEAN
  /\ base \in Seq(Nat) /\ Len(base) = gen
  /\ link \in {"connecting", "open", "broken", "dead"} /\ inbox \in {0, 1, None}
  /\ reader \in [at : {"idle", "load", "read", "check", "answer", "failed"}, g : 0..gen,
                 v : 0..disk, tries : 0..3, again : BOOLEAN]
  /\ snap \in [g : 0..gen, v : 0..disk]
  /\ client \in Clients({"snapshot", "details"})
  /\ client.armed => client.due
  /\ mutation \in {"idle", "calling", "applied", "refreshing", "settling"}
  /\ missed \in BOOLEAN
  /\ changes \in 0..MaxChanges /\ acts \in 0..MaxActs /\ faults \in 0..MaxFaults

-----------------------------------------------------------------------------
(* The store's private operations, as functions of its state.              *)

Scheduled(c, force) ==
  IF c.connection = "connected" THEN c
  ELSE LET due == c.due \/ c.recon = None IN
       [c EXCEPT !.due = due,
                 !.armed = (@ /\ ~force) \/ (due /\ c.recon = None)]

Finished(c, outcome) ==
  IF outcome = "ready" /\ c.open
  THEN [c EXCEPT !.connection = "connected", !.lost = FALSE, !.due = FALSE, !.armed = FALSE]
  ELSE [c EXCEPT !.connection = IF c.open THEN "reconciling"
                                ELSE IF c.hasOpened THEN "reconnecting" ELSE "connecting"]

\* One turn of the reconciliation's loop begins: it asks for a snapshot.
Turn(c, intent, outcome, by) ==
  LET turned == [c EXCEPT !.pending = None,
                          !.recon = [intent |-> intent, at |-> "ask", stale |-> FALSE,
                                     outcome |-> outcome, by |-> by]] IN
  IF c.open /\ c.connection = "connected" THEN turned ELSE Finished(turned, "unready")

Merged(p, q) ==
  IF p = None THEN q
  ELSE [probe |-> p.probe /\ q.probe, scope |-> IF p.scope > q.scope THEN p.scope ELSE q.scope]

\* As it would be if the reconciliation under way were enough.
StartedJoins(c, intent, by) ==
  IF c.recon = None THEN Turn(c, intent, "unready", by) ELSE c

Started(c, intent, by) ==
  IF c.recon = None THEN Turn(c, intent, "unready", by)
  ELSE [c EXCEPT !.pending = Merged(@, intent)]

Full == [probe |-> FALSE, scope |-> Everything]
Probe(c) == [probe |-> ~c.open, scope |-> Everything]

\* The last turn has ended: the outcome is published, and a retry scheduled.
Outcome(recon) == IF recon.stale THEN "obsolete" ELSE recon.outcome

\* As it would be if only a failure were retried.
EndedQuietly(c) ==
  LET outcome == Outcome(c.recon)
      finished == Finished([c EXCEPT !.recon = None], outcome)
      scheduled ==
        IF finished.connection # "connected" /\ (outcome = "failed" \/ finished.lost)
        THEN Scheduled([finished EXCEPT !.due = FALSE], TRUE) ELSE finished
      published ==
        [scheduled EXCEPT !.initial = IF @ = "running" THEN outcome ELSE @] IN
  IF "retry" \in c.recon.by /\ (outcome \notin Succeeded \/ ~c.open)
  THEN Scheduled(published, FALSE) ELSE published

Ended(c) ==
  LET outcome == Outcome(c.recon)
      finished == Finished([c EXCEPT !.recon = None], outcome)
      scheduled ==
        IF finished.connection # "connected" /\ (outcome # "ready" \/ finished.lost)
        THEN Scheduled([finished EXCEPT !.due = FALSE], TRUE) ELSE finished
      published ==
        [scheduled EXCEPT !.initial = IF @ = "running" THEN outcome ELSE @] IN
  IF "retry" \in c.recon.by /\ (outcome \notin Succeeded \/ ~c.open)
  THEN Scheduled(published, FALSE) ELSE published

\* A turn has ended with an outcome: what came meanwhile gets a turn of its own.
Settled(c, outcome) ==
  LET kept == IF \/ outcome \notin Succeeded
                 \/ c.recon.intent.scope = Everything /\ ~c.recon.intent.probe
                 \/ c.recon.outcome \in Succeeded
              THEN outcome ELSE c.recon.outcome
      next == c.pending IN
  IF next = None THEN [c EXCEPT !.recon.outcome = kept, !.recon.at = "ended"]
  ELSE Turn(c, [next EXCEPT !.probe = @ \/ ~c.open], kept, c.recon.by)

\* What a turn reads besides: the graph that an event asked for is awaited, and a
\* folder whose capability has changed is read as a whole.
Extras == {"nothing", "graph", "everything"}

\* The awaited snapshot has come.
Continued(c, result, more) ==
  LET intent == c.recon.intent IN
  IF result # "succeeded" THEN
    Settled([c EXCEPT !.ready = @ /\ intent.probe], result)
  ELSE IF intent.probe THEN Settled(c, "unready")
  ELSE IF intent.scope = 0 /\ more = "nothing"
  THEN Settled(c, IF c.ready THEN "ready" ELSE "unready")
  ELSE [c EXCEPT !.recon.at = "details",
                 !.recon.intent.scope = IF more = "everything" THEN Everything ELSE @]

\* invalidateReadWork: whatever is being read belongs to an earlier epoch.
Invalidated(c) ==
  [c EXCEPT !.ready = FALSE, !.initial = "none",
            !.recon = IF @ = None THEN None ELSE [@ EXCEPT !.stale = TRUE]]

\* A closed stream is replaced by a new one in the same outage.
Replaced(c) ==
  LET disposed == [c EXCEPT !.connection = "connecting", !.timer = None, !.armed = FALSE,
                            !.ready = FALSE, !.initial = "none", !.recon = None,
                            !.pending = None, !.open = FALSE, !.hasOpened = FALSE] IN
  IF c.due \/ c.lost THEN Scheduled(disposed, FALSE) ELSE disposed

Later(c, scope) ==
  [c EXCEPT !.timer = IF @ = None \/ scope > @ THEN scope ELSE @]

\* A mutation that waited for the snapshot read still waits for its other reads.
Released(m) == IF m = "refreshing" THEN "settling" ELSE m

\* As it would be if only a complete read replaced a dead stream.
ReplacesIfReady(recon, outcome) ==
  "timer" \in recon.by /\ outcome = "ready" /\ link = "dead"

\* A probe that the timer started has found the server there but the stream dead.
Replaces(recon, outcome) ==
  "timer" \in recon.by /\ outcome \in Succeeded /\ link = "dead"

\* What follows at once from a handler that leaves the store in state c: a
\* turn that has begun asks for a snapshot, and one that was the last is published.
Follows(c, r) ==
  LET at == IF c.recon = None THEN "none" ELSE c.recon.at
      outcome == Outcome(c.recon)
      replaced == at = "ended" /\ Replaces(c.recon, outcome) IN
  /\ client' = CASE at = "ask" -> [c EXCEPT !.recon.at = "snapshot"]
               [] at = "ended" -> IF replaced THEN Replaced(Ended(c)) ELSE Ended(c)
               [] OTHER -> c
  /\ reader' = CASE at = "ask" -> Asked(r) [] replaced -> Idle [] OTHER -> r
  /\ link' = IF replaced THEN "connecting" ELSE link

-----------------------------------------------------------------------------
\* refreshCurrentFolder has been called, then connectEvents.
Init ==
  /\ disk = 1 /\ gen = 1 /\ owed = FALSE /\ base = <<1>>
  /\ link = "connecting" /\ inbox = None
  /\ reader = Asked(Idle) /\ snap = [g |-> 0, v |-> 0]
  /\ client = [Turn([connection |-> "connecting", open |-> FALSE, hasOpened |-> FALSE,
                    lost |-> FALSE, due |-> FALSE, armed |-> FALSE, ready |-> FALSE,
                    initial |-> "running", timer |-> None, pending |-> None, recon |-> None],
                   Full, "unready", {}) EXCEPT !.recon.at = "snapshot"]
  /\ mutation = "idle"
  /\ missed = FALSE /\ changes = 0 /\ acts = 0 /\ faults = 0

Act == acts < MaxActs /\ acts' = acts + 1
Fault == faults < MaxFaults /\ faults' = faults + 1

-----------------------------------------------------------------------------
(* The server.                                                             *)

Change ==
  /\ changes < MaxChanges /\ changes' = changes + 1
  /\ disk' = disk + 1 /\ owed' = Watching
  /\ UNCHANGED <<gen, base, link, inbox, reader, snap, client, mutation, missed,
                 acts, faults>>

\* The hub hears of the change: the generation first, then the streams.
Invalidate ==
  /\ owed /\ owed' = FALSE
  /\ gen' = gen + 1 /\ base' = Append(base, disk)
  /\ IF link = "open" THEN \E scope \in {0, 1} : inbox' = IF inbox = 1 THEN 1 ELSE scope
     ELSE UNCHANGED inbox
  /\ UNCHANGED <<disk, link, reader, snap, client, mutation, missed, boundVars>>

LoadGeneration ==
  /\ reader.at = "load"
  /\ reader' = [reader EXCEPT !.at = "read", !.g = gen]
  /\ UNCHANGED <<serverVars, link, inbox, snap, client, mutation, missed, boundVars>>

ReadRepository ==
  /\ reader.at = "read"
  /\ reader' = [reader EXCEPT !.at = "check", !.v = disk]
  /\ UNCHANGED <<serverVars, link, inbox, snap, client, mutation, missed, boundVars>>

\* As it would be if it read again for as long as the generation moves.
StampInsists ==
  /\ reader.at = "check"
  /\ \/ reader.g = gen /\ reader' = [reader EXCEPT !.at = "answer"]
     \/ reader.g # gen /\ reader' = [reader EXCEPT !.at = "load", !.tries = @ + 1]
  /\ UNCHANGED <<serverVars, link, inbox, snap, client, mutation, missed, boundVars>>

\* As it would be if the generation were not compared again.
StampUnchecked ==
  /\ reader.at = "check" /\ reader' = [reader EXCEPT !.at = "answer"]
  /\ UNCHANGED <<serverVars, link, inbox, snap, client, mutation, missed, boundVars>>

Stamp ==
  /\ reader.at = "check"
  /\ \/ reader.g = gen /\ reader' = [reader EXCEPT !.at = "answer"]
     \/ /\ reader.g # gen /\ reader.tries < 3
        /\ reader' = [reader EXCEPT !.at = "load", !.tries = @ + 1]
     \/ reader.g # gen /\ reader.tries = 3 /\ reader' = [reader EXCEPT !.at = "failed"]
  /\ UNCHANGED <<serverVars, link, inbox, snap, client, mutation, missed, boundVars>>

ReadFails ==
  /\ reader.at \in {"load", "read", "check", "answer"} /\ Fault
  /\ reader' = [reader EXCEPT !.at = "failed"]
  /\ UNCHANGED <<serverVars, link, inbox, snap, client, mutation, missed,
                 changes, acts>>

-----------------------------------------------------------------------------
(* The client's reads.                                                     *)

\* The one reader takes an answer over, and reads again if it was asked to.
ReadEnds ==
  LET stale == reader.at = "answer" /\ reader.g < snap.g
      result == IF reader.at = "failed" THEN "failed"
                ELSE IF stale THEN "obsolete" ELSE "succeeded"
      idle == IF reader.again THEN Asked(Idle) ELSE Idle
      waiting == client.recon # None /\ client.recon.at = "snapshot" /\ ~client.recon.stale IN
  /\ reader.at \in {"answer", "failed"}
  /\ snap' = IF result = "succeeded" /\ reader.g > snap.g THEN [g |-> reader.g, v |-> reader.v]
             ELSE snap
  /\ missed' = (missed /\ ~(result = "succeeded" /\ reader.g = gen))
  /\ mutation' = IF reader.again THEN mutation ELSE Released(mutation)
  /\ \E more \in Extras :
       Follows(IF waiting /\ ~reader.again THEN Continued(client, result, more) ELSE client, idle)
  /\ UNCHANGED <<serverVars, inbox, boundVars>>

\* Explorer and Git reads: they fail, or newer reads make them obsolete.
DetailsEnd ==
  /\ client.recon # None /\ client.recon.at = "details" /\ ~client.recon.stale
  /\ \/ /\ UNCHANGED faults
        /\ LET ready == client.ready \/ client.recon.intent.scope = Everything IN
           Follows(Settled([client EXCEPT !.ready = ready],
                           IF ready THEN "ready" ELSE "unready"), reader)
     \/ /\ Fault
        /\ \E outcome \in {"failed", "obsolete"} :
             Follows(Settled([client EXCEPT !.ready = FALSE], outcome), reader)
  /\ UNCHANGED <<serverVars, inbox, snap, mutation, missed, changes, acts>>

\* Whatever a turn of an earlier epoch waited for has ended.
ObsoleteTurnEnds ==
  /\ client.recon # None /\ client.recon.stale
  /\ Follows(Settled(client, "obsolete"), reader)
  /\ UNCHANGED <<serverVars, inbox, snap, mutation, missed, boundVars>>

-----------------------------------------------------------------------------
(* The event stream and the timers.                                        *)

\* The browser has connected it.
SourceOpens ==
  LET c == [client EXCEPT !.open = TRUE, !.hasOpened = TRUE, !.lost = FALSE, !.armed = FALSE]
      reconciling == [c EXCEPT !.connection = "reconciling"] IN
  /\ link = "connecting" /\ link' = "open"
  /\ LET next == IF client.initial = "running" THEN reconciling
                 ELSE IF ~client.hasOpened /\ client.initial \in Succeeded
                      THEN Finished(c, client.initial)
                 ELSE IF client.initial # "none" THEN Started(c, Full, {})
                 ELSE IF client.hasOpened THEN Later(reconciling, Everything)
                 ELSE Started(reconciling, Full, {})
         asks == next.recon # None /\ next.recon.at = "ask" IN
     /\ client' = IF asks THEN [next EXCEPT !.recon.at = "snapshot"] ELSE next
     /\ reader' = IF asks THEN Asked(reader) ELSE reader
     /\ missed' = (snap.g # gen /\ ~asks /\ next.pending = None /\ next.timer = None)
  /\ UNCHANGED <<serverVars, inbox, snap, mutation, boundVars>>

StreamBreaks ==
  /\ link = "open" /\ Fault /\ link' = "broken"
  /\ UNCHANGED <<serverVars, inbox, reader, snap, client, mutation, missed,
                 changes, acts>>

\* The browser reports an error; it tries again by itself unless the stream is dead.
SourceFails ==
  /\ \/ link = "broken" /\ UNCHANGED faults
     \/ link = "connecting" /\ Fault
  /\ link' \in {"connecting", "dead"} /\ inbox' = None
  /\ client' = Scheduled([Invalidated(client) EXCEPT !.open = FALSE, !.lost = TRUE,
                                                     !.connection = "reconnecting"], FALSE)
  /\ reader' = Idle /\ mutation' = Released(mutation)
  /\ UNCHANGED <<serverVars, snap, missed,
                 changes, acts>>

EventArrives ==
  /\ inbox # None /\ inbox' = None
  /\ client' = Later(client, inbox)
  /\ UNCHANGED <<serverVars, link, reader, snap, mutation, missed, boundVars>>

RefreshTimer ==
  /\ client.timer # None
  /\ Follows(Started([client EXCEPT !.timer = None],
                     [probe |-> ~client.open, scope |-> client.timer], {}), reader)
  /\ UNCHANGED <<serverVars, inbox, snap, mutation, missed, boundVars>>

RecoveryTimer ==
  /\ client.armed
  /\ Follows(IF client.recon # None THEN [client EXCEPT !.armed = FALSE]
             ELSE Started([client EXCEPT !.armed = FALSE, !.due = FALSE], Probe(client),
                          {"timer"}), reader)
  /\ UNCHANGED <<serverVars, inbox, snap, mutation, missed, boundVars>>

-----------------------------------------------------------------------------
(* The user.                                                               *)

\* refreshCurrentFolder; one that is under way is waited for instead.
Refresh ==
  /\ Act /\ client.initial # "running"
  /\ Follows(Started([client EXCEPT !.initial = "running"], Full, {}), reader)
  /\ UNCHANGED <<serverVars, inbox, snap, mutation, missed, changes, faults>>

\* retryConnection: a dead stream is replaced first.
Retry ==
  /\ Act /\ client.connection # "connected"
  /\ LET dead == link = "dead"
         c == IF dead THEN [Replaced(client) EXCEPT !.armed = FALSE]
              ELSE [client EXCEPT !.armed = FALSE]
         probing == IF c.recon = None
                    THEN [Turn([c EXCEPT !.due = FALSE], Probe(c), "unready", {"retry"})
                            EXCEPT !.recon.at = "snapshot"]
                    ELSE [c EXCEPT !.recon.by = @ \cup {"retry"}] IN
     /\ client' = Scheduled(probing, FALSE)
     /\ reader' = IF c.recon = None THEN Asked(IF dead THEN Idle ELSE reader) ELSE reader
     /\ link' = IF dead THEN "connecting" ELSE link
     /\ mutation' = IF dead THEN Released(mutation) ELSE mutation
  /\ UNCHANGED <<serverVars, inbox, snap, missed,
                 changes, faults>>

Mutate ==
  /\ Act /\ mutation = "idle" /\ client.connection = "connected"
  /\ mutation' = "calling"
  /\ UNCHANGED <<serverVars, link, inbox, reader, snap, client, missed,
                 changes, faults>>

\* The command changes the disk, or it fails before it does.
MutationRuns ==
  /\ mutation = "calling" /\ mutation' = "applied"
  /\ \/ disk' = disk + 1 /\ owed' = Watching
     \/ UNCHANGED <<disk, owed>>
  /\ UNCHANGED <<gen, base, link, inbox, reader, snap, client, missed, boundVars>>

\* Only one that succeeds advances the generation; the client reads either way.
MutationAnswered ==
  /\ mutation = "applied" /\ mutation' = "refreshing"
  /\ \/ gen' = gen + 1 /\ base' = Append(base, disk)
     \/ UNCHANGED <<gen, base>>
  /\ reader' = Asked(reader)
  /\ UNCHANGED <<disk, owed, link, inbox, snap, client, missed, boundVars>>

MutationEnds ==
  /\ mutation = "settling" /\ mutation' = "idle"
  /\ UNCHANGED <<serverVars, link, inbox, reader, snap, client, missed, boundVars>>

-----------------------------------------------------------------------------
ServerStep == Invalidate \/ LoadGeneration \/ ReadRepository \/ Stamp
ClientStep == ReadEnds \/ DetailsEnd \/ ObsoleteTurnEnds
StreamStep == SourceOpens \/ SourceFails \/ EventArrives
MutationStep == MutationRuns \/ MutationAnswered \/ MutationEnds

Next ==
  \/ Change \/ ServerStep \/ ReadFails
  \/ ClientStep \/ StreamStep \/ StreamBreaks \/ RefreshTimer \/ RecoveryTimer
  \/ Refresh \/ Retry \/ Mutate \/ MutationStep

Spec == Init /\ [][Next]_vars

(* Requests are answered, streams open unless they are dead, timers fire.  *)
(* The user and the disk need not do anything, and faults are bounded.     *)
FairSpec ==
  /\ Spec
  /\ WF_vars(Invalidate) /\ WF_vars(LoadGeneration \/ ReadRepository \/ Stamp)
  /\ WF_vars(ClientStep) /\ WF_vars(MutationStep)
  /\ WF_vars(SourceOpens) /\ WF_vars(link = "broken" /\ SourceFails) /\ WF_vars(EventArrives)
  /\ WF_vars(RefreshTimer) /\ WF_vars(RecoveryTimer)

-----------------------------------------------------------------------------
\* Version v was on disk at a moment at which the generation was g.
SeenAt(v, g) == base[g] <= v /\ (g < gen => v <= base[g + 1])

(* What is answered and shown was on disk at a moment at which its         *)
(* generation was current, so two readers of one generation see no state   *)
(* that belongs to another: the server compares generations around its     *)
(* read, and the client takes over both or neither.                        *)
StampIsTruthful ==
  /\ snap.g > 0 => SeenAt(snap.v, snap.g)
  /\ reader.at = "answer" => SeenAt(reader.v, reader.g)

Quiet ==
  /\ ~owed /\ inbox = None /\ link = "open" /\ mutation = "idle" /\ reader.at = "idle"
  /\ client.connection = "connected" /\ client.timer = None /\ client.recon = None

(* When nothing is under way any more, a connected client shows the disk,  *)
(* whatever failed, was lost or overlapped on the way, unless an event     *)
(* came before its first stream.                                           *)
QuietIsCurrent == Quiet /\ ~missed => snap.v = disk

OnItsWay ==
  \/ client.connection = "connected" \/ client.recon # None
  \/ client.armed \/ client.timer # None \/ link \in {"connecting", "broken"}

(* A view that is not connected is on its way: a reconciliation, a timer   *)
(* or a stream that is about to open goes on by itself, so nobody has to   *)
(* press Retry.  The exception is a refresh by hand that has only probed.  *)
NeverStranded == client.initial # "unready" => OnItsWay

(* ... without that exception: an open stream never strands recovery.      *)
OpenNeverStrandsRecovery == link = "open" => OnItsWay

(* In the end the client is connected and shows the disk.                  *)
BecomesCurrent ==
  <>[]((client.connection = "connected" \/ client.initial = "unready")
       /\ (missed \/ snap.v = disk))

(* A refresh by hand shows what it has read.                               *)
RefreshShowsWhatItRead ==
  [][ReadEnds /\ reader.at = "answer" /\ client.initial = "running" => snap'.v >= reader.v]_vars
=============================================================================
