----------------------- MODULE RepositoryClientProofs ------------------------
(***************************************************************************)
(* Proofs about the client's store, its event stream and the server's      *)
(* stamped reads, for any number of changes, actions of the user and       *)
(* faults: what is answered and shown was on disk at a moment at which its *)
(* generation was current; a view that is not connected has something      *)
(* under way; and, with a watcher, a connected client at rest shows the    *)
(* disk.  The invariant says what the store knows of its stream (Well),    *)
(* what takes it on (Going), and where a change it does not show is on its *)
(* way: on the server, in the inbox, or asked for (OnWay).                 *)
(***************************************************************************)
EXTENDS RepositoryClient, TLAPS

Readers == [at : {"idle", "load", "read", "check", "answer", "failed"}, g : Nat, v : Nat,
            tries : Nat, again : BOOLEAN]

\* What the reader may hold while it is at each of its steps.
ReaderOK(r) ==
  /\ r \in Readers
  /\ r.g <= gen
  /\ r.at \in {"read", "check", "answer"} => r.g > 0
  /\ r.at \in {"check", "answer"} => r.v <= disk /\ base[r.g] <= r.v
  /\ r.at = "answer" => SeenAt(r.v, r.g)

\* Generations stand for versions in the order in which the disk had them.
BaseOK ==
  /\ disk \in Nat /\ gen \in Nat \ {0}
  /\ base \in Seq(Nat) /\ Len(base) = gen
  /\ \A g \in 1..gen : base[g] <= disk

SnapOK ==
  /\ snap \in [g : Nat, v : Nat] /\ snap.g <= gen
  /\ snap.g > 0 => SeenAt(snap.v, snap.g) /\ snap.v <= disk

StampInv == BaseOK /\ ReaderOK(reader) /\ SnapOK

-----------------------------------------------------------------------------
\* A reader that is idle, starts over or is asked to read again holds nothing wrong.
LEMMA IdleReader ==
  ASSUME BaseOK PROVE ReaderOK(Idle) /\ ReaderOK(Asked(Idle))
<1>1. gen \in Nat
  BY DEF BaseOK
<1>2. ReaderOK(Idle)
  BY <1>1 DEF ReaderOK, Readers, SeenAt, Idle
<1>3. Asked(Idle) = [at |-> "load", g |-> 0, v |-> 0, tries |-> 1, again |-> FALSE]
  BY DEF Asked, Idle
<1>4. ReaderOK(Asked(Idle))
  BY <1>1, <1>3 DEF ReaderOK, Readers, SeenAt
<1> QED
  BY <1>2, <1>4

LEMMA AskedReader ==
  ASSUME BaseOK, NEW r, ReaderOK(r) PROVE ReaderOK(Asked(r))
<1>1. CASE r.at = "idle"
  BY <1>1, IdleReader DEF Asked, Idle
<1>2. CASE r.at # "idle"
  <2>1. Asked(r) = [r EXCEPT !.again = TRUE]
    BY <1>2 DEF Asked
  <2> QED
    BY <2>1 DEF ReaderOK, Readers, SeenAt
<1> QED
  BY <1>1, <1>2

\* Whatever follows from a handler leaves the reader as it is, asks it or resets it.
LEMMA FollowsReader ==
  ASSUME NEW c, NEW r, Follows(c, r)
  PROVE  reader' \in {r, Asked(r), Idle}
BY DEF Follows

\* A step that leaves the server alone keeps what was true of it.
LEMMA SameServer ==
  ASSUME StampInv, UNCHANGED <<disk, gen, base, snap>>,
         reader' \in {reader, Asked(reader), Idle, Asked(Idle)}
  PROVE  StampInv'
<1>1. ReaderOK(reader')
  BY IdleReader, AskedReader DEF StampInv
<1> QED
  BY <1>1 DEF StampInv, BaseOK, ReaderOK, Readers, SnapOK, SeenAt

\* The disk changes under the generation it has.
LEMMA DiskChanges ==
  ASSUME StampInv, disk' = disk + 1, UNCHANGED <<gen, base, snap, reader>>
  PROVE  StampInv'
<1>1. BaseOK'
  BY DEF StampInv, BaseOK
<1>2. SnapOK'
  BY DEF StampInv, BaseOK, SnapOK, SeenAt
<1>3. ReaderOK(reader)'
  BY DEF StampInv, BaseOK, ReaderOK, Readers, SeenAt
<1> QED
  BY <1>1, <1>2, <1>3 DEF StampInv

\* The generation advances to stand for what is on disk: whatever was read
\* before was there before.
LEMMA GenerationAdvances ==
  ASSUME StampInv, gen' = gen + 1, base' = Append(base, disk), UNCHANGED <<disk, snap>>,
         reader' \in {reader, Asked(reader)}
  PROVE  StampInv'
<1>1. /\ disk \in Nat /\ gen \in Nat \ {0} /\ base \in Seq(Nat) /\ Len(base) = gen
      /\ \A g \in 1..gen : base[g] <= disk
  BY DEF StampInv, BaseOK
<1>2. base' \in Seq(Nat) /\ Len(base') = gen + 1 /\ base'[gen + 1] = disk
  BY <1>1
<1>3. \A g \in 1..gen : base'[g] = base[g]
  BY <1>1
<1>4. BaseOK'
  BY <1>1, <1>2, <1>3 DEF BaseOK
<1>5. ASSUME NEW g \in 1..gen, NEW v \in Nat, v <= disk, SeenAt(v, g)
      PROVE  SeenAt(v, g)'
  <2>1. base'[g] <= v
    BY <1>3, <1>5 DEF SeenAt
  <2>2. CASE g < gen
    <3>1. base'[g + 1] = base[g + 1]
      BY <1>1, <1>3, <2>2
    <3> QED
      BY <1>5, <2>1, <2>2, <3>1 DEF SeenAt
  <2>3. CASE g = gen
    BY <1>2, <1>5, <2>1, <2>3 DEF SeenAt
  <2> QED
    BY <1>1, <2>2, <2>3
<1>6. SnapOK'
  <2>1. snap \in [g : Nat, v : Nat] /\ snap.g <= gen
        /\ (snap.g > 0 => SeenAt(snap.v, snap.g) /\ snap.v <= disk)
    BY DEF StampInv, SnapOK
  <2>2. snap.g > 0 => SeenAt(snap.v, snap.g)'
    BY <1>1, <1>5, <2>1
  <2> QED
    BY <1>1, <2>1, <2>2 DEF SnapOK
<1>7. ReaderOK(reader')
  BY AskedReader DEF StampInv
<1>8. ReaderOK(reader)'
  <2> DEFINE r == reader'
  <2>1. /\ r \in [at : {"idle", "load", "read", "check", "answer", "failed"}, g : Nat, v : Nat,
                  tries : Nat, again : BOOLEAN]
        /\ r.g <= gen
        /\ r.at \in {"read", "check", "answer"} => r.g > 0
        /\ r.at \in {"check", "answer"} => r.v <= disk /\ base[r.g] <= r.v
        /\ r.at = "answer" => SeenAt(r.v, r.g)
    BY <1>7 DEF ReaderOK, Readers
  <2>2. r.at \in {"check", "answer"} => base'[r.g] = base[r.g]
    BY <1>1, <1>3, <2>1
  <2>3. r.at = "answer" => base'[r.g] <= r.v /\ (r.g < gen + 1 => r.v <= base'[r.g + 1])
    <3> SUFFICES ASSUME r.at = "answer"
                 PROVE  base'[r.g] <= r.v /\ (r.g < gen + 1 => r.v <= base'[r.g + 1])
      OBVIOUS
    <3>1. CASE r.g = gen
      BY <1>2, <2>1, <2>2, <3>1
    <3>2. CASE r.g < gen
      <4>1. base'[r.g + 1] = base[r.g + 1] /\ r.v <= base[r.g + 1]
        BY <1>1, <1>3, <2>1, <3>2 DEF SeenAt
      <4> QED
        BY <2>1, <2>2, <4>1
    <3> QED
      BY <1>1, <2>1, <3>1, <3>2
  <2>4. r.g <= gen + 1
    BY <1>1, <2>1
  <2> QED
    BY <2>1, <2>2, <2>3, <2>4 DEF ReaderOK, Readers, SeenAt
<1> QED
  BY <1>4, <1>6, <1>8 DEF StampInv

-----------------------------------------------------------------------------
LEMMA InitStampInv == Init => StampInv
<1> SUFFICES ASSUME Init PROVE StampInv
  OBVIOUS
<1>1. BaseOK
  BY DEF Init, BaseOK
<1>2. ReaderOK(reader)
  BY <1>1, IdleReader DEF Init
<1>3. SnapOK
  BY DEF Init, SnapOK
<1> QED
  BY <1>1, <1>2, <1>3 DEF StampInv

\* The server's read: the generation first, then the repository, then the comparison.
LEMMA ServerReads ==
  ASSUME StampInv, LoadGeneration \/ ReadRepository \/ Stamp \/ ReadFails
  PROVE  StampInv'
<1>1. /\ BaseOK /\ ReaderOK(reader) /\ SnapOK
      /\ UNCHANGED <<disk, gen, base, snap>>
  BY DEF StampInv, LoadGeneration, ReadRepository, Stamp, ReadFails, serverVars
<1>2. BaseOK' /\ SnapOK'
  BY <1>1 DEF BaseOK, SnapOK, SeenAt
<1>3. ASSUME ReaderOK(reader') PROVE StampInv'
  BY <1>1, <1>2, <1>3 DEF StampInv, ReaderOK, SeenAt
<1>4. gen \in Nat \ {0} /\ disk \in Nat /\ \A g \in 1..gen : base[g] <= disk
  BY <1>1 DEF BaseOK
<1>5. reader \in Readers
  BY <1>1 DEF ReaderOK
<1>6. CASE LoadGeneration
  <2>1. reader' = [reader EXCEPT !.at = "read", !.g = gen]
    BY <1>6 DEF LoadGeneration
  <2>2. reader' \in Readers /\ reader'.at = "read" /\ reader'.g = gen
    BY <1>4, <1>5, <2>1 DEF Readers
  <2>3. ReaderOK(reader')
    BY <1>4, <2>2 DEF ReaderOK
  <2> QED
    BY <1>3, <2>3
<1>7. CASE ReadRepository
  <2>1. reader' = [reader EXCEPT !.at = "check", !.v = disk] /\ reader.at = "read"
    BY <1>7 DEF ReadRepository
  <2>2. reader.g \in 1..gen
    BY <1>1, <1>4, <2>1 DEF ReaderOK, Readers
  <2>3. /\ reader' \in Readers
        /\ reader'.at = "check" /\ reader'.g = reader.g /\ reader'.v = disk
    BY <1>4, <1>5, <2>1 DEF Readers
  <2>4. ReaderOK(reader')
    BY <1>4, <2>2, <2>3 DEF ReaderOK
  <2> QED
    BY <1>3, <2>4
<1>8. CASE Stamp
  <2>1. reader.at = "check"
    BY <1>8 DEF Stamp
  <2>2. CASE reader.g = gen /\ reader' = [reader EXCEPT !.at = "answer"]
    <3>1. /\ reader' \in Readers
          /\ reader'.at = "answer" /\ reader'.g = gen /\ reader'.v = reader.v
      BY <1>5, <2>2 DEF Readers
    <3>2. reader.v <= disk /\ base[gen] <= reader.v
      BY <1>1, <2>1, <2>2 DEF ReaderOK
    <3>3. ReaderOK(reader')
      BY <1>4, <3>1, <3>2 DEF ReaderOK, SeenAt
    <3> QED
      BY <1>3, <3>3
  <2>3. CASE \/ reader' = [reader EXCEPT !.at = "load", !.tries = @ + 1]
             \/ reader' = [reader EXCEPT !.at = "failed"]
    <3>1. reader' \in Readers /\ reader'.at \in {"load", "failed"} /\ reader'.g = reader.g
      <4>1. CASE reader' = [reader EXCEPT !.at = "load", !.tries = @ + 1]
        <5>1. reader.tries + 1 \in Nat
          BY <1>5 DEF Readers
        <5>2. PICK t \in Nat : reader' = [reader EXCEPT !.at = "load", !.tries = t]
          BY <4>1, <5>1
        <5> QED
          BY <1>5, <5>2 DEF Readers
      <4>2. CASE reader' = [reader EXCEPT !.at = "failed"]
        BY <1>5, <4>2 DEF Readers
      <4> QED
        BY <2>3, <4>1, <4>2
    <3>2. ReaderOK(reader')
      BY <1>1, <3>1 DEF ReaderOK
    <3> QED
      BY <1>3, <3>2
  <2> QED
    BY <1>8, <2>2, <2>3 DEF Stamp
<1>9. CASE ReadFails
  <2>1. reader' = [reader EXCEPT !.at = "failed"]
    BY <1>9 DEF ReadFails
  <2>2. reader' \in Readers /\ reader'.at = "failed" /\ reader'.g = reader.g
    BY <1>5, <2>1 DEF Readers
  <2>3. ReaderOK(reader')
    BY <1>1, <2>2 DEF ReaderOK
  <2> QED
    BY <1>3, <2>3
<1> QED
  BY <1>6, <1>7, <1>8, <1>9

\* The client takes generation and version over together, or neither.
LEMMA ClientReads ==
  ASSUME StampInv, ReadEnds
  PROVE  StampInv'
<1>1. BaseOK /\ ReaderOK(reader) /\ SnapOK /\ UNCHANGED <<disk, gen, base>>
  BY DEF StampInv, ReadEnds, serverVars
<1>2. BaseOK'
  BY <1>1 DEF BaseOK
<1>3. SnapOK'
  <2>1. CASE snap' = snap
    BY <1>1, <2>1 DEF SnapOK, SeenAt
  <2>2. CASE reader.at = "answer" /\ snap' = [g |-> reader.g, v |-> reader.v]
    BY <1>1, <2>2 DEF SnapOK, ReaderOK, Readers, SeenAt
  <2>3. snap' = snap \/ (reader.at = "answer" /\ snap' = [g |-> reader.g, v |-> reader.v])
    BY DEF ReadEnds
  <2> QED
    BY <2>1, <2>2, <2>3
<1>4. reader' \in {Idle, Asked(Idle), Asked(Asked(Idle))}
  <2> DEFINE idle == IF reader.again THEN Asked(Idle) ELSE Idle
  <2>1. \E c : Follows(c, idle)
    BY DEF ReadEnds
  <2>2. reader' \in {idle, Asked(idle), Idle}
    BY <2>1, FollowsReader
  <2> QED
    BY <2>2
<1>5. ReaderOK(reader')
  BY <1>1, <1>4, IdleReader, AskedReader
<1>6. ReaderOK(reader)'
  BY <1>1, <1>5 DEF ReaderOK, SeenAt
<1> QED
  BY <1>2, <1>3, <1>6 DEF StampInv

\* Everything else the client does only asks the reader or resets it.
LEMMA ClientFollows ==
  ASSUME StampInv,
         DetailsEnd \/ ObsoleteTurnEnds \/ RefreshTimer \/ RecoveryTimer \/ Refresh
  PROVE  StampInv'
<1>1. \E c : Follows(c, reader)
  BY DEF DetailsEnd, ObsoleteTurnEnds, RefreshTimer, RecoveryTimer, Refresh
<1>2. reader' \in {reader, Asked(reader), Idle}
  BY <1>1, FollowsReader
<1>3. UNCHANGED <<disk, gen, base, snap>>
  BY DEF DetailsEnd, ObsoleteTurnEnds, RefreshTimer, RecoveryTimer, Refresh, serverVars
<1> QED
  BY <1>2, <1>3, SameServer

LEMMA StampStep == StampInv /\ [Next]_vars => StampInv'
<1> SUFFICES ASSUME StampInv, [Next]_vars PROVE StampInv'
  OBVIOUS
<1>1. CASE Change
  BY <1>1, DiskChanges DEF Change
<1>2. CASE Invalidate
  BY <1>2, GenerationAdvances DEF Invalidate
<1>3. CASE LoadGeneration \/ ReadRepository \/ Stamp \/ ReadFails
  BY <1>3, ServerReads
<1>4. CASE ReadEnds
  BY <1>4, ClientReads
<1>5. CASE DetailsEnd \/ ObsoleteTurnEnds \/ RefreshTimer \/ RecoveryTimer \/ Refresh
  BY <1>5, ClientFollows
<1>6. CASE SourceOpens
  <2>1. reader' \in {reader, Asked(reader)} /\ UNCHANGED <<disk, gen, base, snap>>
    BY <1>6 DEF SourceOpens, serverVars
  <2> QED
    BY <2>1, SameServer
<1>7. CASE SourceFails
  <2>1. reader' = Idle /\ UNCHANGED <<disk, gen, base, snap>>
    BY <1>7 DEF SourceFails, serverVars
  <2> QED
    BY <2>1, SameServer
<1>8. CASE Retry
  <2>1. reader' \in {reader, Asked(reader), Asked(Idle)} /\ UNCHANGED <<disk, gen, base, snap>>
    BY <1>8 DEF Retry, serverVars
  <2> QED
    BY <2>1, SameServer
<1>9. CASE StreamBreaks \/ EventArrives \/ Mutate \/ MutationEnds
  <2>1. UNCHANGED <<disk, gen, base, snap, reader>>
    BY <1>9 DEF StreamBreaks, EventArrives, Mutate, MutationEnds, serverVars
  <2> QED
    BY <2>1, SameServer
<1>10. CASE MutationRuns
  <2>1. UNCHANGED <<gen, base, snap, reader>> /\ (disk' = disk + 1 \/ disk' = disk)
    BY <1>10 DEF MutationRuns
  <2> QED
    BY <2>1, DiskChanges, SameServer
<1>11. CASE MutationAnswered
  <2>1. /\ UNCHANGED <<disk, snap>> /\ reader' = Asked(reader)
        /\ \/ gen' = gen + 1 /\ base' = Append(base, disk)
           \/ UNCHANGED <<gen, base>>
    BY <1>11 DEF MutationAnswered
  <2> QED
    BY <2>1, GenerationAdvances, SameServer
<1>12. CASE UNCHANGED vars
  <2>1. UNCHANGED <<disk, gen, base, snap, reader>>
    BY <1>12 DEF vars, serverVars
  <2> QED
    BY <2>1, SameServer
<1> QED
  BY <1>1, <1>2, <1>3, <1>4, <1>5, <1>6, <1>7, <1>8, <1>9, <1>10, <1>11, <1>12
  DEF Next, ServerStep, ClientStep, StreamStep, MutationStep

(* What a snapshot shows was on disk at a moment at which its generation   *)
(* was current: the server's two comparisons around its read, and the      *)
(* client's taking over both or neither, see to it whatever fails, is lost *)
(* or overlaps.                                                            *)
THEOREM TruthfulStamps == Spec => []StampIsTruthful
<1>1. StampInv => StampIsTruthful
  BY DEF StampInv, SnapOK, ReaderOK, StampIsTruthful
<1> QED
  BY <1>1, InitStampInv, StampStep, PTL DEF Spec

-----------------------------------------------------------------------------
(* The inductive invariant of the store.                                   *)

Places == {"ask", "snapshot", "details", "ended"}
Links == {"connecting", "open", "broken", "dead"}

\* The store knows its stream: it is open when the client thinks so, and lost
\* unless it is open or about to.  Only a complete read asks for details, and
\* an intent waits for the turn under way.
Well(c, l) ==
  /\ c \in Clients(Places)
  /\ c.armed => c.due
  /\ c.open <=> l \in {"open", "broken"}
  /\ ~c.open => c.lost \/ l = "connecting"
  /\ c.connection = "connected" => c.open
  /\ c.initial = "running" => c.recon # None
  /\ c.recon # None /\ c.recon.at = "details" => ~c.recon.intent.probe
  /\ c.pending # None => c.recon # None /\ c.recon.at # "ended"

\* A store that is not connected has something under way that will take it on.
Going(c, l) ==
  c.initial # "unready" =>
    \/ c.connection = "connected" \/ c.recon # None
    \/ c.armed \/ c.timer # None \/ l \in {"connecting", "broken"}

\* Versions grow with their generations, the first of which none is shown of.
Ordered ==
  /\ \A g, h \in 1..gen : g <= h => base[g] <= base[h]
  /\ disk > 0 /\ (snap.g = 0 => snap.v = 0)

\* What the generation does not stand for is yet to be reported.
Reported == Watching => owed \/ base[gen] = disk

\* A read that will take a current snapshot over, or fail.
Fresh(r, g) ==
  r.again \/ r.at \in {"load", "read", "check", "failed"} \/ (r.at = "answer" /\ r.g = g)

\* A store that takes what it shows for current, or will when its turn succeeds.
Relying(c) ==
  IF c.recon = None THEN c.connection = "connected"
  ELSE ~c.recon.stale /\ ~c.recon.intent.probe

Shown == snap.v = disk \/ owed \/ inbox # None
Asking(c, r, g) ==
  \/ c.timer # None \/ c.pending # None
  \/ c.recon # None /\ c.recon.at = "snapshot" /\ Fresh(r, g)

\* Whatever a store that relies on its stream does not show is on its way.
OnWay ==
  Watching /\ link = "open" /\ ~missed /\ Relying(client) =>
    Shown \/ Asking(client, reader, gen)

Inv ==
  /\ TypeOK /\ StampInv /\ Ordered /\ Reported
  /\ Well(client, link) /\ Going(client, link) /\ OnWay

-----------------------------------------------------------------------------
(* The store's operations.                                                 *)

\* None is no scope, no intent and no reconciliation.
LEMMA Nothing ==
  None \notin Scopes /\ None \notin Intents /\ None \notin Recons(Places)
BY ClientAssumption DEF Places

\* What no operation on the connection changes.
Keeps(d, c) ==
  /\ d.open = c.open /\ d.hasOpened = c.hasOpened /\ d.ready = c.ready
  /\ d.initial = c.initial /\ d.timer = c.timer /\ d.pending = c.pending
  /\ d.recon = c.recon

\* Scheduling a retry takes nothing but the timer, and arms only a retry that is due.
LEMMA ScheduledStore ==
  ASSUME NEW c \in Clients(Places), NEW force \in BOOLEAN
  PROVE  /\ Scheduled(c, force) \in Clients(Places)
         /\ Keeps(Scheduled(c, force), c)
         /\ Scheduled(c, force).connection = c.connection
         /\ Scheduled(c, force).lost = c.lost
         /\ (c.armed => c.due) =>
              (Scheduled(c, force).armed => Scheduled(c, force).due)
         /\ c.connection # "connected" /\ c.recon = None => Scheduled(c, force).armed
<1> DEFINE due == c.due \/ c.recon = None
           armed == (c.armed /\ ~force) \/ (due /\ c.recon = None)
<1>1. CASE c.connection = "connected"
  BY <1>1 DEF Scheduled, Keeps
<1>2. CASE c.connection # "connected"
  <2>1. Scheduled(c, force) = [c EXCEPT !.due = due, !.armed = armed]
    BY <1>2 DEF Scheduled
  <2>2. /\ due \in BOOLEAN /\ armed \in BOOLEAN
        /\ (c.armed => c.due) => (armed => due)
        /\ c.recon = None => armed
    BY DEF Clients
  <2> HIDE DEF due, armed
  <2> QED
    BY <1>2, <2>1, <2>2 DEF Clients, Keeps
<1> QED
  BY <1>1, <1>2

\* A reconciliation that finishes connects an open store that is ready, and no other.
LEMMA FinishedStore ==
  ASSUME NEW c \in Clients(Places), NEW outcome \in Outcomes
  PROVE  /\ Finished(c, outcome) \in Clients(Places)
         /\ Keeps(Finished(c, outcome), c)
         /\ Finished(c, outcome).connection = "connected" <=> outcome = "ready" /\ c.open
         /\ Finished(c, outcome).connection # "connected" =>
              Finished(c, outcome).lost = c.lost
         /\ (c.armed => c.due) =>
              (Finished(c, outcome).armed => Finished(c, outcome).due)
<1> DEFINE d == Finished(c, outcome)
<1>1. CASE outcome = "ready" /\ c.open
  <2>1. d = [c EXCEPT !.connection = "connected", !.lost = FALSE, !.due = FALSE, !.armed = FALSE]
    BY <1>1 DEF Finished
  <2> HIDE DEF d
  <2>2. /\ d \in Clients(Places) /\ Keeps(d, c) /\ d.connection = "connected" /\ ~d.armed
    BY <2>1 DEF Clients, Keeps
  <2> QED
    BY <1>1, <2>2 DEF d
<1>2. CASE ~(outcome = "ready" /\ c.open)
  <2>1. PICK connection \in {"connecting", "reconnecting", "reconciling"} :
          d = [c EXCEPT !.connection = connection]
    BY <1>2 DEF Finished
  <2> HIDE DEF d
  <2>2. /\ d \in Clients(Places) /\ Keeps(d, c) /\ d.connection # "connected"
        /\ d.lost = c.lost /\ d.due = c.due /\ d.armed = c.armed
    BY <2>1 DEF Clients, Keeps
  <2> QED
    BY <1>2, <2>2 DEF d
<1> QED
  BY <1>1, <1>2

Asks(c, intent, outcome, by) ==
  [intent |-> intent, at |-> "ask", stale |-> FALSE, outcome |-> outcome, by |-> by]

\* A turn asks for its intent and leaves stream and timer alone.
LEMMA TurnStore ==
  ASSUME NEW c \in Clients(Places), NEW intent \in Intents, NEW outcome \in Outcomes,
         NEW by \in SUBSET {"timer", "retry"}
  PROVE  /\ Turn(c, intent, outcome, by) \in Clients(Places)
         /\ Turn(c, intent, outcome, by).recon = Asks(c, intent, outcome, by)
         /\ Turn(c, intent, outcome, by).recon # None
         /\ Turn(c, intent, outcome, by).open = c.open
         /\ Turn(c, intent, outcome, by).lost = c.lost
         /\ Turn(c, intent, outcome, by).initial = c.initial
         /\ Turn(c, intent, outcome, by).timer = c.timer
         /\ Turn(c, intent, outcome, by).connection = "connected" => c.open
         /\ (c.armed => c.due) =>
              (Turn(c, intent, outcome, by).armed => Turn(c, intent, outcome, by).due)
<1> DEFINE turned == [c EXCEPT !.pending = None, !.recon = Asks(c, intent, outcome, by)]
           t == Turn(c, intent, outcome, by)
<1>1. Asks(c, intent, outcome, by) \in Recons(Places)
  BY DEF Asks, Recons, Places
<1>2. /\ turned \in Clients(Places)
      /\ turned.recon = Asks(c, intent, outcome, by) /\ turned.open = c.open
      /\ turned.lost = c.lost /\ turned.initial = c.initial /\ turned.timer = c.timer
      /\ turned.due = c.due /\ turned.armed = c.armed
  BY <1>1 DEF Clients
<1> HIDE DEF turned
<1>3. "unready" \in Outcomes
  BY DEF Outcomes
<1>4. t = IF c.open /\ c.connection = "connected" THEN turned ELSE Finished(turned, "unready")
  BY DEF Turn, turned, Asks
<1>5. CASE c.open /\ c.connection = "connected"
  BY <1>1, <1>2, <1>4, <1>5, Nothing
<1>6. CASE ~(c.open /\ c.connection = "connected")
  BY <1>1, <1>2, <1>3, <1>4, <1>6, Nothing, FinishedStore DEF Keeps
<1> QED
  BY <1>5, <1>6

\* A started store has a reconciliation, and the stream it had.
LEMMA StartedStore ==
  ASSUME NEW c \in Clients(Places), NEW intent \in Intents,
         NEW by \in SUBSET {"timer", "retry"}
  PROVE  /\ Started(c, intent, by) \in Clients(Places)
         /\ Started(c, intent, by).recon # None
         /\ Started(c, intent, by).open = c.open
         /\ Started(c, intent, by).lost = c.lost
         /\ Started(c, intent, by).initial = c.initial
         /\ Started(c, intent, by).timer = c.timer
         /\ Started(c, intent, by).connection = "connected"
              => c.open \/ c.connection = "connected"
         /\ (c.armed => c.due) => (Started(c, intent, by).armed => Started(c, intent, by).due)
         /\ c.recon = None => Started(c, intent, by).recon = Asks(c, intent, "unready", by)
         /\ c.recon # None =>
              Started(c, intent, by).recon = c.recon /\ Started(c, intent, by).pending # None
<1>1. CASE c.recon = None
  BY <1>1, TurnStore DEF Started, Outcomes
<1>2. CASE c.recon # None
  <2>1. Merged(c.pending, intent) \in Intents
    BY DEF Merged, Intents, Scopes, Clients
  <2> QED
    BY <1>2, <2>1, Nothing DEF Started, Clients
<1> QED
  BY <1>1, <1>2

\* A turn that settles takes the pending intent on, or ends as complete as it was read.
LEMMA SettledStore ==
  ASSUME NEW c \in Clients(Places), c.recon # None, NEW outcome \in Outcomes
  PROVE  LET d == Settled(c, outcome) IN
         /\ d \in Clients(Places) /\ d.recon # None
         /\ d.open = c.open /\ d.lost = c.lost /\ d.initial = c.initial /\ d.timer = c.timer
         /\ d.connection = "connected" => c.open \/ c.connection = "connected"
         /\ (c.armed => c.due) => (d.armed => d.due)
         /\ c.pending # None => d.recon.at = "ask"
         /\ c.pending = None =>
              /\ d.pending = None /\ d.recon.at = "ended" /\ d.recon.stale = c.recon.stale
              /\ d.recon.outcome = "ready" => outcome = "ready"
<1> DEFINE d == Settled(c, outcome)
           kept == IF \/ outcome \notin Succeeded
                      \/ c.recon.intent.scope = Everything /\ ~c.recon.intent.probe
                      \/ c.recon.outcome \in Succeeded
                   THEN outcome ELSE c.recon.outcome
<1>1. c.recon \in Recons(Places)
  BY DEF Clients
<1>2. kept \in Outcomes /\ (kept = "ready" => outcome = "ready")
  BY <1>1 DEF Recons, Succeeded
<1>3. CASE c.pending = None
  <2>1. d = [c EXCEPT !.recon.outcome = kept, !.recon.at = "ended"]
    BY <1>3 DEF Settled
  <2> HIDE DEF kept
  <2> DEFINE ended == [c.recon EXCEPT !.outcome = kept, !.at = "ended"]
  <2>2. /\ ended \in Recons(Places) /\ ended.at = "ended" /\ ended.stale = c.recon.stale
        /\ ended.outcome = kept
    BY <1>1, <1>2 DEF Recons, Places
  <2>3. d = [c EXCEPT !.recon = ended]
    BY <1>1, <2>1 DEF Clients, Recons
  <2> HIDE DEF ended, d
  <2>4. /\ d \in Clients(Places) /\ d.recon = ended
        /\ d.open = c.open /\ d.lost = c.lost /\ d.initial = c.initial /\ d.timer = c.timer
        /\ d.connection = c.connection /\ d.armed = c.armed /\ d.due = c.due
        /\ d.pending = c.pending
    BY <2>2, <2>3 DEF Clients
  <2> QED
    BY <1>2, <1>3, <2>2, <2>4, Nothing DEF d
<1>4. CASE c.pending # None
  <2> DEFINE next == [c.pending EXCEPT !.probe = @ \/ ~c.open]
  <2>1. next \in Intents
    BY <1>4 DEF Clients, Intents
  <2>2. d = Turn(c, next, kept, c.recon.by)
    BY <1>4 DEF Settled
  <2>3. c.recon.by \in SUBSET {"timer", "retry"}
    BY <1>1 DEF Recons
  <2> HIDE DEF next, kept
  <2>4. /\ d \in Clients(Places) /\ d.recon # None
        /\ d.recon = Asks(c, next, kept, c.recon.by)
        /\ d.open = c.open /\ d.lost = c.lost /\ d.initial = c.initial /\ d.timer = c.timer
        /\ d.connection = "connected" => c.open
        /\ (c.armed => c.due) => (d.armed => d.due)
    BY <1>2, <2>1, <2>2, <2>3, TurnStore
  <2> HIDE DEF d
  <2>5. d.recon.at = "ask"
    BY <2>4 DEF Asks
  <2> QED
    BY <1>4, <2>4, <2>5 DEF d
<1> QED
  BY <1>3, <1>4

\* A store whose reconciliation ended is connected if it was read completely over an
\* open stream; if not, a retry is armed unless its first stream is still to open.
LEMMA EndedStore ==
  ASSUME NEW c \in Clients(Places), c.recon # None
  PROVE  LET d == Ended(c) IN
         /\ d \in Clients(Places) /\ d.recon = None
         /\ d.open = c.open /\ d.timer = c.timer /\ d.initial # "running"
         /\ d.pending = c.pending
         /\ d.connection = "connected" <=> Outcome(c.recon) = "ready" /\ c.open
         /\ d.connection # "connected" => d.lost = c.lost /\ (c.open \/ c.lost => d.armed)
         /\ (c.armed => c.due) => (d.armed => d.due)
<1> DEFINE outcome == Outcome(c.recon)
           bare == [c EXCEPT !.recon = None]
           finished == Finished(bare, outcome)
           owing == [finished EXCEPT !.due = FALSE]
           retries == finished.connection # "connected" /\ (outcome # "ready" \/ finished.lost)
           scheduled == IF retries THEN Scheduled([finished EXCEPT !.due = FALSE], TRUE)
                        ELSE finished
           published ==
             [scheduled EXCEPT !.initial = IF @ = "running" THEN outcome ELSE @]
           again == "retry" \in c.recon.by /\ (outcome \notin Succeeded \/ ~c.open)
<1>1. outcome \in Outcomes
  BY DEF Outcome, Clients, Recons, Outcomes
<1>2. Ended(c) = IF again THEN Scheduled(published, FALSE) ELSE published
  BY DEF Ended
<1>3. /\ bare \in Clients(Places) /\ bare.recon = None
      /\ bare.open = c.open /\ bare.timer = c.timer /\ bare.initial = c.initial
      /\ bare.lost = c.lost /\ bare.armed = c.armed /\ bare.due = c.due
      /\ bare.pending = c.pending
  BY DEF Clients
<1> HIDE DEF bare
<1>4. /\ finished \in Clients(Places) /\ finished.recon = None
      /\ finished.open = c.open /\ finished.timer = c.timer /\ finished.initial = c.initial
      /\ finished.pending = c.pending
      /\ finished.connection = "connected" <=> outcome = "ready" /\ c.open
      /\ finished.connection # "connected" => finished.lost = c.lost
      /\ (c.armed => c.due) => (finished.armed => finished.due)
  BY <1>1, <1>3, FinishedStore DEF Keeps
<1> HIDE DEF finished
<1>5. /\ scheduled \in Clients(Places) /\ scheduled.recon = None
      /\ scheduled.open = c.open /\ scheduled.timer = c.timer
      /\ scheduled.initial = c.initial /\ scheduled.pending = c.pending
      /\ scheduled.connection = "connected" <=> outcome = "ready" /\ c.open
      /\ scheduled.connection # "connected" =>
           scheduled.lost = c.lost /\ (c.open \/ c.lost => scheduled.armed)
      /\ (c.armed => c.due) => (scheduled.armed => scheduled.due)
  <2>1. CASE retries
    <3>1. scheduled = Scheduled(owing, TRUE)
      BY <2>1
    <3>2. /\ owing \in Clients(Places) /\ owing.recon = None
          /\ owing.open = c.open /\ owing.timer = c.timer /\ owing.initial = c.initial
          /\ owing.pending = c.pending
          /\ owing.connection = finished.connection /\ owing.connection # "connected"
          /\ owing.lost = c.lost
      BY <1>4, <2>1 DEF Clients
    <3> HIDE DEF owing, scheduled
    <3>3. Scheduled(owing, TRUE).armed
      BY <3>2, ScheduledStore
    <3>4. Scheduled(owing, TRUE).due
      BY <3>2, <2>1 DEF Scheduled, Clients
    <3> QED
      BY <1>4, <3>1, <3>2, <3>3, <3>4, ScheduledStore DEF Keeps
  <2>2. CASE ~retries
    BY <1>4, <2>2
  <2> QED
    BY <2>1, <2>2
<1> HIDE DEF scheduled
<1>6. /\ published \in Clients(Places) /\ published.recon = None
      /\ published.open = c.open /\ published.timer = c.timer
      /\ published.initial # "running" /\ published.pending = c.pending
      /\ published.connection = "connected" <=> outcome = "ready" /\ c.open
      /\ published.connection # "connected" =>
           published.lost = c.lost /\ (c.open \/ c.lost => published.armed)
      /\ (c.armed => c.due) => (published.armed => published.due)
  <2>1. (IF scheduled.initial = "running" THEN outcome ELSE scheduled.initial)
          \in {"none"} \cup Outcomes
    BY <1>1, <1>5 DEF Clients
  <2>2. PICK i \in {"none"} \cup Outcomes : published = [scheduled EXCEPT !.initial = i]
    BY <2>1
  <2> HIDE DEF published
  <2>3. /\ published \in Clients(Places) /\ published.recon = scheduled.recon
        /\ published.open = scheduled.open /\ published.timer = scheduled.timer
        /\ published.initial # "running" /\ published.connection = scheduled.connection
        /\ published.pending = scheduled.pending
        /\ published.lost = scheduled.lost /\ published.armed = scheduled.armed
        /\ published.due = scheduled.due
    BY <1>5, <2>2 DEF Clients, Outcomes
  <2> QED
    BY <1>5, <2>3
<1> HIDE DEF published, outcome
<1>7. CASE again
  <2>1. Ended(c) = Scheduled(published, FALSE)
    BY <1>2, <1>7
  <2>2. /\ Keeps(Scheduled(published, FALSE), published)
        /\ Scheduled(published, FALSE) \in Clients(Places)
        /\ Scheduled(published, FALSE).connection = published.connection
        /\ Scheduled(published, FALSE).lost = published.lost
        /\ (published.armed => published.due) =>
             (Scheduled(published, FALSE).armed => Scheduled(published, FALSE).due)
        /\ published.connection # "connected" => Scheduled(published, FALSE).armed
    BY <1>6, ScheduledStore
  <2> QED
    BY <1>6, <2>1, <2>2 DEF Keeps, outcome
<1>8. CASE ~again
  BY <1>2, <1>6, <1>8 DEF outcome
<1> QED
  BY <1>7, <1>8

\* A store that gives way to another leaves nothing under way.
LEMMA ReplacedStore ==
  ASSUME NEW c \in Clients(Places)
  PROVE  LET d == Replaced(c) IN
         /\ d \in Clients(Places) /\ ~d.open /\ d.recon = None /\ d.connection = "connecting"
         /\ d.initial = "none" /\ d.timer = None /\ d.pending = None /\ (d.armed => d.due)
<1> DEFINE disposed ==
      [c EXCEPT !.connection = "connecting", !.timer = None, !.armed = FALSE, !.ready = FALSE,
                !.initial = "none", !.recon = None, !.pending = None, !.open = FALSE,
                !.hasOpened = FALSE]
<1>1. /\ disposed \in Clients(Places) /\ ~disposed.open /\ disposed.recon = None
      /\ disposed.connection = "connecting" /\ disposed.initial = "none"
      /\ disposed.timer = None /\ disposed.pending = None /\ ~disposed.armed
  BY DEF Clients
<1>2. Replaced(c) = IF c.due \/ c.lost THEN Scheduled(disposed, FALSE) ELSE disposed
  BY DEF Replaced
<1> HIDE DEF disposed
<1>3. CASE c.due \/ c.lost
  <2>1. Replaced(c) = Scheduled(disposed, FALSE)
    BY <1>2, <1>3
  <2>2. /\ Scheduled(disposed, FALSE) \in Clients(Places)
        /\ Keeps(Scheduled(disposed, FALSE), disposed)
        /\ Scheduled(disposed, FALSE).connection = disposed.connection
        /\ Scheduled(disposed, FALSE).armed => Scheduled(disposed, FALSE).due
    BY <1>1, ScheduledStore
  <2> QED
    BY <1>1, <2>1, <2>2 DEF Keeps
<1>4. CASE ~(c.due \/ c.lost)
  BY <1>1, <1>2, <1>4
<1> QED
  BY <1>3, <1>4

-----------------------------------------------------------------------------
(* What follows from a handler.                                            *)

Settling == {"snapshot", "details"}

\* It leaves the store in order, and one that is not connected on its way.
LEMMA FollowsWell ==
  ASSUME link \in Links, NEW c, NEW r, Well(c, link), Follows(c, r),
         c.recon = None => Going(c, link)
  PROVE  /\ client' \in Clients(Settling) /\ link' \in Links
         /\ Well(client', link') /\ Going(client', link')
<1>1. c \in Clients(Places)
  BY DEF Well
<1>2. CASE c.recon # None /\ c.recon.at = "ask"
  <2> DEFINE asked == [c.recon EXCEPT !.at = "snapshot"]
  <2>1. client' = [c EXCEPT !.recon.at = "snapshot"] /\ link' = link
    BY <1>2 DEF Follows
  <2>2. /\ asked \in Recons(Settling) /\ asked \in Recons(Places)
        /\ asked.at = "snapshot"
    BY <1>1, <1>2 DEF Clients, Recons, Places, Settling
  <2>3. client' = [c EXCEPT !.recon = asked]
    BY <1>1, <1>2, <2>1 DEF Clients, Recons
  <2> HIDE DEF asked
  <2>4. client' \in Clients(Settling) /\ client' \in Clients(Places)
    BY <1>1, <2>2, <2>3 DEF Clients
  <2>5. /\ client'.recon = asked
        /\ client'.armed = c.armed /\ client'.due = c.due /\ client'.open = c.open
        /\ client'.lost = c.lost /\ client'.connection = c.connection
        /\ client'.initial = c.initial
    BY <1>1, <2>3 DEF Clients
  <2> QED
    BY <2>1, <2>2, <2>4, <2>5, Nothing DEF Well, Going
<1>3. CASE c.recon # None /\ c.recon.at = "ended"
  <2> DEFINE outcome == Outcome(c.recon)
  <2>1. CASE Replaces(c.recon, outcome)
    <3>1. client' = Replaced(Ended(c)) /\ link' = "connecting"
      BY <1>3, <2>1 DEF Follows
    <3>2. Replaced(Ended(c)) \in Clients(Places) /\ Replaced(Ended(c)).recon = None
      BY <1>1, <1>3, EndedStore, ReplacedStore
    <3>3. Replaced(Ended(c)) \in Clients(Settling)
      BY <3>2 DEF Clients
    <3>4. /\ ~client'.open /\ client'.recon = None /\ client'.connection = "connecting"
          /\ client'.initial = "none" /\ (client'.armed => client'.due)
          /\ client'.pending = None
      BY <1>1, <1>3, <3>1, EndedStore, ReplacedStore
    <3> QED
      BY <3>1, <3>2, <3>3, <3>4 DEF Well, Going, Links
  <2>2. CASE ~Replaces(c.recon, outcome)
    <3>1. client' = Ended(c) /\ link' = link
      BY <1>3, <2>2 DEF Follows
    <3>2. /\ client' \in Clients(Places) /\ client'.recon = None
          /\ client'.open = c.open /\ client'.initial # "running"
          /\ client'.connection = "connected" => c.open
          /\ client'.connection # "connected" =>
               client'.lost = c.lost /\ (c.open \/ c.lost => client'.armed)
          /\ (c.armed => c.due) => (client'.armed => client'.due)
          /\ client'.pending = c.pending
      BY <1>1, <1>3, <3>1, EndedStore
    <3>3. client' \in Clients(Settling)
      BY <3>2 DEF Clients
    <3>4. client'.pending = None
      BY <1>3, <3>2 DEF Well
    <3> QED
      BY <3>1, <3>2, <3>3, <3>4 DEF Well, Going, Links
  <2> QED
    BY <2>1, <2>2
<1>4. CASE c.recon = None \/ c.recon.at \in Settling
  <2>1. client' = c /\ link' = link
    BY <1>4 DEF Follows, Settling
  <2>2. client' \in Clients(Settling)
    BY <1>1, <1>4, <2>1 DEF Clients, Recons
  <2> QED
    BY <1>4, <2>1, <2>2 DEF Well, Going
<1> QED
  BY <1>1, <1>2, <1>3, <1>4 DEF Clients, Recons, Places, Settling

\* A store that hands over what it does not show: it will read it, unless the
\* turn that has ended was the last and is ready.
Handing(c, r, g, shown) ==
  /\ (c.recon = None \/ c.recon.at \in Settling) /\ Relying(c) => shown \/ Asking(c, r, g)
  /\ c.recon # None /\ c.recon.at = "ended" /\ Outcome(c.recon) = "ready" =>
       shown \/ c.timer # None \/ c.pending # None

\* It keeps what the store does not show on its way.
LEMMA FollowsOnWay ==
  ASSUME NEW c, NEW r, Well(c, link), Follows(c, r), gen' \in Nat,
         Watching /\ link = "open" /\ ~missed' => Handing(c, r, gen', Shown')
  PROVE  OnWay'
<1> SUFFICES ASSUME Watching, link' = "open", ~missed', Relying(client')
             PROVE  Shown' \/ Asking(client', reader', gen')
  BY DEF OnWay
<1>1. c \in Clients(Places)
  BY DEF Well
<1>2. CASE c.recon # None /\ c.recon.at = "ask"
  <2>1. client' = [c EXCEPT !.recon.at = "snapshot"] /\ reader' = Asked(r)
    BY <1>2 DEF Follows
  <2>2. c.recon \in Recons(Places)
    BY <1>1, <1>2 DEF Clients
  <2>3. client'.recon.at = "snapshot" /\ client'.recon = [c.recon EXCEPT !.at = "snapshot"]
    BY <1>1, <2>1, <2>2 DEF Clients, Recons
  <2>4. client'.recon # None
    <3>1. client'.recon \in Recons(Places)
      BY <2>2, <2>3 DEF Recons, Places
    <3> QED
      BY <3>1, Nothing
  <2>5. Fresh(Asked(r), gen')
    BY DEF Fresh, Asked, Idle
  <2> QED
    BY <2>1, <2>3, <2>4, <2>5 DEF Asking
<1>3. CASE c.recon # None /\ c.recon.at = "ended"
  <2> DEFINE outcome == Outcome(c.recon)
  <2>1. ~Replaces(c.recon, outcome) /\ link = "open"
    BY <1>3 DEF Follows, Replaces
  <2>2. client' = Ended(c)
    BY <1>3, <2>1 DEF Follows
  <2>3. /\ client'.recon = None /\ client'.timer = c.timer /\ client'.pending = c.pending
        /\ client'.connection = "connected" => outcome = "ready"
    BY <1>1, <1>3, <2>2, EndedStore
  <2>4. Outcome(c.recon) = "ready"
    BY <2>3 DEF Relying
  <2> QED
    BY <1>3, <2>1, <2>3, <2>4 DEF Asking, Handing
<1>4. CASE c.recon = None \/ c.recon.at \in Settling
  <2>1. client' = c /\ link' = link /\ reader' = r
    BY <1>4 DEF Follows, Settling
  <2> QED
    BY <1>4, <2>1 DEF Handing
<1> QED
  BY <1>1, <1>2, <1>3, <1>4 DEF Clients, Recons, Places, Settling

-----------------------------------------------------------------------------
(* The steps, for the store and its stream.                                *)

\* Between two steps a reconciliation is at its snapshot or at its details.
LEMMA SettlingStore ==
  ASSUME NEW c
  PROVE  c \in Clients(Settling) <=>
           c \in Clients(Places) /\ c.recon \in Recons(Settling) \cup {None}
<1>1. Recons(Settling) \subseteq Recons(Places)
  BY DEF Recons, Settling, Places
<1> QED
  BY <1>1 DEF Clients

\* A store with a reconciliation under way is in order when its connection is.
LEMMA WellTurned ==
  ASSUME NEW c, NEW d, NEW l, Well(c, l), d \in Clients(Places), d.recon # None,
         d.open = c.open, d.lost = c.lost,
         d.connection = "connected" => c.open \/ c.connection = "connected",
         d.armed => d.due, d.recon.at = "details" => ~d.recon.intent.probe,
         d.pending # None => d.recon.at # "ended"
  PROVE  Well(d, l) /\ Going(d, l)
BY DEF Well, Going

\* A turn that has settled, or a snapshot that has come.
LEMMA SettledWell ==
  ASSUME NEW c, NEW l, Well(c, l), c.recon # None, NEW outcome \in Outcomes
  PROVE  Well(Settled(c, outcome), l)
<1> DEFINE d == Settled(c, outcome)
<1>1. c \in Clients(Places)
  BY DEF Well
<1>2. /\ d \in Clients(Places) /\ d.recon # None /\ d.open = c.open /\ d.lost = c.lost
      /\ d.connection = "connected" => c.open \/ c.connection = "connected"
      /\ (c.armed => c.due) => (d.armed => d.due)
      /\ d.recon.at \in {"ask", "ended"}
      /\ d.pending # None => d.recon.at # "ended"
  BY <1>1, SettledStore
<1> HIDE DEF d
<1>3. Well(d, l)
  BY <1>2, WellTurned DEF Well
<1> QED
  BY <1>3 DEF d

\* Whether the page is ready is nothing to the stream.
LEMMA ReadyWell ==
  ASSUME NEW c, NEW l, Well(c, l), NEW ready \in BOOLEAN
  PROVE  /\ Well([c EXCEPT !.ready = ready], l)
         /\ [c EXCEPT !.ready = ready].recon = c.recon
         /\ [c EXCEPT !.ready = ready].pending = c.pending
         /\ [c EXCEPT !.ready = ready].timer = c.timer
BY DEF Well, Clients

\* A settled turn is not ready unless it says so, and leaves what came meanwhile.
LEMMA SettledEnds ==
  ASSUME NEW c \in Clients(Places), c.recon # None, NEW outcome \in Outcomes,
         Settled(c, outcome).recon.at \in Settling \cup {"ended"}
  PROVE  /\ Settled(c, outcome).recon.at = "ended" /\ c.pending = None
         /\ Settled(c, outcome).timer = c.timer
         /\ Outcome(Settled(c, outcome).recon) = "ready" => outcome = "ready" /\ ~c.recon.stale
<1> DEFINE d == Settled(c, outcome)
<1>1. /\ d.timer = c.timer
      /\ c.pending # None => d.recon.at = "ask"
      /\ c.pending = None =>
           /\ d.recon.at = "ended" /\ d.recon.stale = c.recon.stale
           /\ d.recon.outcome = "ready" => outcome = "ready"
  BY SettledStore
<1> HIDE DEF d
<1>2. c.pending = None
  BY <1>1 DEF Settling, d
<1> QED
  BY <1>1, <1>2 DEF Outcome, d

Results == {"succeeded", "failed", "obsolete"}

\* Continuing with any result leaves the store in order, with a reconciliation.
LEMMA ContinuedWell ==
  ASSUME NEW c, NEW l, Well(c, l), c.recon # None, NEW result \in Results, NEW more \in Extras
  PROVE  Well(Continued(c, result, more), l) /\ Continued(c, result, more).recon # None
<1> DEFINE intent == c.recon.intent
           unready == [c EXCEPT !.ready = @ /\ intent.probe]
           wide == IF more = "everything" THEN Everything ELSE intent.scope
           details == [c EXCEPT !.recon.at = "details", !.recon.intent.scope = wide]
<1>1. c \in Clients(Places) /\ c.recon \in Recons(Places)
  BY DEF Well, Clients
<1>2. CASE result # "succeeded"
  <2>1. result \in Outcomes /\ (c.ready /\ intent.probe) \in BOOLEAN
    BY <1>1, <1>2 DEF Results, Outcomes
  <2>2. Well(unready, l) /\ unready.recon = c.recon
    BY <2>1, ReadyWell
  <2>3. Continued(c, result, more) = Settled(unready, result)
    BY <1>2 DEF Continued
  <2> HIDE DEF unready
  <2>4. unready \in Clients(Places)
    BY <2>2 DEF Well
  <2> QED
    BY <2>1, <2>2, <2>3, <2>4, SettledWell, SettledStore
<1>3. CASE result = "succeeded" /\ (intent.probe \/ (intent.scope = 0 /\ more = "nothing"))
  <2>1. PICK outcome \in Outcomes : Continued(c, result, more) = Settled(c, outcome)
    BY <1>3 DEF Continued, Outcomes
  <2> QED
    BY <1>1, <2>1, SettledWell, SettledStore
<1>4. CASE result = "succeeded" /\ ~intent.probe /\ ~(intent.scope = 0 /\ more = "nothing")
  <2> DEFINE asked == [intent EXCEPT !.scope = wide]
             at == [c.recon EXCEPT !.at = "details", !.intent = asked]
  <2>1. Continued(c, result, more) = details
    BY <1>4 DEF Continued
  <2>2. intent \in Intents /\ asked \in Intents /\ asked.probe = intent.probe
    BY <1>1 DEF Recons, Intents, Scopes, Everything
  <2>3. /\ at \in Recons(Places) /\ at.at = "details" /\ ~at.intent.probe
        /\ at.stale = c.recon.stale /\ at.by = c.recon.by
    BY <1>1, <1>4, <2>2 DEF Recons, Places
  <2>4. details = [c EXCEPT !.recon = at]
    BY <1>1, <2>2 DEF Clients, Recons, Intents
  <2> HIDE DEF at, details
  <2>5. /\ details \in Clients(Places) /\ details.recon = at
        /\ details.pending = c.pending /\ details.open = c.open
        /\ details.lost = c.lost /\ details.armed = c.armed
        /\ details.due = c.due /\ details.connection = c.connection
    BY <1>1, <2>3, <2>4 DEF Clients
  <2>6. details.recon # None
    BY <2>3, <2>5, Nothing
  <2>7. Well(details, l)
    BY <1>4, <2>3, <2>5, <2>6, WellTurned DEF Well
  <2> QED
    BY <2>1, <2>6, <2>7
<1> QED
  BY <1>2, <1>3, <1>4

\* A reconciliation that is started, or joined.
LEMMA StartedWell ==
  ASSUME NEW c, NEW l, Well(c, l) \/ c.initial = "running",
         c \in Clients(Places), c.armed => c.due, c.open <=> l \in {"open", "broken"},
         ~c.open => c.lost \/ l = "connecting", c.connection = "connected" => c.open,
         c.recon # None /\ c.recon.at = "details" => ~c.recon.intent.probe,
         c.recon # None => c.recon.at # "ended",
         NEW intent \in Intents, NEW by \in SUBSET {"timer", "retry"}
  PROVE  Well(Started(c, intent, by), l)
<1> DEFINE d == Started(c, intent, by)
<1>1. /\ d \in Clients(Places) /\ d.recon # None /\ d.open = c.open /\ d.lost = c.lost
      /\ d.connection = "connected" => c.open \/ c.connection = "connected"
      /\ d.armed => d.due
      /\ c.recon = None => d.recon = Asks(c, intent, "unready", by)
      /\ c.recon # None => d.recon = c.recon
  BY StartedStore
<1> HIDE DEF d
<1>2. c.recon = None => d.recon.at = "ask"
  BY <1>1 DEF Asks
<1>3. Well(d, l)
  BY <1>1, <1>2 DEF Well
<1> QED
  BY <1>3 DEF d

\* ... on the stream of this moment.
Enough(c) == Watching /\ link = "open" /\ ~missed => Handing(c, reader, gen, Shown)

\* A turn's details, its obsolescence, the timers and a refresh by hand leave
\* the store in order, and with no less on its way.
LEMMA Handled ==
  ASSUME Inv, DetailsEnd \/ ObsoleteTurnEnds \/ RefreshTimer \/ RecoveryTimer \/ Refresh
  PROVE  \E c : Well(c, link) /\ c.recon # None /\ Follows(c, reader) /\ Enough(c)
<1>1. /\ Well(client, link) /\ client \in Clients(Places)
      /\ client.recon \in Recons(Settling) \cup {None}
  BY SettlingStore DEF Inv, TypeOK, Settling
<1>2. Watching /\ link = "open" /\ ~missed /\ Relying(client) =>
        Shown \/ Asking(client, reader, gen)
  BY DEF Inv, OnWay
<1>3. client.recon # None => client.recon.at \in Settling
  BY <1>1 DEF Recons
<1>4. ASSUME NEW c \in Clients(Places), NEW intent \in Intents,
             NEW by \in SUBSET {"timer", "retry"},
             c.recon # None => c.recon.at \in Settling
      PROVE  Enough(Started(c, intent, by)) /\ Started(c, intent, by).recon # None
  <2> DEFINE d == Started(c, intent, by)
  <2>1. /\ d.recon # None
        /\ c.recon = None => d.recon = Asks(c, intent, "unready", by)
        /\ c.recon # None => d.recon = c.recon /\ d.pending # None
    BY StartedStore
  <2>2. c.recon # None => Asking(d, reader, gen)
    BY <2>1 DEF Asking
  <2> HIDE DEF d
  <2>3. c.recon = None => d.recon.at = "ask"
    BY <2>1 DEF Asks
  <2>4. Enough(d)
    BY <2>1, <2>2, <2>3 DEF Settling, Enough, Handing
  <2> QED
    BY <2>1, <2>4 DEF d
<1>5. {} \in SUBSET {"timer", "retry"} /\ {"timer"} \in SUBSET {"timer", "retry"}
  OBVIOUS
<1>6. Full \in Intents /\ Probe(client) \in Intents
  <2>1. client.open \in BOOLEAN
    BY <1>1 DEF Clients
  <2>2. (~client.open) \in BOOLEAN /\ FALSE \in BOOLEAN /\ Everything \in Scopes
    BY DEF Everything, Scopes
  <2> QED
    BY <2>2 DEF Full, Probe, Intents
<1>7. CASE DetailsEnd
  <2>1. /\ client.recon # None /\ client.recon.at = "details" /\ ~client.recon.stale
        /\ ~client.recon.intent.probe
    BY <1>1, <1>7 DEF DetailsEnd, Well
  <2>2. Watching /\ link = "open" /\ ~missed =>
          Shown \/ client.timer # None \/ client.pending # None
    BY <1>2, <2>1 DEF Relying, Asking
  <2>3. PICK ready \in BOOLEAN, outcome \in Outcomes :
          Follows(Settled([client EXCEPT !.ready = ready], outcome), reader)
    <3>1. CASE LET ready == client.ready \/ client.recon.intent.scope = Everything IN
               Follows(Settled([client EXCEPT !.ready = ready],
                               IF ready THEN "ready" ELSE "unready"), reader)
      <4> DEFINE ready == client.ready \/ client.recon.intent.scope = Everything
      <4>1. ready \in BOOLEAN /\ (IF ready THEN "ready" ELSE "unready") \in Outcomes
        BY DEF Outcomes
      <4>2. Follows(Settled([client EXCEPT !.ready = ready],
                            IF ready THEN "ready" ELSE "unready"), reader)
        BY <3>1
      <4> HIDE DEF ready
      <4> QED
        BY <4>1, <4>2
    <3>2. CASE \E outcome \in {"failed", "obsolete"} :
                 Follows(Settled([client EXCEPT !.ready = FALSE], outcome), reader)
      <4>1. FALSE \in BOOLEAN /\ "failed" \in Outcomes /\ "obsolete" \in Outcomes
        BY DEF Outcomes
      <4> QED
        BY <3>2, <4>1
    <3> QED
      BY <1>7, <3>1, <3>2 DEF DetailsEnd
  <2> DEFINE c == [client EXCEPT !.ready = ready]
             d == Settled(c, outcome)
  <2>4. /\ Well(c, link) /\ c \in Clients(Places) /\ c.recon = client.recon
        /\ c.pending = client.pending /\ c.timer = client.timer
    BY <1>1, ReadyWell DEF Well
  <2> HIDE DEF c
  <2>5. Well(d, link)
    BY <2>1, <2>4, SettledWell
  <2>6. d.recon.at \in Settling \cup {"ended"} =>
          d.recon.at = "ended" /\ c.pending = None /\ d.timer = c.timer
    BY <2>1, <2>4, SettledEnds
  <2>7. d.recon # None
    BY <2>1, <2>4, SettledStore
  <2>8. Follows(d, reader)
    BY <2>3 DEF c
  <2> HIDE DEF d
  <2>9. Enough(d)
    BY <2>2, <2>4, <2>6, <2>7 DEF Settling, Enough, Handing
  <2> QED
    BY <2>5, <2>7, <2>8, <2>9
<1>8. CASE ObsoleteTurnEnds
  <2> DEFINE d == Settled(client, "obsolete")
  <2>1. client.recon # None /\ client.recon.stale /\ Follows(d, reader)
    BY <1>8 DEF ObsoleteTurnEnds
  <2>2. "obsolete" \in Outcomes
    BY DEF Outcomes
  <2>3. Well(d, link) /\ d.recon # None
    BY <1>1, <2>1, <2>2, SettledWell, SettledStore
  <2>4. d.recon.at \in Settling \cup {"ended"} =>
          d.recon.at = "ended" /\ Outcome(d.recon) # "ready"
    BY <1>1, <2>1, <2>2, SettledEnds
  <2> HIDE DEF d
  <2>5. Enough(d)
    BY <2>3, <2>4 DEF Settling, Enough, Handing
  <2> QED
    BY <2>1, <2>3, <2>5
<1>9. CASE RefreshTimer
  <2> DEFINE c == [client EXCEPT !.timer = None]
             intent == [probe |-> ~client.open, scope |-> client.timer]
  <2>1. intent \in Intents
    BY <1>1, <1>9 DEF RefreshTimer, Clients, Intents
  <2>2. Well(c, link) /\ c \in Clients(Places) /\ c.recon = client.recon
    BY <1>1 DEF Well, Clients
  <2>3. Follows(Started(c, intent, {}), reader)
    BY <1>9 DEF RefreshTimer
  <2> HIDE DEF c, intent
  <2>4. Well(Started(c, intent, {}), link)
    BY <1>3, <1>5, <2>1, <2>2, StartedWell DEF Well, Settling
  <2> QED
    BY <1>3, <1>4, <1>5, <2>1, <2>2, <2>3, <2>4
<1>10. CASE RecoveryTimer
  <2> DEFINE c == [client EXCEPT !.armed = FALSE, !.due = FALSE]
             kept == [client EXCEPT !.armed = FALSE]
  <2>1. CASE client.recon # None
    <3>1. Follows(kept, reader)
      BY <1>10, <2>1 DEF RecoveryTimer
    <3>2. /\ kept \in Clients(Places) /\ kept.recon = client.recon
          /\ kept.timer = client.timer /\ kept.pending = client.pending
          /\ kept.open = client.open /\ kept.lost = client.lost /\ ~kept.armed
          /\ kept.connection = client.connection /\ kept.initial = client.initial
      BY <1>1 DEF Clients
    <3> HIDE DEF kept
    <3>3. Well(kept, link)
      BY <1>1, <3>2 DEF Well
    <3>4. kept.recon.at \in Settling /\ kept.recon.at # "ended"
      BY <1>3, <2>1, <3>2 DEF Settling
    <3>5. Relying(kept) => Relying(client)
      BY <2>1, <3>2 DEF Relying
    <3>6. Asking(client, reader, gen) => Asking(kept, reader, gen)
      BY <3>2 DEF Asking
    <3>7. Enough(kept)
      BY <1>2, <3>4, <3>5, <3>6 DEF Enough, Handing
    <3> QED
      BY <2>1, <3>1, <3>2, <3>3, <3>7
  <2>2. CASE client.recon = None
    <3>1. Well(c, link) /\ c \in Clients(Places) /\ c.recon = None
      <4>1. /\ c \in Clients(Places) /\ c.recon = None /\ ~c.armed /\ c.open = client.open
            /\ c.lost = client.lost /\ c.connection = client.connection
            /\ c.initial = client.initial /\ c.pending = client.pending
        BY <1>1, <2>2 DEF Clients
      <4> HIDE DEF c
      <4> QED
        BY <1>1, <2>2, <4>1 DEF Well
    <3>2. Follows(Started(c, Probe(client), {"timer"}), reader)
      BY <1>10, <2>2 DEF RecoveryTimer
    <3> HIDE DEF c
    <3>3. Well(Started(c, Probe(client), {"timer"}), link)
      BY <1>5, <1>6, <3>1, StartedWell DEF Well
    <3> QED
      BY <1>4, <1>5, <1>6, <3>1, <3>2, <3>3
  <2> QED
    BY <2>1, <2>2
<1>11. CASE Refresh
  <2> DEFINE c == [client EXCEPT !.initial = "running"]
  <2>1. /\ c \in Clients(Places) /\ c.initial = "running" /\ c.recon = client.recon
        /\ c.armed = client.armed /\ c.due = client.due /\ c.open = client.open
        /\ c.lost = client.lost /\ c.connection = client.connection
    BY <1>1 DEF Clients
  <2>2. Follows(Started(c, Full, {}), reader)
    BY <1>11 DEF Refresh
  <2> HIDE DEF c
  <2>3. Well(Started(c, Full, {}), link)
    BY <1>1, <1>3, <1>5, <1>6, <2>1, StartedWell DEF Well, Settling
  <2> QED
    BY <1>3, <1>4, <1>5, <1>6, <2>1, <2>2, <2>3
<1> QED
  BY <1>7, <1>8, <1>9, <1>10, <1>11

\* After the turns, the timers and the end of a read the store is in order and goes on.
LEMMA StoreFollows ==
  ASSUME Inv, DetailsEnd \/ ObsoleteTurnEnds \/ RefreshTimer \/ RecoveryTimer \/ Refresh
         \/ ReadEnds
  PROVE  /\ client' \in Clients(Settling) /\ link' \in Links
         /\ Well(client', link') /\ Going(client', link')
<1>1. Well(client, link) /\ Going(client, link) /\ link \in Links
  BY DEF Inv, TypeOK, Links
<1>2. ASSUME NEW c, NEW r, Well(c, link), c.recon # None, Follows(c, r)
      PROVE  /\ client' \in Clients(Settling) /\ link' \in Links
             /\ Well(client', link') /\ Going(client', link')
  BY <1>1, <1>2, FollowsWell
<1>3. CASE DetailsEnd \/ ObsoleteTurnEnds \/ RefreshTimer \/ RecoveryTimer \/ Refresh
  <2>1. PICK c : Well(c, link) /\ c.recon # None /\ Follows(c, reader)
    BY <1>3, Handled
  <2> QED
    BY <1>2, <2>1
<1>4. CASE ReadEnds
  <2> DEFINE idle == IF reader.again THEN Asked(Idle) ELSE Idle
  <2>1. CASE Follows(client, idle)
    BY <1>1, <2>1, FollowsWell
  <2>2. CASE client.recon # None /\ \E result \in Results, more \in Extras : Follows(Continued(client, result, more), idle)
    BY <1>1, <1>2, <2>2, ContinuedWell
  <2>3. \/ Follows(client, idle)
        \/ client.recon # None /\ \E result \in Results, more \in Extras : Follows(Continued(client, result, more), idle)
    BY <1>4 DEF ReadEnds, Results
  <2> QED
    BY <2>1, <2>2, <2>3
<1> QED
  BY <1>3, <1>4

\* The stream opens: whoever waited for it is told, or the store catches up.
LEMMA StoreOpens ==
  ASSUME Inv, SourceOpens
  PROVE  /\ client' \in Clients(Settling) /\ link' \in Links
         /\ Well(client', link') /\ Going(client', link')
         /\ missed' \/ snap.g = gen \/ Asking(client', reader', gen')
<1> DEFINE c == [client EXCEPT !.open = TRUE, !.hasOpened = TRUE, !.lost = FALSE,
                               !.armed = FALSE]
           reconciling == [c EXCEPT !.connection = "reconciling"]
           next == IF client.initial = "running" THEN reconciling
                   ELSE IF ~client.hasOpened /\ client.initial \in Succeeded
                        THEN Finished(c, client.initial)
                   ELSE IF client.initial # "none" THEN Started(c, Full, {})
                   ELSE IF client.hasOpened THEN Later(reconciling, Everything)
                   ELSE Started(reconciling, Full, {})
           asks == next.recon # None /\ next.recon.at = "ask"
<1>1. /\ Well(client, link) /\ link = "connecting" /\ link' = "open"
      /\ client \in Clients(Places) /\ client.recon \in Recons(Settling) \cup {None}
  BY SettlingStore DEF Inv, TypeOK, SourceOpens, Settling, Well
<1>2. /\ client' = IF asks THEN [next EXCEPT !.recon.at = "snapshot"] ELSE next
      /\ reader' = IF asks THEN Asked(reader) ELSE reader
      /\ missed' = (snap.g # gen /\ ~asks /\ next.pending = None /\ next.timer = None)
  BY DEF SourceOpens
<1>3. ASSUME NEW d \in {c, reconciling}
      PROVE  /\ d \in Clients(Places) /\ d.open /\ ~d.armed /\ d.recon = client.recon
             /\ d.initial = client.initial /\ d.pending = client.pending
             /\ Well(d, "open")
  <2>1. /\ d \in Clients(Places) /\ d.open /\ ~d.armed /\ d.recon = client.recon
        /\ d.initial = client.initial /\ d.pending = client.pending
    BY <1>1, <1>3 DEF Clients
  <2> QED
    BY <1>1, <2>1 DEF Well
<1>4. Full \in Intents /\ {} \in SUBSET {"timer", "retry"}
  BY DEF Full, Intents, Scopes, Everything
<1> HIDE DEF c, reconciling
<1>5. ASSUME NEW d \in {c, reconciling}
      PROVE  /\ Well(Started(d, Full, {}), "open") /\ Going(Started(d, Full, {}), "open")
             /\ \/ Started(d, Full, {}).recon \in Recons(Settling)
                \/ Started(d, Full, {}).recon.at = "ask"
  <2>1. Well(Started(d, Full, {}), "open")
    <3>1. d.recon # None => d.recon.at # "ended"
      BY <1>1, <1>3 DEF Recons, Settling
    <3> QED
      BY <1>3, <1>4, <3>1, StartedWell DEF Well
  <2>2. /\ Started(d, Full, {}).recon # None
        /\ client.recon = None => Started(d, Full, {}).recon = Asks(d, Full, "unready", {})
        /\ client.recon # None => Started(d, Full, {}).recon = client.recon
    BY <1>3, <1>4, StartedStore
  <2> QED
    BY <1>1, <2>1, <2>2 DEF Going, Asks
<1>6. /\ Well(next, "open") /\ Going(next, "open")
      /\ next.recon = None \/ next.recon \in Recons(Settling) \/ next.recon.at = "ask"
  <2>1. CASE client.initial = "running"
    BY <1>1, <1>3, <2>1 DEF Going, Well
  <2>2. CASE client.initial # "running" /\ ~client.hasOpened /\ client.initial \in Succeeded
    <3> DEFINE d == Finished(c, client.initial)
    <3>1. next = d
      BY <2>2
    <3>2. client.initial \in Outcomes
      BY <2>2 DEF Succeeded, Outcomes
    <3>3. c \in Clients(Places) /\ c.open /\ ~c.armed /\ c.recon = client.recon
          /\ c.initial = client.initial /\ Well(c, "open")
      BY <1>3
    <3>4. /\ d \in Clients(Places) /\ Keeps(d, c)
          /\ d.connection = "connected" <=> client.initial = "ready"
          /\ d.armed => d.due
      BY <3>2, <3>3, FinishedStore
    <3> HIDE DEF d, next
    <3>5. Well(d, "open") /\ Going(d, "open") /\ d.recon = client.recon
      BY <2>2, <3>3, <3>4 DEF Well, Going, Keeps, Succeeded
    <3> QED
      BY <1>1, <3>1, <3>5
  <2>3. CASE /\ client.initial # "running" /\ client.initial # "none"
             /\ ~(~client.hasOpened /\ client.initial \in Succeeded)
    <3>1. next = Started(c, Full, {})
      BY <2>3
    <3> HIDE DEF next
    <3> QED
      BY <1>5, <3>1
  <2>4. CASE client.initial = "none" /\ client.hasOpened
    <3> DEFINE d == Later(reconciling, Everything)
    <3>1. next = d
      BY <2>4 DEF Succeeded
    <3>2. /\ reconciling \in Clients(Places) /\ Well(reconciling, "open")
          /\ reconciling.recon = client.recon
      BY <1>3
    <3>3. /\ d \in Clients(Places) /\ d.timer # None
          /\ d.recon = reconciling.recon /\ d.initial = reconciling.initial
          /\ d.open = reconciling.open /\ d.lost = reconciling.lost
          /\ d.connection = reconciling.connection /\ d.pending = reconciling.pending
          /\ d.armed = reconciling.armed /\ d.due = reconciling.due
      <4>1. PICK t \in Scopes : d = [reconciling EXCEPT !.timer = t]
        BY <3>2 DEF Later, Scopes, Everything, Clients
      <4> HIDE DEF d
      <4> QED
        BY <3>2, <4>1, Nothing DEF Clients
    <3> HIDE DEF d, next
    <3> QED
      BY <1>1, <3>1, <3>2, <3>3 DEF Well, Going
  <2>5. CASE client.initial = "none" /\ ~client.hasOpened
    <3>1. next = Started(reconciling, Full, {})
      BY <2>5 DEF Succeeded
    <3> HIDE DEF next
    <3> QED
      BY <1>5, <3>1
  <2> QED
    BY <2>1, <2>2, <2>3, <2>4, <2>5
<1> HIDE DEF next
<1>7. CASE asks
  <2> DEFINE asked == [next.recon EXCEPT !.at = "snapshot"]
  <2>1. next \in Clients(Places) /\ next.recon \in Recons(Places)
    BY <1>6, <1>7 DEF Well, Clients
  <2>2. asked \in Recons(Settling) /\ asked.at = "snapshot"
    BY <2>1 DEF Recons, Settling, Places
  <2>3. client' = [next EXCEPT !.recon = asked]
    BY <1>2, <1>7, <2>1 DEF Clients, Recons
  <2> HIDE DEF asked
  <2>4. client' \in Clients(Settling) /\ client'.recon = asked
        /\ client'.open = next.open /\ client'.lost = next.lost
        /\ client'.connection = next.connection
        /\ client'.armed = next.armed /\ client'.due = next.due
    BY <2>1, <2>2, <2>3 DEF Clients
  <2>5. client' \in Clients(Places) /\ client'.recon # None
    BY <2>2, <2>4, SettlingStore, ClientAssumption DEF Recons, Settling
  <2>6. Asking(client', reader', gen')
    BY <1>2, <1>7, <2>2, <2>4, <2>5 DEF Asking, Fresh, Asked, Idle
  <2> QED
    BY <1>1, <1>6, <2>2, <2>4, <2>5, <2>6, WellTurned DEF Well, Links
<1>8. CASE ~asks
  <2>1. client' = next /\ next.recon \in Recons(Settling) \cup {None}
    BY <1>2, <1>6, <1>8
  <2>2. missed' \/ snap.g = gen \/ Asking(client', reader', gen')
    BY <1>2, <1>8, <2>1 DEF Asking
  <2> QED
    BY <1>1, <1>6, <2>1, <2>2, SettlingStore DEF Well, Links
<1> QED
  BY <1>7, <1>8

\* A stream that fails leaves the store in order, and on its way.
LEMMA StoreFails ==
  ASSUME Inv, SourceFails
  PROVE  /\ client' \in Clients(Settling) /\ link' \in Links
         /\ Well(client', link') /\ Going(client', link')
<1> DEFINE stale == IF client.recon = None THEN None ELSE [client.recon EXCEPT !.stale = TRUE]
           c == [Invalidated(client) EXCEPT !.open = FALSE, !.lost = TRUE,
                                            !.connection = "reconnecting"]
<1>1. /\ client \in Clients(Settling) /\ Well(client, link) /\ client \in Clients(Places)
      /\ link' \in {"connecting", "dead"} /\ client' = Scheduled(c, FALSE)
  BY SettlingStore DEF Inv, TypeOK, Settling, SourceFails
<1>2. /\ stale \in Recons(Settling) \cup {None}
      /\ stale # None => stale.at = client.recon.at /\ stale.intent = client.recon.intent
                          /\ client.recon # None
      /\ client.recon # None => stale # None
  <2>1. CASE client.recon = None
    BY <2>1
  <2>2. CASE client.recon # None
    <3>1. client.recon \in Recons(Settling)
      BY <1>1, <2>2 DEF Clients
    <3>2. /\ stale \in Recons(Settling) /\ stale \in Recons(Places)
          /\ stale.at = client.recon.at /\ stale.intent = client.recon.intent
      BY <2>2, <3>1 DEF Recons, Settling, Places
    <3> QED
      BY <2>2, <3>2, Nothing
  <2> QED
    BY <2>1, <2>2
<1> HIDE DEF stale
<1>3. c = [client EXCEPT !.ready = FALSE, !.initial = "none", !.recon = stale, !.open = FALSE,
                         !.lost = TRUE, !.connection = "reconnecting"]
  BY <1>1 DEF Invalidated, stale, Clients
<1> HIDE DEF c
<1>4. /\ c \in Clients(Settling) /\ c.recon = stale /\ c.connection = "reconnecting"
      /\ c.initial = "none" /\ ~c.open /\ c.lost /\ c.armed = client.armed /\ c.due = client.due
      /\ c.pending = client.pending
  BY <1>1, <1>2, <1>3 DEF Clients
<1>5. c \in Clients(Places) /\ (c.armed => c.due)
  BY <1>1, <1>4, SettlingStore DEF Well
<1>6. /\ client' \in Clients(Places) /\ Keeps(client', c)
      /\ client'.connection = c.connection /\ client'.lost = c.lost
      /\ client'.armed => client'.due
      /\ c.recon = None => client'.armed
  BY <1>1, <1>4, <1>5, ScheduledStore
<1>7. client' \in Clients(Settling)
  BY <1>2, <1>4, <1>6, SettlingStore DEF Keeps
<1>8. Well(client', link')
  <2>1. /\ ~client'.open /\ client'.lost /\ client'.connection # "connected"
        /\ client'.initial # "running" /\ client'.recon = stale
        /\ client'.pending = client.pending
    BY <1>4, <1>6 DEF Keeps
  <2> QED
    BY <1>1, <1>2, <1>6, <2>1 DEF Well
<1>9. Going(client', link') /\ link' \in Links
  BY <1>1, <1>2, <1>4, <1>6 DEF Going, Keeps, Links
<1> QED
  BY <1>7, <1>8, <1>9

\* A retry asks for a read, or leaves one that is under way as it is.
LEMMA StoreRetries ==
  ASSUME Inv, Retry
  PROVE  /\ client' \in Clients(Settling) /\ link' \in Links
         /\ Well(client', link') /\ Going(client', link')
         /\ link' = "open" /\ Relying(client') /\ ~Asking(client', reader', gen') =>
              link = "open" /\ Relying(client) /\ ~Asking(client, reader, gen)
<1> DEFINE dead == link = "dead"
           c == IF dead THEN [Replaced(client) EXCEPT !.armed = FALSE]
                ELSE [client EXCEPT !.armed = FALSE]
           undue == [c EXCEPT !.due = FALSE]
           turn == Turn(undue, Probe(c), "unready", {"retry"})
           joined == [c EXCEPT !.recon.by = @ \cup {"retry"}]
           probing == IF c.recon = None THEN [turn EXCEPT !.recon.at = "snapshot"] ELSE joined
<1>1. /\ client \in Clients(Settling) /\ client \in Clients(Places) /\ Well(client, link)
      /\ client.connection # "connected" /\ link \in Links
      /\ client' = Scheduled(probing, FALSE)
      /\ link' = IF dead THEN "connecting" ELSE link
      /\ c.recon = None => \E r : reader' = Asked(r)
      /\ c.recon # None => reader' = reader
      /\ gen' = gen
  BY SettlingStore DEF Inv, TypeOK, Settling, Retry, Links, serverVars
<1>2. /\ c \in Clients(Settling) /\ Well(c, link') /\ ~c.armed /\ c.connection # "connected"
      /\ ~dead => /\ c.recon = client.recon /\ c.timer = client.timer
                  /\ c.pending = client.pending
  <2>1. CASE dead
    <3> DEFINE d == Replaced(client)
    <3>1. /\ d \in Clients(Places) /\ ~d.open /\ d.recon = None
          /\ d.connection = "connecting" /\ d.initial = "none" /\ d.pending = None
      BY <1>1, ReplacedStore
    <3>2. d \in Clients(Settling)
      BY <3>1, SettlingStore
    <3> HIDE DEF d
    <3>3. c = [d EXCEPT !.armed = FALSE]
      BY <2>1 DEF d
    <3> HIDE DEF c, dead
    <3>4. /\ c \in Clients(Settling) /\ c \in Clients(Places) /\ ~c.open /\ c.recon = None
          /\ c.connection = "connecting" /\ c.initial = "none" /\ ~c.armed
          /\ c.pending = None
      BY <3>1, <3>2, <3>3 DEF Clients
    <3> QED
      BY <1>1, <2>1, <3>4 DEF Well
  <2>2. CASE ~dead
    <3>1. c = [client EXCEPT !.armed = FALSE]
      BY <2>2
    <3> HIDE DEF c
    <3>2. /\ c \in Clients(Settling) /\ c \in Clients(Places) /\ ~c.armed
          /\ c.recon = client.recon /\ c.open = client.open /\ c.lost = client.lost
          /\ c.connection = client.connection /\ c.initial = client.initial
          /\ c.timer = client.timer /\ c.pending = client.pending
      BY <1>1, <3>1 DEF Clients
    <3> QED
      BY <1>1, <2>2, <3>2 DEF Well
  <2> QED
    BY <2>1, <2>2
<1> HIDE DEF c, dead
<1>3. /\ probing \in Clients(Settling) /\ probing.recon # None
      /\ Well(probing, link')
      /\ c.recon = None => probing.recon.at = "snapshot"
      /\ c.recon # None =>
           /\ probing.recon.at = c.recon.at /\ probing.recon.stale = c.recon.stale
           /\ probing.recon.intent = c.recon.intent
           /\ probing.timer = c.timer /\ probing.pending = c.pending
  <2>1. CASE c.recon = None
    <3> DEFINE asked == [turn.recon EXCEPT !.at = "snapshot"]
    <3>1. /\ undue \in Clients(Places) /\ ~undue.armed /\ undue.open = c.open
          /\ undue.lost = c.lost /\ undue.connection = c.connection
      BY <1>2, SettlingStore DEF Clients
    <3> HIDE DEF undue
    <3>2. Probe(c) \in Intents /\ "unready" \in Outcomes
          /\ {"retry"} \in SUBSET {"timer", "retry"}
      <4>1. c.open \in BOOLEAN
        BY <1>2 DEF Clients
      <4>2. (~c.open) \in BOOLEAN /\ Everything \in Scopes
        BY DEF Everything, Scopes
      <4> QED
        BY <4>2 DEF Probe, Intents, Outcomes
    <3>3. /\ turn \in Clients(Places) /\ turn.recon # None /\ turn.open = c.open
          /\ turn.lost = c.lost /\ (turn.connection = "connected" => c.open)
          /\ turn.armed => turn.due
      BY <3>1, <3>2, TurnStore
    <3> HIDE DEF turn
    <3>4. turn.recon \in Recons(Places)
      BY <3>3 DEF Clients
    <3>5. asked \in Recons(Settling) /\ asked \in Recons(Places) /\ asked.at = "snapshot"
      BY <3>4 DEF Recons, Settling, Places
    <3>6. probing = [turn EXCEPT !.recon = asked]
      BY <2>1, <3>3, <3>4 DEF Clients, Recons
    <3> HIDE DEF asked, probing
    <3>7. /\ probing \in Clients(Settling) /\ probing \in Clients(Places)
          /\ probing.recon = asked /\ probing.open = turn.open /\ probing.lost = turn.lost
          /\ probing.connection = turn.connection
          /\ probing.armed = turn.armed /\ probing.due = turn.due
      BY <3>3, <3>5, <3>6 DEF Clients
    <3>8. probing.recon # None
      BY <3>5, <3>7, Nothing
    <3> QED
      BY <1>2, <2>1, <3>3, <3>5, <3>7, <3>8, WellTurned
  <2>2. CASE c.recon # None
    <3> DEFINE also == [c.recon EXCEPT !.by = @ \cup {"retry"}]
    <3>1. c.recon \in Recons(Settling)
      BY <1>2, <2>2 DEF Clients
    <3>2. /\ also \in Recons(Settling) /\ also.at = c.recon.at
          /\ also.intent = c.recon.intent /\ also.stale = c.recon.stale
      BY <3>1 DEF Recons
    <3>3. also \in Recons(Places)
      BY <3>2 DEF Recons, Settling, Places
    <3>4. probing = [c EXCEPT !.recon = also]
      BY <1>2, <2>2, <3>1 DEF Clients, Recons
    <3> HIDE DEF also, probing
    <3>5. /\ probing \in Clients(Settling)
          /\ probing.recon = also /\ probing.open = c.open /\ probing.lost = c.lost
          /\ probing.connection = c.connection /\ probing.armed = c.armed
          /\ probing.due = c.due /\ probing.timer = c.timer
          /\ probing.pending = c.pending
      BY <1>2, <3>2, <3>4 DEF Clients
    <3>6. probing \in Clients(Places) /\ probing.recon # None
      BY <3>3, <3>5, Nothing, SettlingStore
    <3> QED
      BY <1>2, <2>2, <3>2, <3>5, <3>6, WellTurned DEF Well
  <2> QED
    BY <2>1, <2>2
<1> HIDE DEF probing
<1>4. /\ client' \in Clients(Places) /\ Keeps(client', probing)
      /\ client'.connection = probing.connection /\ client'.lost = probing.lost
      /\ client'.armed => client'.due
  BY <1>1, <1>3, ScheduledStore DEF Well
<1>5. client' \in Clients(Settling)
  BY <1>3, <1>4, SettlingStore DEF Keeps
<1>6. link' \in Links
  BY <1>1 DEF Links
<1>7. ASSUME link' = "open", Relying(client'), ~Asking(client', reader', gen')
      PROVE  link = "open" /\ Relying(client) /\ ~Asking(client, reader, gen)
  <2>1. link = "open" /\ ~dead
    BY <1>1, <1>7
  <2>2. CASE c.recon = None
    <3>1. PICK r : reader' = Asked(r)
      BY <1>1, <2>2
    <3>2. Fresh(reader', gen')
      BY <3>1 DEF Fresh, Asked, Idle
    <3> QED
      BY <1>3, <1>4, <1>7, <2>2, <3>2 DEF Asking, Keeps
  <2>3. CASE c.recon # None
    <3>1. /\ client'.recon # None /\ c.recon = client.recon
          /\ client'.recon.at = client.recon.at /\ client'.recon.stale = client.recon.stale
          /\ client'.recon.intent = client.recon.intent
          /\ client'.timer = client.timer /\ client'.pending = client.pending
      BY <1>2, <1>3, <1>4, <2>1, <2>3 DEF Keeps
    <3>2. reader' = reader /\ gen' = gen
      BY <1>1, <2>3
    <3> QED
      BY <1>7, <2>1, <2>3, <3>1, <3>2 DEF Asking, Relying
  <2> QED
    BY <2>1, <2>2, <2>3
<1> QED
  BY <1>3, <1>4, <1>5, <1>6, <1>7 DEF Well, Going, Keeps

\* Every step leaves the store in order, and on its way.
LEMMA StoreStep ==
  ASSUME Inv, [Next]_vars
  PROVE  /\ client' \in Clients(Settling) /\ link' \in Links
         /\ Well(client', link') /\ Going(client', link')
<1>1. /\ client \in Clients(Settling) /\ link \in Links
      /\ Well(client, link) /\ Going(client, link)
  BY DEF Inv, TypeOK, Settling, Links
<1>2. CASE DetailsEnd \/ ObsoleteTurnEnds \/ RefreshTimer \/ RecoveryTimer \/ Refresh \/ ReadEnds
  BY <1>2, StoreFollows
<1>3. CASE SourceOpens
  BY <1>3, StoreOpens
<1>4. CASE SourceFails
  BY <1>4, StoreFails
<1>5. CASE Retry
  BY <1>5, StoreRetries
<1>6. CASE StreamBreaks
  BY <1>1, <1>6 DEF StreamBreaks, Well, Going, Links
<1>7. CASE EventArrives
  <2>1. inbox \in Scopes /\ link' = link
    BY <1>7 DEF EventArrives, Inv, TypeOK, Scopes
  <2>2. PICK t \in Scopes : client' = [client EXCEPT !.timer = t]
    BY <1>1, <1>7, <2>1 DEF EventArrives, Later, Clients
  <2>3. /\ client' \in Clients(Settling) /\ client'.timer = t /\ client'.recon = client.recon
        /\ client'.initial = client.initial /\ client'.open = client.open
        /\ client'.lost = client.lost /\ client'.armed = client.armed
        /\ client'.due = client.due /\ client'.connection = client.connection
        /\ client'.pending = client.pending
    BY <1>1, <2>2 DEF Clients
  <2> QED
    BY <1>1, <2>1, <2>3, Nothing, SettlingStore DEF Well, Going
<1>8. CASE \/ Change \/ Invalidate \/ LoadGeneration \/ ReadRepository \/ Stamp \/ ReadFails
           \/ Mutate \/ MutationRuns \/ MutationAnswered \/ MutationEnds \/ UNCHANGED vars
  <2>1. UNCHANGED <<client, link>>
    BY <1>8 DEF Change, Invalidate, LoadGeneration, ReadRepository, Stamp, ReadFails, Mutate,
       MutationRuns, MutationAnswered, MutationEnds, vars
  <2> QED
    BY <1>1, <2>1
<1> QED
  BY <1>2, <1>3, <1>4, <1>5, <1>6, <1>7, <1>8
  DEF Next, ServerStep, ClientStep, StreamStep, MutationStep

-----------------------------------------------------------------------------
(* The steps, for the reader, the generation and the types.                *)

Readings == [at : {"idle", "load", "read", "check", "answer", "failed"}, g : 0..gen,
             v : 0..disk, tries : 0..3, again : BOOLEAN]

\* A reading that is asked for again is a reading.
LEMMA AskedReading ==
  ASSUME gen \in Nat, disk \in Nat
  PROVE  Idle \in Readings /\ \A r \in Readings : Asked(r) \in Readings
<1>1. Idle \in Readings /\ Asked(Idle) \in Readings
  <2>1. 0 \in 0..gen /\ 0 \in 0..disk /\ 0 \in 0..3 /\ 1 \in 0..3
    OBVIOUS
  <2>2. Idle \in Readings
    BY <2>1 DEF Idle, Readings
  <2>3. Asked(Idle) = [at |-> "load", g |-> 0, v |-> 0, tries |-> 1, again |-> FALSE]
    BY DEF Asked, Idle
  <2> QED
    BY <2>1, <2>2, <2>3 DEF Readings
<1>2. ASSUME NEW r \in Readings PROVE Asked(r) \in Readings
  <2>1. CASE r.at = "idle"
    BY <1>1, <2>1 DEF Asked, Idle
  <2>2. CASE r.at # "idle"
    <3>1. Asked(r) = [r EXCEPT !.again = TRUE]
      BY <2>2 DEF Asked
    <3> QED
      BY <3>1 DEF Readings
  <2> QED
    BY <2>1, <2>2
<1> QED
  BY <1>1, <1>2

\* Whatever a step does with the reader, its record stays one.
LEMMA ReadingStep ==
  ASSUME Inv, [Next]_vars
  PROVE  reader' \in Readings
<1>1. reader \in Readings /\ gen \in Nat \ {0} /\ disk \in Nat
  BY DEF Inv, TypeOK, Readings
<1>2. /\ Idle \in Readings
      /\ \A r \in Readings : Asked(r) \in Readings
  BY <1>1, AskedReading
<1>3. CASE DetailsEnd \/ ObsoleteTurnEnds \/ RefreshTimer \/ RecoveryTimer \/ Refresh
  <2>1. \E c : Follows(c, reader)
    BY <1>3 DEF DetailsEnd, ObsoleteTurnEnds, RefreshTimer, RecoveryTimer, Refresh
  <2> QED
    BY <1>1, <1>2, <2>1, FollowsReader
<1>4. CASE ReadEnds
  <2> DEFINE idle == IF reader.again THEN Asked(Idle) ELSE Idle
  <2>1. \E c : Follows(c, idle)
    BY <1>4 DEF ReadEnds
  <2>2. reader' \in {idle, Asked(idle), Idle}
    BY <2>1, FollowsReader
  <2> QED
    BY <1>2, <2>2
<1>5. CASE SourceOpens \/ SourceFails \/ Retry \/ MutationAnswered
  <2>1. reader' \in {reader, Asked(reader), Idle, Asked(Idle)}
    BY <1>5 DEF SourceOpens, SourceFails, Retry, MutationAnswered
  <2> QED
    BY <1>1, <1>2, <2>1
<1>6. CASE LoadGeneration
  <2>1. gen \in 0..gen
    BY <1>1
  <2> QED
    BY <1>1, <1>6, <2>1 DEF LoadGeneration, Readings
<1>7. CASE ReadRepository
  <2>1. disk \in 0..disk
    BY <1>1
  <2> QED
    BY <1>1, <1>7, <2>1 DEF ReadRepository, Readings
<1>8. CASE Stamp
  <2>1. CASE reader' = [reader EXCEPT !.at = "answer"] \/ reader' = [reader EXCEPT !.at = "failed"]
    BY <1>1, <2>1 DEF Readings
  <2>2. CASE reader.tries < 3 /\ reader' = [reader EXCEPT !.at = "load", !.tries = @ + 1]
    <3>1. reader.tries + 1 \in 0..3
      BY <1>1, <2>2 DEF Readings
    <3>2. PICK t \in 0..3 : reader' = [reader EXCEPT !.at = "load", !.tries = t]
      BY <2>2, <3>1
    <3> QED
      BY <1>1, <3>2 DEF Readings
  <2> QED
    BY <1>8, <2>1, <2>2 DEF Stamp
<1>9. CASE ReadFails
  BY <1>1, <1>9 DEF ReadFails, Readings
<1>10. CASE \/ Change \/ Invalidate \/ StreamBreaks \/ EventArrives \/ Mutate \/ MutationRuns
            \/ MutationEnds \/ UNCHANGED vars
  <2>1. reader' = reader
    BY <1>10 DEF Change, Invalidate, StreamBreaks, EventArrives, Mutate, MutationRuns,
       MutationEnds, vars
  <2> QED
    BY <1>1, <2>1
<1> QED
  BY <1>3, <1>4, <1>5, <1>6, <1>7, <1>8, <1>9, <1>10
  DEF Next, ServerStep, ClientStep, StreamStep, MutationStep

\* Disk and generation only grow, and generations in the order of versions.
LEMMA GrowthStep ==
  ASSUME Inv, [Next]_vars
  PROVE  /\ disk' \in Nat /\ disk <= disk' /\ gen' \in Nat \ {0} /\ gen <= gen'
         /\ snap' \in [g : 0..gen', v : 0..disk']
         /\ Ordered' /\ Reported'
<1>1. /\ disk \in Nat /\ gen \in Nat \ {0} /\ base \in Seq(Nat) /\ Len(base) = gen
      /\ \A g \in 1..gen : base[g] <= disk
      /\ snap \in [g : 0..gen, v : 0..disk] /\ reader \in Readings
      /\ Ordered /\ Reported /\ owed \in BOOLEAN
  BY DEF Inv, TypeOK, StampInv, BaseOK, Readings
<1>2. CASE /\ disk' = disk + 1 /\ owed' = Watching
           /\ UNCHANGED <<gen, base, snap>>
  BY <1>1, <1>2 DEF Ordered, Reported
<1>3. CASE /\ gen' = gen + 1 /\ base' = Append(base, disk)
           /\ UNCHANGED <<disk, snap>>
  <2>1. base'[gen + 1] = disk /\ \A g \in 1..gen : base'[g] = base[g]
    BY <1>1, <1>3
  <2>2. Reported'
    BY <1>1, <1>3, <2>1 DEF Reported
  <2>3. ASSUME NEW g \in 1..gen + 1, NEW h \in 1..gen + 1, g <= h PROVE base'[g] <= base'[h]
    <3>1. CASE h = gen + 1
      BY <1>1, <2>1, <3>1
    <3>2. CASE h # gen + 1
      <4>1. g \in 1..gen /\ h \in 1..gen
        BY <1>1, <2>3, <3>2
      <4> QED
        BY <1>1, <2>1, <2>3, <4>1 DEF Ordered
    <3> QED
      BY <3>1, <3>2
  <2>4. snap' \in [g : 0..gen', v : 0..disk']
    BY <1>1, <1>3
  <2>5. Ordered'
    BY <1>1, <1>3, <2>3 DEF Ordered
  <2> QED
    BY <1>1, <1>3, <2>2, <2>4, <2>5
<1>4. CASE ReadEnds
  <2>1. UNCHANGED <<disk, gen, base, owed>>
    BY <1>4 DEF ReadEnds, serverVars
  <2>2. \/ snap' = snap
        \/ reader.g > snap.g /\ snap' = [g |-> reader.g, v |-> reader.v]
    BY <1>4 DEF ReadEnds
  <2> QED
    BY <1>1, <2>1, <2>2 DEF Ordered, Reported, Readings
<1>5. CASE UNCHANGED <<disk, gen, base, owed, snap>>
  BY <1>1, <1>5 DEF Ordered, Reported
<1>6. \/ disk' = disk + 1 /\ owed' = Watching /\ UNCHANGED <<gen, base, snap>>
      \/ gen' = gen + 1 /\ base' = Append(base, disk) /\ UNCHANGED <<disk, snap>>
      \/ ReadEnds
      \/ UNCHANGED <<disk, gen, base, owed, snap>>
  <2>1. CASE Change \/ Invalidate \/ MutationRuns \/ MutationAnswered \/ ReadEnds
    BY <2>1 DEF Change, Invalidate, MutationRuns, MutationAnswered
  <2>2. CASE ~(Change \/ Invalidate \/ MutationRuns \/ MutationAnswered \/ ReadEnds)
    BY <2>2 DEF Next, ServerStep, ClientStep, StreamStep, MutationStep, LoadGeneration,
       ReadRepository, Stamp, ReadFails, DetailsEnd, ObsoleteTurnEnds, SourceOpens, SourceFails,
       EventArrives, StreamBreaks, RefreshTimer, RecoveryTimer, Refresh, Retry, Mutate,
       MutationEnds, vars, serverVars
  <2> QED
    BY <2>1, <2>2
<1> QED
  BY <1>2, <1>3, <1>4, <1>5, <1>6

\* Every step keeps the types.
LEMMA TypeStep == Inv /\ [Next]_vars => TypeOK'
<1> SUFFICES ASSUME Inv, [Next]_vars PROVE TypeOK'
  OBVIOUS
<1>1. TypeOK /\ ClientAssumption
  BY ClientAssumption DEF Inv
<1>2. /\ disk' \in Nat /\ disk <= disk' /\ gen' \in Nat \ {0} /\ gen <= gen'
      /\ snap' \in [g : 0..gen', v : 0..disk']
  BY GrowthStep
<1>3. base' \in Seq(Nat) /\ Len(base') = gen'
  BY StampStep DEF Inv, StampInv, BaseOK
<1>4. client' \in Clients({"snapshot", "details"}) /\ (client'.armed => client'.due)
      /\ link' \in {"connecting", "open", "broken", "dead"}
  BY StoreStep DEF Settling, Links, Well
<1>5. reader' \in [at : {"idle", "load", "read", "check", "answer", "failed"}, g : 0..gen',
                   v : 0..disk', tries : 0..3, again : BOOLEAN]
  <2>1. reader' \in [at : {"idle", "load", "read", "check", "answer", "failed"}, g : 0..gen,
                     v : 0..disk, tries : 0..3, again : BOOLEAN]
    BY ReadingStep DEF Readings
  <2>2. 0..gen \subseteq 0..gen' /\ 0..disk \subseteq 0..disk'
    BY <1>1, <1>2 DEF TypeOK
  <2> QED
    BY <2>1, <2>2
<1>6. owed' \in BOOLEAN /\ missed' \in BOOLEAN
  BY <1>1 DEF TypeOK, ClientAssumption, Next, ServerStep, ClientStep, StreamStep, MutationStep,
     Change, Invalidate, LoadGeneration, ReadRepository, Stamp, ReadFails, ReadEnds, DetailsEnd,
     ObsoleteTurnEnds, SourceOpens, StreamBreaks, SourceFails, EventArrives, RefreshTimer,
     RecoveryTimer, Refresh, Retry, Mutate, MutationRuns, MutationAnswered, MutationEnds, vars,
     serverVars
<1>7. inbox' \in {0, 1, None}
  BY <1>1 DEF TypeOK, Next, ServerStep, ClientStep, StreamStep, MutationStep,
     Change, Invalidate, LoadGeneration, ReadRepository, Stamp, ReadFails, ReadEnds, DetailsEnd,
     ObsoleteTurnEnds, SourceOpens, StreamBreaks, SourceFails, EventArrives, RefreshTimer,
     RecoveryTimer, Refresh, Retry, Mutate, MutationRuns, MutationAnswered, MutationEnds, vars
<1>8. mutation' \in {"idle", "calling", "applied", "refreshing", "settling"}
  BY <1>1 DEF TypeOK, Next, ServerStep, ClientStep, StreamStep, MutationStep, Released,
     Change, Invalidate, LoadGeneration, ReadRepository, Stamp, ReadFails, ReadEnds, DetailsEnd,
     ObsoleteTurnEnds, SourceOpens, StreamBreaks, SourceFails, EventArrives, RefreshTimer,
     RecoveryTimer, Refresh, Retry, Mutate, MutationRuns, MutationAnswered, MutationEnds, vars
<1>9. changes' \in 0..MaxChanges /\ acts' \in 0..MaxActs /\ faults' \in 0..MaxFaults
  <2>1. changes' = changes \/ (changes < MaxChanges /\ changes' = changes + 1)
    BY DEF boundVars, Next, ServerStep, ClientStep, StreamStep, MutationStep,
       Change, Invalidate, LoadGeneration, ReadRepository, Stamp, ReadFails, ReadEnds, DetailsEnd,
       ObsoleteTurnEnds, SourceOpens, StreamBreaks, SourceFails, EventArrives, RefreshTimer,
       RecoveryTimer, Refresh, Retry, Mutate, MutationRuns, MutationAnswered, MutationEnds, vars
  <2>2. acts' = acts \/ (acts < MaxActs /\ acts' = acts + 1)
    BY DEF Act, boundVars, Next, ServerStep, ClientStep, StreamStep, MutationStep,
       Change, Invalidate, LoadGeneration, ReadRepository, Stamp, ReadFails, ReadEnds, DetailsEnd,
       ObsoleteTurnEnds, SourceOpens, StreamBreaks, SourceFails, EventArrives, RefreshTimer,
       RecoveryTimer, Refresh, Retry, Mutate, MutationRuns, MutationAnswered, MutationEnds, vars
  <2>3. faults' = faults \/ (faults < MaxFaults /\ faults' = faults + 1)
    BY DEF Fault, boundVars, Next, ServerStep, ClientStep, StreamStep, MutationStep,
       Change, Invalidate, LoadGeneration, ReadRepository, Stamp, ReadFails, ReadEnds, DetailsEnd,
       ObsoleteTurnEnds, SourceOpens, StreamBreaks, SourceFails, EventArrives, RefreshTimer,
       RecoveryTimer, Refresh, Retry, Mutate, MutationRuns, MutationAnswered, MutationEnds, vars
  <2>4. /\ MaxChanges \in Nat /\ changes \in 0..MaxChanges
        /\ MaxActs \in Nat /\ acts \in 0..MaxActs
        /\ MaxFaults \in Nat /\ faults \in 0..MaxFaults
    BY <1>1 DEF TypeOK, ClientAssumption
  <2> QED
    BY <2>1, <2>2, <2>3, <2>4
<1> QED
  BY <1>2, <1>3, <1>4, <1>5, <1>6, <1>7, <1>8, <1>9 DEF TypeOK

-----------------------------------------------------------------------------
(* The steps, for what is on its way to the store.                         *)

\* While only the store changes, what it shows stays what it is.
LEMMA FollowsShown ==
  ASSUME Inv, NEW c, Well(c, link), Follows(c, reader),
         UNCHANGED <<serverVars, inbox, snap, missed>>,
         Enough(c)
  PROVE  OnWay'
<1>1. /\ gen' = gen /\ gen \in Nat /\ (missed' <=> missed)
      /\ Shown' <=> Shown
  BY DEF Inv, TypeOK, serverVars, Shown
<1> QED
  BY <1>1, FollowsOnWay DEF Enough, Handing

\* A snapshot that is taken over shows no less than the one before, and what
\* was read in the current generation shows the disk.
LEMMA ReadShows ==
  ASSUME Inv, ReadEnds, Watching
  PROVE  /\ Shown => Shown'
         /\ reader.at = "answer" /\ reader.g = gen => Shown'
         /\ missed /\ ~missed' => Shown'
<1>1. /\ gen \in Nat \ {0} /\ disk \in Nat /\ base \in Seq(Nat) /\ Len(base) = gen
      /\ \A g \in 1..gen : base[g] <= disk
      /\ snap \in [g : 0..gen, v : 0..disk] /\ reader \in Readings
      /\ Reported /\ Ordered
      /\ reader.at = "answer" => reader.v <= disk /\ base[reader.g] <= reader.v
                                 /\ reader.g > 0
      /\ snap.g > 0 => SeenAt(snap.v, snap.g) /\ snap.v <= disk
  BY DEF Inv, TypeOK, StampInv, BaseOK, ReaderOK, SnapOK, Readings
<1>2. UNCHANGED <<disk, gen, base, owed, inbox>>
  BY DEF ReadEnds, serverVars
<1>3. /\ snap' = IF reader.at = "answer" /\ reader.g >= snap.g /\ reader.g > snap.g
                 THEN [g |-> reader.g, v |-> reader.v] ELSE snap
      /\ missed /\ ~missed' => reader.at = "answer" /\ reader.g = gen
  <2> DEFINE stale == reader.at = "answer" /\ reader.g < snap.g
             result == IF reader.at = "failed" THEN "failed"
                       ELSE IF stale THEN "obsolete" ELSE "succeeded"
  <2>1. /\ snap' = IF result = "succeeded" /\ reader.g > snap.g
                   THEN [g |-> reader.g, v |-> reader.v] ELSE snap
        /\ missed' = (missed /\ ~(result = "succeeded" /\ reader.g = gen))
        /\ reader.at \in {"answer", "failed"}
    BY DEF ReadEnds
  <2>2. result = "succeeded" <=> reader.at = "answer" /\ reader.g >= snap.g
    BY <1>1, <2>1 DEF Readings
  <2> HIDE DEF result
  <2>3. missed /\ ~missed' => result = "succeeded" /\ reader.g = gen
    BY <2>1
  <2> QED
    BY <2>1, <2>2, <2>3
<1>4. ASSUME Shown PROVE Shown'
  <2>1. CASE reader.at = "answer" /\ reader.g > snap.g /\ snap.v = disk
    <3>1. snap.g > 0
      BY <1>1, <2>1 DEF Ordered
    <3>2. /\ snap.g \in 1..gen /\ reader.g \in 1..gen /\ snap.g + 1 <= reader.g
          /\ snap.g + 1 \in 1..gen /\ snap.g < gen
      BY <1>1, <2>1, <3>1 DEF Readings
    <3>3. snap.v <= base[snap.g + 1]
      BY <1>1, <3>1, <3>2 DEF SeenAt
    <3>4. base[snap.g + 1] <= base[reader.g]
      BY <1>1, <3>2 DEF Ordered
    <3>5. reader.v = disk
      <4>1. /\ base[snap.g + 1] \in Nat /\ base[reader.g] \in Nat /\ reader.v \in Nat
            /\ base[reader.g] <= reader.v /\ reader.v <= disk
        BY <1>1, <2>1, <3>2 DEF Readings
      <4>2. disk \in Nat /\ snap.v = disk
        BY <1>1, <2>1
      <4>3. disk <= base[reader.g]
        BY <3>3, <3>4, <4>1, <4>2
      <4> QED
        BY <4>1, <4>2, <4>3
    <3>6. snap'.v = disk
      BY <1>1, <1>3, <2>1, <3>5 DEF Readings
    <3> QED
      BY <1>2, <3>6 DEF Shown
  <2>2. CASE ~(reader.at = "answer" /\ reader.g > snap.g)
    BY <1>2, <1>3, <1>4, <2>2 DEF Shown
  <2>3. CASE snap.v # disk
    BY <1>2, <1>4, <2>3 DEF Shown
  <2> QED
    BY <2>1, <2>2, <2>3
<1>5. ASSUME reader.at = "answer", reader.g = gen PROVE Shown'
  <2>1. CASE owed
    BY <1>2, <2>1 DEF Shown
  <2>2. CASE ~owed
    <3>1. base[gen] = disk
      BY <1>1, <2>2 DEF Reported
    <3>2. CASE snap.g = gen
      <4>1. snap.v = disk
        BY <1>1, <3>1, <3>2 DEF SeenAt
      <4>2. snap' = snap
        BY <1>1, <1>3, <1>5, <3>2
      <4> QED
        BY <1>2, <4>1, <4>2 DEF Shown
    <3>3. CASE snap.g # gen
      <4>1. reader.g > snap.g /\ reader.g >= snap.g
        BY <1>1, <1>5, <3>3
      <4>2. reader.v = disk
        BY <1>1, <1>5, <3>1 DEF Readings
      <4> QED
        BY <1>2, <1>3, <1>5, <4>1, <4>2 DEF Shown
    <3> QED
      BY <3>2, <3>3
  <2> QED
    BY <2>1, <2>2
<1> QED
  BY <1>3, <1>4, <1>5

\* The store's turns and timers lose no change.
LEMMA TurnsOnWay ==
  ASSUME Inv, DetailsEnd \/ ObsoleteTurnEnds \/ RefreshTimer \/ RecoveryTimer \/ Refresh
  PROVE  OnWay'
<1>1. PICK c : Well(c, link) /\ c.recon # None /\ Follows(c, reader) /\ Enough(c)
  BY Handled
<1>2. UNCHANGED <<serverVars, inbox, snap, missed>>
  BY DEF DetailsEnd, ObsoleteTurnEnds, RefreshTimer, RecoveryTimer, Refresh
<1> QED
  BY <1>1, <1>2, FollowsShown

\* A turn goes on with a snapshot: it shows the disk, or what it does not show
\* is on its way.
LEMMA ContinuedHands ==
  ASSUME NEW c \in Clients(Places), c.recon # None, c.recon.at = "snapshot",
         ~c.recon.stale, NEW result \in Results, NEW more \in Extras, NEW r, NEW g, NEW shown \in BOOLEAN,
         result = "succeeded" /\ ~c.recon.intent.probe =>
           shown \/ c.timer # None \/ c.pending # None
  PROVE  Handing(Continued(c, result, more), r, g, shown)
<1> DEFINE intent == c.recon.intent
           unready == [c EXCEPT !.ready = @ /\ intent.probe]
           details == [c EXCEPT !.recon.at = "details",
                         !.recon.intent.scope = IF more = "everything" THEN Everything ELSE @]
<1>1. c.recon \in Recons(Places)
  BY DEF Clients
<1>2. ASSUME NEW d \in Clients(Places), d.recon = c.recon, d.pending = c.pending,
             d.timer = c.timer, NEW outcome \in Outcomes,
             outcome = "ready" => shown \/ c.timer # None \/ c.pending # None
      PROVE  Handing(Settled(d, outcome), r, g, shown)
  <2> DEFINE e == Settled(d, outcome)
  <2>1. /\ e.recon # None
        /\ e.recon.at \in Settling \cup {"ended"} =>
             /\ e.recon.at = "ended" /\ d.pending = None /\ e.timer = d.timer
             /\ Outcome(e.recon) = "ready" => outcome = "ready"
    BY <1>2, SettledStore, SettledEnds
  <2> HIDE DEF e
  <2>2. Handing(e, r, g, shown)
    BY <1>2, <2>1 DEF Handing, Settling
  <2> QED
    BY <2>2 DEF e
<1>3. CASE result # "succeeded"
  <2>1. result \in Outcomes /\ result # "ready" /\ (c.ready /\ intent.probe) \in BOOLEAN
    BY <1>1, <1>3 DEF Results, Outcomes
  <2>2. /\ unready \in Clients(Places) /\ unready.recon = c.recon
        /\ unready.pending = c.pending /\ unready.timer = c.timer
    BY <2>1 DEF Clients
  <2>3. Continued(c, result, more) = Settled(unready, result)
    BY <1>3 DEF Continued
  <2> HIDE DEF unready
  <2> QED
    BY <1>2, <2>1, <2>2, <2>3
<1>4. CASE result = "succeeded" /\ intent.probe
  <2>1. Continued(c, result, more) = Settled(c, "unready") /\ "unready" \in Outcomes
    BY <1>4 DEF Continued, Outcomes
  <2> QED
    BY <1>2, <2>1
<1>5. CASE result = "succeeded" /\ ~intent.probe /\ intent.scope = 0 /\ more = "nothing"
  <2>1. PICK outcome \in Outcomes : Continued(c, result, more) = Settled(c, outcome)
    BY <1>5 DEF Continued, Outcomes
  <2>2. shown \/ c.timer # None \/ c.pending # None
    BY <1>5
  <2> QED
    BY <1>2, <2>1, <2>2
<1>6. CASE result = "succeeded" /\ ~intent.probe /\ ~(intent.scope = 0 /\ more = "nothing")
  <2>1. Continued(c, result, more) = details
    BY <1>6 DEF Continued
  <2>2. details.timer = c.timer /\ details.pending = c.pending
    BY <1>1 DEF Clients
  <2>3. details.recon.at = "details" /\ details.recon.intent.probe = intent.probe
    BY <1>1 DEF Clients, Recons, Intents
  <2>4. shown \/ c.timer # None \/ c.pending # None
    BY <1>6
  <2> HIDE DEF details
  <2>5. Handing(details, r, g, shown)
    BY <2>2, <2>3, <2>4 DEF Handing, Asking
  <2> QED
    BY <2>1, <2>5
<1> QED
  BY <1>3, <1>4, <1>5, <1>6

\* The end of a read loses no change: what it did not show is asked for again.
LEMMA ReadsOnWay ==
  ASSUME Inv, ReadEnds PROVE OnWay'
<1> DEFINE stale == reader.at = "answer" /\ reader.g < snap.g
           result == IF reader.at = "failed" THEN "failed"
                     ELSE IF stale THEN "obsolete" ELSE "succeeded"
           idle == IF reader.again THEN Asked(Idle) ELSE Idle
           waiting == client.recon # None /\ client.recon.at = "snapshot" /\ ~client.recon.stale
<1>0. PICK more \in Extras :
        Follows(IF waiting /\ ~reader.again THEN Continued(client, result, more) ELSE client, idle)
  BY DEF ReadEnds
<1> DEFINE c == IF waiting /\ ~reader.again THEN Continued(client, result, more) ELSE client
<1>1. /\ Well(client, link) /\ client \in Clients(Places) /\ gen \in Nat
      /\ client.recon \in Recons(Settling) \cup {None}
  BY SettlingStore DEF Inv, TypeOK, Settling
<1>2. UNCHANGED <<gen, inbox, owed>> /\ reader.at \in {"answer", "failed"} /\ Follows(c, idle)
  BY <1>0 DEF ReadEnds, serverVars
<1>3. result \in Results
  BY DEF Results
<1>4. result = "succeeded" => reader.at = "answer"
  BY <1>2
<1> HIDE DEF result, idle
<1>5. Well(c, link)
  BY <1>1, <1>3, ContinuedWell
<1>6. Shown' \in BOOLEAN
  BY DEF Shown
<1>7. ASSUME Watching, link = "open", ~missed', Relying(client)
      PROVE  \/ Shown' \/ client.timer # None \/ client.pending # None
             \/ waiting /\ Fresh(reader, gen)
  <2>1. CASE missed
    BY <1>7, <2>1, ReadShows
  <2>2. CASE ~missed
    <3>1. Shown \/ Asking(client, reader, gen)
      BY <1>7, <2>2 DEF Inv, OnWay
    <3>2. client.recon # None => ~client.recon.stale
      BY <1>7 DEF Relying
    <3> QED
      BY <1>7, <3>1, <3>2, ReadShows DEF Asking
  <2> QED
    BY <2>1, <2>2
<1>8. ASSUME Watching, link = "open", ~missed' PROVE Handing(c, idle, gen', Shown')
  <2>1. CASE waiting /\ ~reader.again
    <3>1. result = "succeeded" /\ ~client.recon.intent.probe =>
            Shown' \/ client.timer # None \/ client.pending # None
      <4> SUFFICES ASSUME result = "succeeded", ~client.recon.intent.probe
                   PROVE  Shown' \/ client.timer # None \/ client.pending # None
        OBVIOUS
      <4>1. Relying(client)
        BY <2>1 DEF Relying
      <4>2. Fresh(reader, gen) => reader.g = gen
        BY <1>4, <2>1 DEF Fresh
      <4> QED
        BY <1>4, <1>7, <1>8, <4>1, <4>2, ReadShows
    <3> QED
      BY <1>1, <1>3, <1>6, <2>1, <3>1, ContinuedHands
  <2>2. CASE ~(waiting /\ ~reader.again)
    <3>1. c = client
      BY <2>2
    <3>2. waiting => Fresh(idle, gen') /\ reader.again
      BY <2>2 DEF idle, Fresh, Asked, Idle
    <3>3. Relying(client) => Shown' \/ Asking(client, idle, gen')
      BY <1>7, <1>8, <3>2 DEF Asking
    <3>4. client.recon # None => client.recon.at # "ended"
      BY <1>1 DEF Recons, Settling
    <3> QED
      BY <3>1, <3>3, <3>4 DEF Handing
  <2> QED
    BY <2>1, <2>2
<1> HIDE DEF c
<1> QED
  BY <1>1, <1>2, <1>5, <1>8, FollowsOnWay

\* A stream that opens reads what changed before it.
LEMMA OpensOnWay ==
  ASSUME Inv, SourceOpens PROVE OnWay'
<1> SUFFICES ASSUME Watching, ~missed'
             PROVE  Shown' \/ Asking(client', reader', gen')
  BY DEF OnWay
<1>1. /\ client \in Clients(Places) /\ Reported /\ gen \in Nat \ {0} /\ disk \in Nat
      /\ snap.g = gen => base[gen] <= snap.v /\ snap.v <= disk
      /\ snap \in [g : 0..gen, v : 0..disk] /\ base \in Seq(Nat) /\ Len(base) = gen
  BY DEF Inv, Well, TypeOK, StampInv, SnapOK, SeenAt
<1>2. CASE snap.g = gen
  <2>1. snap.v = disk \/ owed
    BY <1>1, <1>2 DEF Reported
  <2>2. UNCHANGED <<snap, disk, owed>>
    BY DEF SourceOpens, serverVars
  <2> QED
    BY <2>1, <2>2 DEF Shown
<1>3. CASE snap.g # gen
  BY <1>3, StoreOpens
<1> QED
  BY <1>2, <1>3

\* No step loses a change a store that relies on its stream does not show.
LEMMA OnWayStep == Inv /\ [Next]_vars => OnWay'
<1> SUFFICES ASSUME Inv, [Next]_vars PROVE OnWay'
  OBVIOUS
<1>1. /\ gen \in Nat /\ disk \in Nat /\ inbox \in {0, 1, None} /\ OnWay
      /\ client \in Clients(Places)
  BY DEF Inv, TypeOK, Well
<1>2. CASE DetailsEnd \/ ObsoleteTurnEnds \/ RefreshTimer \/ RecoveryTimer \/ Refresh
  BY <1>2, TurnsOnWay
<1>3. CASE ReadEnds
  BY <1>3, ReadsOnWay
<1>4. CASE SourceOpens
  BY <1>4, OpensOnWay
<1>5. CASE SourceFails \/ StreamBreaks
  <2>1. link' # "open"
    BY <1>5 DEF SourceFails, StreamBreaks
  <2> QED
    BY <2>1 DEF OnWay
<1>6. CASE Retry
  <2>1. UNCHANGED <<snap, disk, owed, inbox, missed>>
    BY <1>6 DEF Retry, serverVars
  <2>2. link' = "open" /\ Relying(client') /\ ~Asking(client', reader', gen') =>
          link = "open" /\ Relying(client) /\ ~Asking(client, reader, gen)
    BY <1>6, StoreRetries
  <2> QED
    BY <1>1, <2>1, <2>2 DEF OnWay, Shown
<1>7. CASE disk' = disk + 1 /\ owed' = Watching
  BY <1>7 DEF OnWay, Shown
<1>8. CASE Invalidate
  <2>1. link' = link /\ (link = "open" => inbox' \in {0, 1})
    BY <1>1, <1>8 DEF Invalidate
  <2>2. 0 # None /\ 1 # None
    BY ClientAssumption DEF Scopes
  <2> QED
    BY <2>1, <2>2 DEF OnWay, Shown
<1>9. CASE LoadGeneration \/ ReadRepository \/ Stamp \/ ReadFails
  <2>1. /\ UNCHANGED <<gen, disk, owed, inbox, snap, missed, link, client>>
        /\ reader \in Readings
    BY <1>9 DEF LoadGeneration, ReadRepository, Stamp, ReadFails, serverVars, Inv, TypeOK,
       Readings
  <2>2. Fresh(reader', gen')
    <3>1. CASE LoadGeneration
      BY <2>1, <3>1 DEF LoadGeneration, Fresh, Readings
    <3>2. CASE ReadRepository
      BY <2>1, <3>2 DEF ReadRepository, Fresh, Readings
    <3>3. CASE Stamp
      <4>1. \/ reader.g = gen /\ reader' = [reader EXCEPT !.at = "answer"]
            \/ reader' = [reader EXCEPT !.at = "load", !.tries = @ + 1]
            \/ reader' = [reader EXCEPT !.at = "failed"]
        BY <3>3 DEF Stamp
      <4> QED
        BY <2>1, <4>1 DEF Fresh, Readings
    <3>4. CASE ReadFails
      BY <2>1, <3>4 DEF ReadFails, Fresh, Readings
    <3> QED
      BY <1>9, <3>1, <3>2, <3>3, <3>4
  <2> QED
    BY <1>1, <2>1, <2>2 DEF OnWay, Shown, Asking
<1>10. CASE MutationAnswered
  <2>1. UNCHANGED <<disk, owed, inbox, snap, missed, link, client>> /\ reader' = Asked(reader)
    BY <1>10 DEF MutationAnswered
  <2>2. Fresh(reader', gen')
    BY <2>1 DEF Fresh, Asked, Idle
  <2> QED
    BY <1>1, <2>1, <2>2 DEF OnWay, Shown, Asking
<1>11. CASE EventArrives
  <2>1. inbox \in Scopes
    BY <1>1, <1>11 DEF EventArrives, Scopes
  <2>2. PICK t \in Scopes : client' = [client EXCEPT !.timer = t]
    BY <1>1, <1>11, <2>1 DEF EventArrives, Later, Clients
  <2>3. client'.timer # None
    BY <1>1, <2>2, Nothing DEF Clients
  <2> QED
    BY <2>3 DEF OnWay, Asking
<1>12. CASE UNCHANGED <<gen, disk, owed, inbox, snap, missed, link, client, reader>>
  BY <1>1, <1>12 DEF OnWay, Shown, Asking, Fresh
<1>13. CASE Change \/ Mutate \/ MutationRuns \/ MutationEnds \/ UNCHANGED vars
  BY <1>7, <1>12, <1>13 DEF Change, Mutate, MutationRuns, MutationEnds, vars, serverVars
<1> QED
  BY <1>2, <1>3, <1>4, <1>5, <1>6, <1>8, <1>9, <1>10, <1>11, <1>13
  DEF Next, ServerStep, ClientStep, StreamStep, MutationStep

-----------------------------------------------------------------------------
\* A store begins with its first reconciliation.
LEMMA InitInv == Init => Inv
<1> SUFFICES ASSUME Init PROVE Inv
  OBVIOUS
<1> DEFINE first == [connection |-> "connecting", open |-> FALSE, hasOpened |-> FALSE,
                     lost |-> FALSE, due |-> FALSE, armed |-> FALSE, ready |-> FALSE,
                     initial |-> "running", timer |-> None, pending |-> None, recon |-> None]
           turn == Turn(first, Full, "unready", {})
           asked == [turn.recon EXCEPT !.at = "snapshot"]
<1>1. first \in Clients(Places) /\ ~first.armed /\ ~first.open
  BY DEF Clients
<1>2. Full \in Intents /\ "unready" \in Outcomes /\ {} \in SUBSET {"timer", "retry"}
  BY DEF Full, Intents, Scopes, Everything, Outcomes
<1> HIDE DEF first
<1>3. /\ turn \in Clients(Places) /\ turn.recon # None /\ ~turn.open
      /\ turn.connection # "connected" /\ (turn.armed => turn.due)
  BY <1>1, <1>2, TurnStore
<1> HIDE DEF turn
<1>4. /\ asked \in Recons(Settling) /\ asked \in Recons(Places) /\ asked.at = "snapshot"
  BY <1>3 DEF Clients, Recons, Settling, Places
<1>5. client = [turn EXCEPT !.recon = asked]
  <2>1. client = [turn EXCEPT !.recon.at = "snapshot"]
    BY DEF Init, turn, first
  <2> QED
    BY <1>3, <2>1 DEF Clients, Recons
<1> HIDE DEF asked
<1>6. /\ client \in Clients(Settling) /\ client \in Clients(Places) /\ client.recon = asked
      /\ ~client.open /\ client.connection # "connected" /\ (client.armed => client.due)
  BY <1>3, <1>4, <1>5 DEF Clients
<1>7. client.recon # None
  BY <1>4, <1>6, Nothing
<1>8. Well(client, link) /\ Going(client, link) /\ OnWay
  BY <1>4, <1>6, <1>7 DEF Init, Well, Going, OnWay
<1>9. Ordered /\ Reported
  BY DEF Init, Ordered, Reported
<1>10. reader \in Readings
  <2>1. gen \in Nat /\ disk \in Nat /\ reader = Asked(Idle)
    BY DEF Init
  <2> QED
    BY <2>1, AskedReading
<1>11. TypeOK
  <2>1. /\ snap \in [g : 0..gen, v : 0..disk]
        /\ base \in Seq(Nat) /\ Len(base) = gen /\ gen \in Nat \ {0} /\ disk \in Nat
    BY DEF Init
  <2>2. changes \in 0..MaxChanges /\ acts \in 0..MaxActs /\ faults \in 0..MaxFaults
    BY ClientAssumption DEF Init
  <2>3. reader \in [at : {"idle", "load", "read", "check", "answer", "failed"}, g : 0..gen,
                    v : 0..disk, tries : 0..3, again : BOOLEAN]
    BY <1>10 DEF Readings
  <2>4. client \in Clients({"snapshot", "details"}) /\ (client.armed => client.due)
    BY <1>6 DEF Settling
  <2> QED
    BY <2>1, <2>2, <2>3, <2>4 DEF Init, TypeOK
<1> QED
  BY <1>8, <1>9, <1>11, InitStampInv DEF Inv

\* The invariant is inductive.
LEMMA InvHolds == Spec => []Inv
<1>1. Inv /\ [Next]_vars => Inv'
  <2> SUFFICES ASSUME Inv, [Next]_vars PROVE Inv'
    OBVIOUS
  <2>1. StampInv'
    BY StampStep DEF Inv
  <2>2. Ordered' /\ Reported'
    BY GrowthStep
  <2>3. Well(client, link)' /\ Going(client, link)'
    BY StoreStep
  <2> QED
    BY <2>1, <2>2, <2>3, TypeStep, OnWayStep DEF Inv
<1> QED
  BY <1>1, InitInv, PTL DEF Spec

-----------------------------------------------------------------------------
(* What it says.                                                           *)

(* Server, reader and store keep their types: no snapshot is read more     *)
(* than three times, and a retry that is armed is due.                     *)
THEOREM TypesHold == Spec => []TypeOK
<1>1. Inv => TypeOK
  BY DEF Inv
<1> QED
  BY <1>1, InvHolds, PTL

(* With a watcher, a connected client at rest shows the disk, whatever was *)
(* lost, failed, was retried or overlapped on the way, unless an event     *)
(* came before its first stream.                                           *)
THEOREM CurrentAtRest ==
  ASSUME Watching PROVE Spec => []QuietIsCurrent
<1>1. Inv => QuietIsCurrent
  <2> SUFFICES ASSUME Inv, Quiet, ~missed PROVE snap.v = disk
    BY DEF QuietIsCurrent
  <2>1. link = "open" /\ Relying(client) /\ ~Asking(client, reader, gen)
    <3>1. client.pending = None
      BY DEF Inv, Well, Quiet
    <3> QED
      BY <3>1 DEF Quiet, Relying, Asking
  <2> QED
    BY <2>1 DEF Inv, OnWay, Shown, Quiet
<1> QED
  BY <1>1, InvHolds, PTL

(* A view that is not connected has a reconciliation, a timer or a stream  *)
(* under way that will take it on, unless a refresh by hand only probed.   *)
THEOREM Unstranded == Spec => []NeverStranded
<1>1. Inv => NeverStranded
  BY DEF Inv, Going, NeverStranded, OnItsWay
<1> QED
  BY <1>1, InvHolds, PTL

=============================================================================
