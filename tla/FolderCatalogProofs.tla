------------------------- MODULE FolderCatalogProofs -------------------------
(* What holds of the catalog for any folders, callers, calls and limit     *)
(* (from 2): its types, with a list that never outgrows the limit or has a *)
(* folder twice, the file that follows the list, and removals that last.   *)
EXTENDS FolderCatalog, TLAPS

-----------------------------------------------------------------------------
(* The inductive invariant.  Who holds which lock, read off the places.    *)

HoldsMu(c) == pc[c] \in {"held", "persist", "schedule"}

\* The caller and the goroutine it started are two that may hold persistMu.
CallHoldsPersistMu(c) ==
  \/ pc[c] \in {"lock", "held"} /\ call[c] # "recordDeferred"
  \/ pc[c] = "persist"
PersisterHoldsPersistMu(c) == persister[c] \in {"locked", "copied", "saved", "failed"}

MuIsHeld ==
  /\ \A c \in Callers : HoldsMu(c) => mu
  /\ \A c, d \in Callers : HoldsMu(c) /\ HoldsMu(d) => c = d

PersistMuIsHeld ==
  /\ \A c \in Callers : CallHoldsPersistMu(c) \/ PersisterHoldsPersistMu(c) => persistMu
  /\ \A c, d \in Callers : CallHoldsPersistMu(c) /\ CallHoldsPersistMu(d) => c = d
  /\ \A c, d \in Callers : PersisterHoldsPersistMu(c) /\ PersisterHoldsPersistMu(d) => c = d
  /\ \A c, d \in Callers : ~(CallHoldsPersistMu(c) /\ PersisterHoldsPersistMu(d))

\* What a call does where it is; a deferred record has no goroutine yet.
CallsInPlace ==
  \A c \in Callers :
    /\ pc[c] \in {"persistLock", "persist"} => call[c] \in {"record", "remove"}
    /\ pc[c] \in {"lock", "held"} => call[c] # "flush"
    /\ pc[c] = "schedule" => call[c] = "recordDeferred"
    /\ pc[c] \in {"lock", "held", "schedule"} /\ call[c] = "recordDeferred"
         => persister[c] = "none"

\* A change of the list that nothing is about to write, but by c's goroutine.
Unwritten(c) ==
  \/ \E d \in Callers : d # c /\ persister[d] # "none"
  \/ \E d \in Callers : pc[d] \in {"persist", "schedule"}

\* No list about to be written, or to be fallen back on, is older than the
\* file; the one a goroutine has copied is the latest, or one more will come.
Versions ==
  /\ file.version <= recent.version
  /\ \A c \in Callers :
       /\ pc[c] = "persist" /\ call[c] = "remove" => file.version <= previous[c].version
       /\ persister[c] = "copied" =>
            /\ file.version <= copied[c].version /\ copied[c].version <= recent.version
            /\ Unwritten(c) \/ copied[c] = recent
       /\ persister[c] = "saved" => Unwritten(c) \/ file = recent

\* What was removed is on no list that could come back.
RemovedEverywhere ==
  /\ RemovedStaysRemoved
  /\ \A c \in Callers :
       /\ pc[c] = "persist" /\ call[c] = "remove" =>
            /\ path[c] \notin Contents(recent)
            /\ removed \cap Contents(previous[c]) = {}
       /\ persister[c] = "copied" => removed \cap Contents(copied[c]) = {}

Inv ==
  /\ TypeOK /\ MuIsHeld /\ PersistMuIsHeld /\ CallsInPlace
  /\ Versions /\ SavedWhenQuiet /\ RemovedEverywhere
-----------------------------------------------------------------------------
(* Lists.                                                                  *)

\* The folders of a list.
In(s) == {s[i] : i \in DOMAIN s}

\* To take a folder out leaves a list of the others.
LEMMA WithoutList ==
  ASSUME NEW s \in Lists, NEW f \in Folders
  PROVE  Without(s, f) \in Lists /\ In(Without(s, f)) = In(s) \ {f}
<1>1. s \in Seq(Folders) /\ Len(s) \in Nat /\ Len(s) <= Limit /\ Limit \in Nat
  BY CatalogAssumption DEF Lists
<1>2. \A i, j \in 1..Len(s) : s[i] = s[j] => i = j
  BY DEF Lists
<1>3. CASE \A i \in DOMAIN s : s[i] # f
  BY <1>3 DEF Without, In
<1>4. CASE \E i \in DOMAIN s : s[i] = f
  <2> DEFINE i == CHOOSE i \in DOMAIN s : s[i] = f
             front == SubSeq(s, 1, i - 1)
             back == SubSeq(s, i + 1, Len(s))
             t == front \o back
  <2>1. i \in 1..Len(s) /\ s[i] = f
    BY <1>1, <1>4
  <2>2. Without(s, f) = t
    BY <1>4 DEF Without
  <2> HIDE DEF i
  <2>3. /\ front \in Seq(Folders) /\ Len(front) = i - 1
        /\ \A j \in 1..Len(front) : front[j] = s[j]
    BY <1>1, <2>1
  <2>4. /\ back \in Seq(Folders) /\ Len(back) = Len(s) - i
        /\ \A j \in 1..Len(back) : back[j] = s[j + i]
    BY <1>1, <2>1
  <2> HIDE DEF front, back
  <2>5. t \in Seq(Folders) /\ Len(t) = Len(s) - 1
    <3>1. t \in Seq(Folders) /\ Len(t) = Len(front) + Len(back)
      BY <2>3, <2>4 DEF t
    <3>2. QED
      BY <1>1, <2>1, <2>3, <2>4, <3>1
  <2>6. \A j \in 1..Len(t) : t[j] = IF j < i THEN s[j] ELSE s[j + 1]
    <3>1. \A j \in 1..Len(t) : t[j] = IF j < i THEN front[j] ELSE back[j - (i - 1)]
      BY <1>1, <2>1, <2>5, <2>3, <2>4 DEF t
    <3>2. QED
      BY <1>1, <2>1, <2>5, <2>3, <2>4, <3>1
  <2> HIDE DEF t
  <2>7. \A j, k \in 1..Len(t) : t[j] = t[k] => j = k
    BY <1>1, <1>2, <2>1, <2>5, <2>6
  <2>8. \A j \in 1..Len(t) : \E k \in 1..Len(s) : k # i /\ t[j] = s[k]
    <3> SUFFICES ASSUME NEW j \in 1..Len(t)
                 PROVE  \E k \in 1..Len(s) : k # i /\ t[j] = s[k]
      OBVIOUS
    <3>1. CASE j < i
      BY <1>1, <2>1, <2>5, <2>6, <3>1
    <3>2. CASE j >= i
      <4>1. j + 1 \in 1..Len(s) /\ j + 1 # i /\ t[j] = s[j + 1]
        BY <1>1, <2>1, <2>5, <2>6, <3>2
      <4>2. QED
        BY <4>1
    <3>3. QED
      BY <1>1, <2>1, <2>5, <3>1, <3>2
  <2>9. \A k \in 1..Len(s) : k # i => \E j \in 1..Len(t) : t[j] = s[k]
    <3> SUFFICES ASSUME NEW k \in 1..Len(s), k # i
                 PROVE  \E j \in 1..Len(t) : t[j] = s[k]
      OBVIOUS
    <3>1. CASE k < i
      BY <1>1, <2>1, <2>5, <2>6, <3>1
    <3>2. CASE k > i
      <4>1. k - 1 \in 1..Len(t) /\ t[k - 1] = s[(k - 1) + 1]
        BY <1>1, <2>1, <2>5, <2>6, <3>2
      <4>2. QED
        BY <1>1, <4>1
    <3>3. QED
      BY <1>1, <2>1, <3>1, <3>2
  <2>10. In(t) = In(s) \ {f}
    <3>1. DOMAIN t = 1..Len(t) /\ DOMAIN s = 1..Len(s)
      BY <1>1, <2>5
    <3>2. \A k \in 1..Len(s) : k # i => s[k] # f
      BY <1>2, <2>1
    <3>3. ASSUME NEW x PROVE x \in In(t) <=> x \in In(s) \ {f}
      <4>1. x \in In(t) <=> \E j \in 1..Len(t) : x = t[j]
        BY <3>1, Zenon DEF In
      <4>2. x \in In(s) <=> \E k \in 1..Len(s) : x = s[k]
        BY <3>1, Zenon DEF In
      <4>3. QED
        BY <2>1, <2>8, <2>9, <3>2, <4>1, <4>2
    <3>4. QED
      BY <3>3
  <2>11. t \in Lists
    BY <1>1, <2>1, <2>5, <2>7 DEF Lists
  <2>12. QED
    BY <2>2, <2>10, <2>11
<1>5. QED
  BY <1>3, <1>4

\* To put a folder first and cut leaves a list of that folder and some others.
LEMMA PromotedList ==
  ASSUME NEW s \in Lists, NEW f \in Folders
  PROVE  /\ Bounded(<<f>> \o Without(s, f)) \in Lists
         /\ In(Bounded(<<f>> \o Without(s, f))) \subseteq In(s) \cup {f}
<1> DEFINE t == Without(s, f)
           u == <<f>> \o t
           b == Bounded(u)
<1>1. t \in Seq(Folders) /\ Len(t) \in Nat /\ Limit \in Nat /\ Limit >= 2
  BY WithoutList, CatalogAssumption DEF Lists
<1>2. \A i, j \in 1..Len(t) : t[i] = t[j] => i = j
  BY WithoutList DEF Lists
<1>3. \A i \in 1..Len(t) : t[i] \in In(s) \ {f}
  <2>1. In(t) = In(s) \ {f} /\ DOMAIN t = 1..Len(t)
    BY <1>1, WithoutList
  <2>2. QED
    BY <2>1, Zenon DEF In
<1> HIDE DEF t
<1>4. u \in Seq(Folders) /\ Len(u) = Len(t) + 1
  BY <1>1
<1>5. \A i \in 1..Len(u) : u[i] = IF i = 1 THEN f ELSE t[i - 1]
  BY <1>1
<1> HIDE DEF u
<1>6. \A i, j \in 1..Len(u) : u[i] = u[j] => i = j
  <2> SUFFICES ASSUME NEW i \in 1..Len(u), NEW j \in 1..Len(u), u[i] = u[j]
               PROVE  i = j
    OBVIOUS
  <2>1. CASE i = 1 \/ j = 1
    BY <1>1, <1>3, <1>4, <1>5, <2>1
  <2>2. CASE i # 1 /\ j # 1
    BY <1>1, <1>2, <1>4, <1>5, <2>2
  <2>3. QED
    BY <2>1, <2>2
<1>7. \A i \in 1..Len(u) : u[i] \in In(s) \cup {f}
  BY <1>1, <1>3, <1>4, <1>5
<1>8. /\ b \in Seq(Folders) /\ Len(b) \in Nat /\ Len(b) <= Limit /\ Len(b) <= Len(u)
      /\ \A i \in 1..Len(b) : b[i] = u[i]
  BY <1>1, <1>4 DEF Bounded
<1> HIDE DEF b
<1>9. b \in Lists
  BY <1>4, <1>6, <1>8 DEF Lists
<1>10. In(b) \subseteq In(s) \cup {f}
  BY <1>4, <1>7, <1>8 DEF In
<1>11. QED
  BY <1>9, <1>10 DEF b, u, t

-----------------------------------------------------------------------------
(* Types.                                                                  *)

\* The values that stand for no list and no path are a list and a path.
LEMMA NothingListed == Nothing \in Listing /\ SomePath \in Folders
<1>1. <<>> \in Lists
  BY CatalogAssumption DEF Lists
<1>2. QED
  BY <1>1, CatalogAssumption DEF Nothing, Listing, SomePath

\* What Promote and Remove make of the list.
LEMMA ChangedList ==
  ASSUME recent \in Listing, NEW STATE f, f \in Folders
  PROVE  /\ Promoted(f) \in Listing
         /\ Promoted(f).version = recent.version + 1
         /\ Contents(Promoted(f)) \subseteq Contents(recent) \cup {f}
         /\ Changed(Without(recent.folders, f)) \in Listing
         /\ Changed(Without(recent.folders, f)).version = recent.version + 1
         /\ Contents(Changed(Without(recent.folders, f))) = Contents(recent) \ {f}
<1>1. recent.folders \in Lists /\ recent.version + 1 \in Nat
  BY DEF Listing
<1>2. Contents(recent) = In(recent.folders)
  BY DEF Contents, In
<1>3. ASSUME NEW STATE l, l \in Lists
      PROVE  /\ Changed(l) \in Listing /\ Contents(Changed(l)) = In(l)
             /\ Changed(l).version = recent.version + 1
  BY <1>1, <1>3 DEF Changed, Listing, Contents, In
<1>4. QED
  BY <1>1, <1>2, <1>3, WithoutList, PromotedList DEF Promoted

\* What Open loads is well typed.
LEMMA TypeInit == Init => TypeOK
<1> SUFFICES ASSUME Init PROVE TypeOK
  OBVIOUS
<1>1. file \in Listing
  BY CatalogAssumption DEF Init, Listing
<1>2. QED
  BY <1>1, NothingListed DEF Init, TypeOK, CallKinds

\* Every step keeps the types: the list is cut at the limit, and has no folder twice.
LEMMA TypeStep == TypeOK /\ [Next]_vars => TypeOK'
<1> SUFFICES ASSUME TypeOK, [Next]_vars PROVE TypeOK'
  OBVIOUS
<1> USE NothingListed
<1>1. ASSUME NEW c \in Callers, Begin(c) PROVE TypeOK'
  BY <1>1, CatalogAssumption DEF TypeOK, Begin, Goto, lockVars, persisterVars, CallKinds
<1>2. ASSUME NEW c \in Callers, Unresolved(c) PROVE TypeOK'
  BY <1>2 DEF TypeOK, Unresolved, Goto, lockVars, callVars, persisterVars
<1>3. ASSUME NEW c \in Callers, SetError(c) PROVE TypeOK'
  BY <1>3 DEF TypeOK, SetError, Return, Goto, lockVars, persisterVars, CallKinds
<1>4. ASSUME NEW c \in Callers, TakePersistMu(c) \/ TakeMu(c) \/ FlushLock(c) PROVE TypeOK'
  BY <1>4 DEF TypeOK, TakePersistMu, TakeMu, FlushLock, Goto, callVars, persisterVars
<1>5. ASSUME NEW c \in Callers, Promote(c) PROVE TypeOK'
  <2>1. recent' \in Listing
    BY <1>5, ChangedList DEF TypeOK, Promote
  <2>2. QED
    BY <1>5, <2>1 DEF TypeOK, Promote, Goto, lockVars, callVars, persisterVars
<1>6. ASSUME NEW c \in Callers, Schedule(c) PROVE TypeOK'
  BY <1>6 DEF TypeOK, Schedule, Return, Goto, CallKinds
<1>7. ASSUME NEW c \in Callers, RemoveAbsent(c) PROVE TypeOK'
  BY <1>7 DEF TypeOK, RemoveAbsent, Return, Goto, persisterVars, CallKinds
<1>8. ASSUME NEW c \in Callers, Remove(c) PROVE TypeOK'
  <2>1. recent' \in Listing
    BY <1>8, ChangedList DEF TypeOK, Remove
  <2>2. QED
    BY <1>8, <2>1 DEF TypeOK, Remove, Goto, lockVars, persisterVars
<1>9. ASSUME NEW c \in Callers, Persist(c) PROVE TypeOK'
  BY <1>9 DEF TypeOK, Persist, Return, Goto, persisterVars, CallKinds
<1>10. ASSUME NEW c \in Callers, PersistFails(c) PROVE TypeOK'
  BY <1>10 DEF TypeOK, PersistFails, Return, Goto, persisterVars, CallKinds
<1>11. ASSUME NEW c \in Callers, FlushEnd(c) PROVE TypeOK'
  BY <1>11 DEF TypeOK, FlushEnd, Return, Goto, persisterVars, CallKinds
<1>12. ASSUME NEW c \in Callers, PersisterStep(c) PROVE TypeOK'
  <2>1. CASE PersisterLocks(c)
    BY <2>1 DEF TypeOK, PersisterLocks, PersisterTo, callVars
  <2>2. CASE PersisterCopies(c)
    BY <2>2 DEF TypeOK, PersisterCopies, PersisterTo, lockVars, callVars
  <2>3. CASE PersisterSaves(c)
    BY <2>3 DEF TypeOK, PersisterSaves, PersisterTo, lockVars, callVars
  <2>4. CASE PersisterFails(c)
    BY <2>4 DEF TypeOK, PersisterFails, PersisterTo, lockVars, callVars
  <2>5. CASE PersisterEnds(c)
    <3>1. lastErr' \in BOOLEAN
      BY <2>5 DEF PersisterEnds
    <3>2. persister' = [persister EXCEPT ![c] = "none"]
      BY <2>5 DEF PersisterEnds, PersisterTo
    <3>3. QED
      BY <2>5, <3>1, <3>2 DEF TypeOK, PersisterEnds, callVars
  <2>6. QED
    BY <1>12, <2>1, <2>2, <2>3, <2>4, <2>5 DEF PersisterStep
<1>13. CASE Crash
  BY <1>13 DEF TypeOK, Crash, CallKinds
<1>14. CASE UNCHANGED vars
  BY <1>14 DEF TypeOK, vars, lockVars, callVars, persisterVars
<1>15. QED
  BY <1>1, <1>2, <1>3, <1>4, <1>5, <1>6, <1>7, <1>8, <1>9, <1>10, <1>11, <1>12, <1>13,
     <1>14 DEF Next, CallStep

(* Types, and the list's bound and its distinct folders, hold always.      *)
THEOREM TypesHold == Spec => []TypeOK
<1>1. QED
  BY TypeInit, TypeStep, PTL DEF Spec

-----------------------------------------------------------------------------
(* Locks.                                                                  *)

Locked == MuIsHeld /\ PersistMuIsHeld /\ CallsInPlace

\* No lock is held at the start.
LEMMA LockedInit == Init => Locked
BY DEF Init, Locked, MuIsHeld, PersistMuIsHeld, CallsInPlace, HoldsMu, CallHoldsPersistMu,
       PersisterHoldsPersistMu

\* Every step keeps the locks to one holder each, and each call in its place.
LEMMA LockedStep == TypeOK /\ Locked /\ [Next]_vars => Locked'
<1> SUFFICES ASSUME TypeOK, Locked, [Next]_vars PROVE Locked'
  OBVIOUS
<1> USE DEF Locked, MuIsHeld, PersistMuIsHeld, CallsInPlace, HoldsMu, CallHoldsPersistMu,
            PersisterHoldsPersistMu
<1>1. ASSUME NEW c \in Callers, Begin(c) PROVE Locked'
  BY <1>1, CatalogAssumption DEF TypeOK, Begin, Goto, lockVars, persisterVars, CallKinds
<1>2. ASSUME NEW c \in Callers, Unresolved(c) PROVE Locked'
  BY <1>2 DEF TypeOK, Unresolved, Goto, lockVars, callVars, persisterVars
<1>3. ASSUME NEW c \in Callers, SetError(c) PROVE Locked'
  BY <1>3 DEF TypeOK, SetError, Return, Goto, lockVars, persisterVars
<1>4. ASSUME NEW c \in Callers, TakePersistMu(c) PROVE Locked'
  BY <1>4 DEF TypeOK, TakePersistMu, Goto, callVars, persisterVars
<1>5. ASSUME NEW c \in Callers, TakeMu(c) PROVE Locked'
  BY <1>5 DEF TypeOK, TakeMu, Goto, callVars, persisterVars
<1>6. ASSUME NEW c \in Callers, FlushLock(c) PROVE Locked'
  BY <1>6 DEF TypeOK, FlushLock, Goto, callVars, persisterVars
<1>7. ASSUME NEW c \in Callers, Promote(c) PROVE Locked'
  BY <1>7 DEF TypeOK, Promote, Goto, lockVars, callVars, persisterVars
<1>8. ASSUME NEW c \in Callers, Schedule(c) PROVE Locked'
  BY <1>8 DEF TypeOK, Schedule, Return, Goto
<1>9. ASSUME NEW c \in Callers, RemoveAbsent(c) PROVE Locked'
  BY <1>9 DEF TypeOK, RemoveAbsent, Return, Goto, persisterVars
<1>10. ASSUME NEW c \in Callers, Remove(c) PROVE Locked'
  BY <1>10 DEF TypeOK, Remove, Goto, lockVars, persisterVars
<1>11. ASSUME NEW c \in Callers, Persist(c) PROVE Locked'
  BY <1>11 DEF TypeOK, Persist, Return, Goto, persisterVars
<1>12. ASSUME NEW c \in Callers, PersistFails(c) PROVE Locked'
  BY <1>12 DEF TypeOK, PersistFails, Return, Goto, persisterVars
<1>13. ASSUME NEW c \in Callers, FlushEnd(c) PROVE Locked'
  BY <1>13 DEF TypeOK, FlushEnd, Return, Goto, persisterVars
<1>14. ASSUME NEW c \in Callers, PersisterStep(c) PROVE Locked'
  <2>1. CASE PersisterLocks(c)
    BY <2>1 DEF TypeOK, PersisterLocks, PersisterTo, callVars
  <2>2. CASE PersisterCopies(c)
    BY <2>2 DEF TypeOK, PersisterCopies, PersisterTo, lockVars, callVars
  <2>3. CASE PersisterSaves(c)
    BY <2>3 DEF TypeOK, PersisterSaves, PersisterTo, lockVars, callVars
  <2>4. CASE PersisterFails(c)
    BY <2>4 DEF TypeOK, PersisterFails, PersisterTo, lockVars, callVars
  <2>5. CASE PersisterEnds(c)
    <3>1. persister[c] \in {"saved", "failed"} /\ persister' = [persister EXCEPT ![c] = "none"]
      BY <2>5 DEF PersisterEnds, PersisterTo
    <3>2. QED
      BY <2>5, <3>1 DEF TypeOK, PersisterEnds, callVars
  <2>6. QED
    BY <1>14, <2>1, <2>2, <2>3, <2>4, <2>5 DEF PersisterStep
<1>15. CASE Crash
  BY <1>15 DEF TypeOK, Crash
<1>16. CASE UNCHANGED vars
  BY <1>16 DEF vars, lockVars, callVars, persisterVars
<1>17. QED
  BY <1>1, <1>2, <1>3, <1>4, <1>5, <1>6, <1>7, <1>8, <1>9, <1>10, <1>11, <1>12, <1>13,
     <1>14, <1>15, <1>16 DEF Next, CallStep

-----------------------------------------------------------------------------
(* Versions, and what is written when all is quiet.                        *)

Written == Versions /\ SavedWhenQuiet

\* At the start the file holds the list.
LEMMA WrittenInit == Init => Written
BY DEF Init, Written, Versions, SavedWhenQuiet, Nothing

\* Every step keeps the file behind what may be written to it, and level when quiet.
LEMMA WrittenStep == TypeOK /\ Locked /\ Written /\ [Next]_vars => Written'
<1> SUFFICES ASSUME TypeOK, Locked, Written, [Next]_vars PROVE Written'
  OBVIOUS
<1> USE DEF Locked, MuIsHeld, PersistMuIsHeld, CallsInPlace, HoldsMu, CallHoldsPersistMu,
            PersisterHoldsPersistMu, Written, Versions, SavedWhenQuiet, Unwritten
<1>0. /\ recent.version \in Nat /\ file.version \in Nat
      /\ \A d \in Callers : previous[d].version \in Nat /\ copied[d].version \in Nat
  BY DEF TypeOK, Listing
<1>1. ASSUME NEW c \in Callers, Begin(c) PROVE Written'
  BY <1>0, <1>1, CatalogAssumption DEF TypeOK, Begin, Goto, lockVars, persisterVars, CallKinds
<1>2. ASSUME NEW c \in Callers, Unresolved(c) PROVE Written'
  BY <1>0, <1>2 DEF TypeOK, Unresolved, Goto, lockVars, callVars, persisterVars
<1>3. ASSUME NEW c \in Callers, SetError(c) PROVE Written'
  BY <1>0, <1>3 DEF TypeOK, SetError, Return, Goto, lockVars, persisterVars
<1>4. ASSUME NEW c \in Callers, TakePersistMu(c) PROVE Written'
  BY <1>0, <1>4 DEF TypeOK, TakePersistMu, Goto, callVars, persisterVars
<1>5. ASSUME NEW c \in Callers, TakeMu(c) PROVE Written'
  BY <1>0, <1>5 DEF TypeOK, TakeMu, Goto, callVars, persisterVars
<1>6. ASSUME NEW c \in Callers, FlushLock(c) PROVE Written'
  BY <1>0, <1>6 DEF TypeOK, FlushLock, Goto, callVars, persisterVars
<1>7. ASSUME NEW c \in Callers, Promote(c) PROVE Written'
  <2>1. path[c] \in Folders /\ recent \in Listing
    BY <1>7 DEF TypeOK
  <2>2. QED
    BY <1>0, <1>7, <2>1, ChangedList DEF TypeOK, Promote, Goto, lockVars, callVars, persisterVars
<1>8. ASSUME NEW c \in Callers, Schedule(c) PROVE Written'
  BY <1>0, <1>8 DEF TypeOK, Schedule, Return, Goto
<1>9. ASSUME NEW c \in Callers, RemoveAbsent(c) PROVE Written'
  BY <1>0, <1>9 DEF TypeOK, RemoveAbsent, Return, Goto, persisterVars
<1>10. ASSUME NEW c \in Callers, Remove(c) PROVE Written'
  <2>1. path[c] \in Folders /\ recent \in Listing
    BY <1>10 DEF TypeOK
  <2>2. QED
    BY <1>0, <1>10, <2>1, ChangedList DEF TypeOK, Remove, Goto, lockVars, persisterVars
<1>11. ASSUME NEW c \in Callers, Persist(c) PROVE Written'
  BY <1>0, <1>11 DEF TypeOK, Persist, Return, Goto, persisterVars
<1>12. ASSUME NEW c \in Callers, PersistFails(c) PROVE Written'
  BY <1>0, <1>12 DEF TypeOK, PersistFails, Return, Goto, persisterVars
<1>13. ASSUME NEW c \in Callers, FlushEnd(c) PROVE Written'
  BY <1>0, <1>13 DEF TypeOK, FlushEnd, Return, Goto, persisterVars
<1>14. ASSUME NEW c \in Callers, PersisterStep(c) PROVE Written'
  <2>1. CASE PersisterLocks(c)
    BY <1>0, <2>1 DEF TypeOK, PersisterLocks, PersisterTo, callVars
  <2>2. CASE PersisterCopies(c)
    BY <1>0, <2>2 DEF TypeOK, PersisterCopies, PersisterTo, lockVars, callVars
  <2>3. CASE PersisterSaves(c)
    BY <1>0, <2>3 DEF TypeOK, PersisterSaves, PersisterTo, lockVars, callVars
  <2>4. CASE PersisterFails(c)
    BY <1>0, <2>4 DEF TypeOK, PersisterFails, PersisterTo, lockVars, callVars
  <2>5. CASE PersisterEnds(c)
    <3>1. persister[c] \in {"saved", "failed"} /\ persister' = [persister EXCEPT ![c] = "none"]
      BY <2>5 DEF PersisterEnds, PersisterTo
    <3>2. QED
      BY <1>0, <2>5, <3>1 DEF TypeOK, PersisterEnds, callVars
  <2>6. QED
    BY <1>14, <2>1, <2>2, <2>3, <2>4, <2>5 DEF PersisterStep
<1>15. CASE Crash
  BY <1>0, <1>15 DEF TypeOK, Crash
<1>16. CASE UNCHANGED vars
  BY <1>16 DEF vars, lockVars, callVars, persisterVars
<1>17. QED
  BY <1>1, <1>2, <1>3, <1>4, <1>5, <1>6, <1>7, <1>8, <1>9, <1>10, <1>11, <1>12, <1>13,
     <1>14, <1>15, <1>16 DEF Next, CallStep

-----------------------------------------------------------------------------
(* Removals.                                                               *)

\* Nothing was removed at the start.
LEMMA RemovedInit == Init => RemovedEverywhere
BY DEF Init, RemovedEverywhere, RemovedStaysRemoved

\* No step brings a removed folder back, or readies a list that would.
LEMMA RemovedStep ==
  TypeOK /\ Locked /\ RemovedEverywhere /\ [Next]_vars => RemovedEverywhere'
<1> SUFFICES ASSUME TypeOK, Locked, RemovedEverywhere, [Next]_vars PROVE RemovedEverywhere'
  OBVIOUS
<1> USE DEF Locked, MuIsHeld, PersistMuIsHeld, CallsInPlace, HoldsMu, CallHoldsPersistMu,
            PersisterHoldsPersistMu, RemovedEverywhere, RemovedStaysRemoved
<1>1. ASSUME NEW c \in Callers, Begin(c) PROVE RemovedEverywhere'
  BY <1>1, CatalogAssumption DEF TypeOK, Begin, Goto, lockVars, persisterVars, CallKinds
<1>2. ASSUME NEW c \in Callers, Unresolved(c) PROVE RemovedEverywhere'
  BY <1>2 DEF TypeOK, Unresolved, Goto, lockVars, callVars, persisterVars
<1>3. ASSUME NEW c \in Callers, SetError(c) PROVE RemovedEverywhere'
  BY <1>3 DEF TypeOK, SetError, Return, Goto, lockVars, persisterVars
<1>4. ASSUME NEW c \in Callers, TakePersistMu(c) PROVE RemovedEverywhere'
  BY <1>4 DEF TypeOK, TakePersistMu, Goto, callVars, persisterVars
<1>5. ASSUME NEW c \in Callers, TakeMu(c) PROVE RemovedEverywhere'
  BY <1>5 DEF TypeOK, TakeMu, Goto, callVars, persisterVars
<1>6. ASSUME NEW c \in Callers, FlushLock(c) PROVE RemovedEverywhere'
  BY <1>6 DEF TypeOK, FlushLock, Goto, callVars, persisterVars
<1>7. ASSUME NEW c \in Callers, Promote(c) PROVE RemovedEverywhere'
  <2>1. path[c] \in Folders /\ recent \in Listing
    BY <1>7 DEF TypeOK
  <2>2. QED
    BY <1>7, <2>1, ChangedList DEF TypeOK, Promote, Goto, lockVars, callVars, persisterVars
<1>8. ASSUME NEW c \in Callers, Schedule(c) PROVE RemovedEverywhere'
  BY <1>8 DEF TypeOK, Schedule, Return, Goto
<1>9. ASSUME NEW c \in Callers, RemoveAbsent(c) PROVE RemovedEverywhere'
  BY <1>9 DEF TypeOK, RemoveAbsent, Return, Goto, persisterVars
<1>10. ASSUME NEW c \in Callers, Remove(c) PROVE RemovedEverywhere'
  <2>1. path[c] \in Folders /\ recent \in Listing
    BY <1>10 DEF TypeOK
  <2>2. QED
    BY <1>10, <2>1, ChangedList DEF TypeOK, Remove, Goto, lockVars, persisterVars
<1>11. ASSUME NEW c \in Callers, Persist(c) PROVE RemovedEverywhere'
  BY <1>11 DEF TypeOK, Persist, Return, Goto, persisterVars
<1>12. ASSUME NEW c \in Callers, PersistFails(c) PROVE RemovedEverywhere'
  BY <1>12 DEF TypeOK, PersistFails, Return, Goto, persisterVars
<1>13. ASSUME NEW c \in Callers, FlushEnd(c) PROVE RemovedEverywhere'
  BY <1>13 DEF TypeOK, FlushEnd, Return, Goto, persisterVars
<1>14. ASSUME NEW c \in Callers, PersisterStep(c) PROVE RemovedEverywhere'
  <2>1. CASE PersisterLocks(c)
    BY <2>1 DEF TypeOK, PersisterLocks, PersisterTo, callVars
  <2>2. CASE PersisterCopies(c)
    BY <2>2 DEF TypeOK, PersisterCopies, PersisterTo, lockVars, callVars
  <2>3. CASE PersisterSaves(c)
    BY <2>3 DEF TypeOK, PersisterSaves, PersisterTo, lockVars, callVars
  <2>4. CASE PersisterFails(c)
    BY <2>4 DEF TypeOK, PersisterFails, PersisterTo, lockVars, callVars
  <2>5. CASE PersisterEnds(c)
    <3>1. persister[c] \in {"saved", "failed"} /\ persister' = [persister EXCEPT ![c] = "none"]
      BY <2>5 DEF PersisterEnds, PersisterTo
    <3>2. QED
      BY <2>5, <3>1 DEF TypeOK, PersisterEnds, callVars
  <2>6. QED
    BY <1>14, <2>1, <2>2, <2>3, <2>4, <2>5 DEF PersisterStep
<1>15. CASE Crash
  BY <1>15 DEF TypeOK, Crash
<1>16. CASE UNCHANGED vars
  BY <1>16 DEF vars, lockVars, callVars, persisterVars
<1>17. QED
  BY <1>1, <1>2, <1>3, <1>4, <1>5, <1>6, <1>7, <1>8, <1>9, <1>10, <1>11, <1>12, <1>13,
     <1>14, <1>15, <1>16 DEF Next, CallStep

-----------------------------------------------------------------------------
(* The theorems.                                                           *)

\* The inductive invariant holds always.
LEMMA InvHolds == Spec => []Inv
<1>1. Init => Inv
  BY TypeInit, LockedInit, WrittenInit, RemovedInit DEF Inv, Locked, Written
<1>2. Inv /\ [Next]_vars => Inv'
  BY TypeStep, LockedStep, WrittenStep, RemovedStep DEF Inv, Locked, Written
<1>3. QED
  BY <1>1, <1>2, PTL DEF Spec

(* catalog.go, record, persistLatest: when no write is under way or owed   *)
(* and none has failed, the file holds the list of this moment.            *)
THEOREM QuietIsSaved == Spec => []SavedWhenQuiet
<1>1. Inv => SavedWhenQuiet
  BY DEF Inv
<1>2. QED
  BY <1>1, InvHolds, PTL

(* catalog.go, Remove: what was removed comes back neither in memory nor   *)
(* in the file, through failed writes, pending goroutines and crashes,     *)
(* until it is recorded again.                                             *)
THEOREM RemovalsLast == Spec => []RemovedStaysRemoved
<1>1. Inv => RemovedStaysRemoved
  BY DEF Inv, RemovedEverywhere
<1>2. QED
  BY <1>1, InvHolds, PTL

(* catalog.go, persistState: the file is never replaced by an older list,  *)
(* whatever the order in which records, removals and goroutines write it.  *)
THEOREM FileKeepsUp == Spec => FileNeverGoesBack
<1>1. Inv /\ [Next]_vars => [file'.version >= file.version]_vars
  <2> SUFFICES ASSUME Inv, [Next]_vars, file' # file PROVE file'.version >= file.version
    BY DEF Inv, TypeOK, Listing
  <2>1. ASSUME NEW c \in Callers, Persist(c) PROVE file'.version >= file.version
    BY <2>1 DEF Inv, Versions, Persist, TypeOK, Listing
  <2>2. ASSUME NEW c \in Callers, PersisterSaves(c) PROVE file'.version >= file.version
    BY <2>2 DEF Inv, Versions, PersisterSaves, PersisterTo, TypeOK, Listing
  <2>3. QED
    BY <2>1, <2>2 DEF Next, CallStep, PersisterStep, vars, Begin, Unresolved, SetError,
       TakePersistMu, TakeMu, Promote, Schedule, RemoveAbsent, Remove, PersistFails,
       FlushLock, FlushEnd, PersisterLocks, PersisterCopies, PersisterFails,
       PersisterEnds, Crash
<1>2. QED
  BY <1>1, InvHolds, PTL DEF Spec, FileNeverGoesBack
=============================================================================
