---------------------------- MODULE FolderCatalog ----------------------------
(***************************************************************************)
(* The catalog of recent folders (internal/folder/catalog.go): a bounded   *)
(* list in memory, kept by calls of Record, RecordDeferred and Remove, and *)
(* a file that follows it.  Record and Remove write the file while they    *)
(* hold both locks; RecordDeferred leaves that to a goroutine of its own,  *)
(* which Flush waits for.  A step ends where the code must wait for a lock *)
(* or for the disk.  The file is replaced by a rename: a write happens as  *)
(* a whole or fails, and a crash loses what is in memory.                  *)
(***************************************************************************)
EXTENDS Naturals, Sequences

CONSTANTS
  Folders,     \* canonical paths
  Callers,     \* goroutines that call the catalog, any number of times
  Limit,       \* length of the list
  Loaded,      \* lists an earlier process may have left in the file
  Calls,       \* the calls they make
  MaxChanges   \* bound: versions stop growing here

CallKinds == {"record", "recordDeferred", "remove", "flush"}

Lists ==
  {s \in Seq(Folders) : /\ Len(s) <= Limit
                        /\ \A i, j \in DOMAIN s : s[i] = s[j] => i = j}

(* record's loop tests the length after each folder that it keeps, so that *)
(* a list of one would never be cut: the code asks for a longer one, of 20.*)
ASSUME CatalogAssumption ==
  /\ Limit \in Nat /\ Limit >= 2 /\ MaxChanges \in Nat
  /\ Folders # {} /\ Loaded \subseteq Lists /\ Calls \subseteq CallKinds

VARIABLES
  recent,              \* the list; its version counts the changes made to it
  lastErr,             \* did the last persistence, or path, fail?
  file,                \* the list on disk
  mu, persistMu, persistScheduleMu,   \* is the lock held (mu: for writing)?
  pc, call, path,      \* a caller's place, its call and its argument
  previous,            \* Remove's list to fall back on
  persister,           \* the goroutine a caller's RecordDeferred started
  copied,              \* the list that goroutine is writing
  removed              \* history: folders removed, and not recorded since

lockVars == <<mu, persistMu, persistScheduleMu>>
callVars == <<call, path, previous>>
persisterVars == <<persister, copied>>
vars == <<recent, lastErr, file, lockVars, pc, callVars, persisterVars, removed>>

Listing == [folders : Lists, version : Nat]
Contents(list) == {list.folders[i] : i \in DOMAIN list.folders}

TypeOK ==
  /\ {recent, file} \subseteq Listing
  /\ lastErr \in BOOLEAN
  /\ mu \in BOOLEAN /\ persistMu \in BOOLEAN /\ persistScheduleMu \in BOOLEAN
  /\ pc \in [Callers -> {"idle", "persistLock", "lock", "held", "persist", "schedule",
                         "flushLock", "flush", "failed"}]
  /\ call \in [Callers -> CallKinds]
  /\ path \in [Callers -> Folders]
  /\ previous \in [Callers -> Listing]
  /\ persister \in [Callers -> {"none", "started", "locked", "copied", "saved", "failed"}]
  /\ copied \in [Callers -> Listing]
  /\ removed \in SUBSET Folders

Nothing == [folders |-> <<>>, version |-> 0]
SomePath == CHOOSE f \in Folders : TRUE

Init ==
  /\ file \in [folders : Loaded, version : {0}] /\ recent = file /\ lastErr = FALSE
  /\ mu = FALSE /\ persistMu = FALSE /\ persistScheduleMu = FALSE
  /\ pc = [c \in Callers |-> "idle"]
  /\ call = [c \in Callers |-> "flush"]
  /\ path = [c \in Callers |-> SomePath]
  /\ previous = [c \in Callers |-> Nothing]
  /\ persister = [c \in Callers |-> "none"] /\ copied = [c \in Callers |-> Nothing]
  /\ removed = {}

Goto(c, from, to) == pc[c] = from /\ pc' = [pc EXCEPT ![c] = to]

\* A call's locals end with it.
Return(c, from) ==
  /\ Goto(c, from, "idle")
  /\ call' = [call EXCEPT ![c] = "flush"] /\ path' = [path EXCEPT ![c] = SomePath]
  /\ previous' = [previous EXCEPT ![c] = Nothing]

\* A list has a folder once at most: to filter it out is to take out its place.
Without(s, f) ==
  IF \E i \in DOMAIN s : s[i] = f
  THEN LET i == CHOOSE i \in DOMAIN s : s[i] = f
       IN  SubSeq(s, 1, i - 1) \o SubSeq(s, i + 1, Len(s))
  ELSE s
Unbounded(s) == s  \* as it would be if the loop never broke
Bounded(s) == SubSeq(s, 1, IF Len(s) < Limit THEN Len(s) ELSE Limit)
Changed(folders) == [folders |-> folders, version |-> recent.version + 1]
Promoted(f) == Changed(Bounded(<<f>> \o Without(recent.folders, f)))

-----------------------------------------------------------------------------
(* A call begins.  A path that cannot be resolved only leaves its error.   *)
(* Bounds: no change beyond MaxChanges, and one persister per caller.      *)

Begin(c) ==
  /\ \E k \in Calls, f \in Folders :
       /\ IF k = "flush" THEN f = SomePath ELSE recent.version < MaxChanges
       /\ k = "recordDeferred" => persister[c] = "none"
       /\ call' = [call EXCEPT ![c] = k]
       /\ path' = [path EXCEPT ![c] = f]
       /\ Goto(c, "idle", CASE k = "recordDeferred" -> "lock"
                            [] k = "flush" -> "flushLock"
                            [] OTHER -> "persistLock")
  /\ UNCHANGED <<recent, lastErr, file, lockVars, previous, persisterVars, removed>>

Unresolved(c) ==
  /\ Goto(c, "idle", "failed")
  /\ UNCHANGED <<recent, lastErr, file, lockVars, callVars, persisterVars, removed>>

SetError(c) ==
  /\ ~mu
  /\ lastErr' = TRUE
  /\ Return(c, "failed")
  /\ UNCHANGED <<recent, file, lockVars, persisterVars, removed>>

TakePersistMu(c) ==
  /\ ~persistMu /\ persistMu' = TRUE
  /\ Goto(c, "persistLock", "lock")
  /\ UNCHANGED <<recent, lastErr, file, mu, persistScheduleMu, callVars, persisterVars, removed>>

TakeMu(c) ==
  /\ ~mu /\ mu' = TRUE
  /\ Goto(c, "lock", "held")
  /\ UNCHANGED <<recent, lastErr, file, persistMu, persistScheduleMu, callVars, persisterVars,
                 removed>>

Promote(c) ==
  /\ call[c] \in {"record", "recordDeferred"}
  /\ recent' = Promoted(path[c])
  /\ removed' = removed \ {path[c]}
  /\ Goto(c, "held", IF call[c] = "record" THEN "persist" ELSE "schedule")
  /\ UNCHANGED <<lastErr, file, lockVars, callVars, persisterVars>>

\* As it would be if a goroutine under way were trusted to write this change too.
ScheduleUnlessUnderWay(c) ==
  /\ ~persistScheduleMu
  /\ persister' = IF \E d \in Callers : persister[d] # "none" THEN persister
                  ELSE [persister EXCEPT ![c] = "started"]
  /\ mu' = FALSE
  /\ Return(c, "schedule")
  /\ UNCHANGED <<recent, lastErr, file, persistMu, persistScheduleMu, copied, removed>>

\* The list stays locked until the goroutine is counted for Flush.
Schedule(c) ==
  /\ ~persistScheduleMu
  /\ persister' = [persister EXCEPT ![c] = "started"]
  /\ mu' = FALSE
  /\ Return(c, "schedule")
  /\ UNCHANGED <<recent, lastErr, file, persistMu, persistScheduleMu, copied, removed>>

\* As it would be if the early return left the list locked.
RemoveAbsentLocked(c) ==
  /\ call[c] = "remove" /\ path[c] \notin Contents(recent)
  /\ persistMu' = FALSE
  /\ Return(c, "held")
  /\ UNCHANGED <<recent, lastErr, file, mu, persistScheduleMu, persisterVars, removed>>

RemoveAbsent(c) ==
  /\ call[c] = "remove" /\ path[c] \notin Contents(recent)
  /\ mu' = FALSE /\ persistMu' = FALSE
  /\ Return(c, "held")
  /\ UNCHANGED <<recent, lastErr, file, persistScheduleMu, persisterVars, removed>>

Remove(c) ==
  /\ call[c] = "remove" /\ path[c] \in Contents(recent)
  /\ previous' = [previous EXCEPT ![c] = recent]
  /\ recent' = Changed(Without(recent.folders, path[c]))
  /\ Goto(c, "held", "persist")
  /\ UNCHANGED <<lastErr, file, lockVars, call, path, persisterVars, removed>>

\* persistLocked succeeded.
Persist(c) ==
  /\ file' = recent /\ lastErr' = FALSE
  /\ removed' = IF call[c] = "remove" THEN removed \cup {path[c]} ELSE removed
  /\ mu' = FALSE /\ persistMu' = FALSE
  /\ Return(c, "persist")
  /\ UNCHANGED <<recent, persistScheduleMu, persisterVars>>

\* As it would be if Remove took a failed write lightly, as Record may.
PersistFailsLightly(c) ==
  /\ lastErr' = TRUE
  /\ removed' = IF call[c] = "remove" THEN removed \cup {path[c]} ELSE removed
  /\ mu' = FALSE /\ persistMu' = FALSE
  /\ Return(c, "persist")
  /\ UNCHANGED <<recent, file, persistScheduleMu, persisterVars>>

\* persistLocked failed: Remove falls back, Record keeps the list in memory.
PersistFails(c) ==
  /\ lastErr' = TRUE
  /\ recent' = IF call[c] = "remove" THEN previous[c] ELSE recent
  /\ mu' = FALSE /\ persistMu' = FALSE
  /\ Return(c, "persist")
  /\ UNCHANGED <<file, persistScheduleMu, persisterVars, removed>>

FlushLock(c) ==
  /\ ~persistScheduleMu /\ persistScheduleMu' = TRUE
  /\ Goto(c, "flushLock", "flush")
  /\ UNCHANGED <<recent, lastErr, file, mu, persistMu, callVars, persisterVars, removed>>

FlushEnd(c) ==
  /\ \A d \in Callers : persister[d] = "none"
  /\ persistScheduleMu' = FALSE
  /\ Return(c, "flush")
  /\ UNCHANGED <<recent, lastErr, file, mu, persistMu, persisterVars, removed>>

-----------------------------------------------------------------------------
(* persistLatest, in the goroutine of a deferred record.                   *)

PersisterTo(c, from, to) ==
  persister[c] = from /\ persister' = [persister EXCEPT ![c] = to]

\* As it would be without persistMu.
PersisterUnserialized(c) ==
  /\ persistMu' = TRUE
  /\ PersisterTo(c, "started", "locked")
  /\ UNCHANGED <<recent, lastErr, file, mu, persistScheduleMu, pc, callVars, copied, removed>>

PersisterLocks(c) ==
  /\ ~persistMu /\ persistMu' = TRUE
  /\ PersisterTo(c, "started", "locked")
  /\ UNCHANGED <<recent, lastErr, file, mu, persistScheduleMu, pc, callVars, copied, removed>>

PersisterCopies(c) ==
  /\ ~mu
  /\ copied' = [copied EXCEPT ![c] = recent]
  /\ PersisterTo(c, "locked", "copied")
  /\ UNCHANGED <<recent, lastErr, file, lockVars, pc, callVars, removed>>

PersisterSaves(c) ==
  /\ PersisterTo(c, "copied", "saved")
  /\ file' = copied[c]
  /\ UNCHANGED <<recent, lastErr, lockVars, pc, callVars, copied, removed>>

PersisterFails(c) ==
  /\ PersisterTo(c, "copied", "failed")
  /\ UNCHANGED <<recent, lastErr, file, lockVars, pc, callVars, copied, removed>>

PersisterEnds(c) ==
  /\ ~mu
  /\ lastErr' = (persister[c] = "failed")
  /\ \E outcome \in {"saved", "failed"} : PersisterTo(c, outcome, "none")
  /\ persistMu' = FALSE
  /\ copied' = [copied EXCEPT ![c] = Nothing]
  /\ UNCHANGED <<recent, file, mu, persistScheduleMu, pc, callVars, removed>>

-----------------------------------------------------------------------------
(* The process is killed and started again: load reads the file.           *)
Crash ==
  /\ recent' = file /\ lastErr' = FALSE
  /\ mu' = FALSE /\ persistMu' = FALSE /\ persistScheduleMu' = FALSE
  /\ pc' = [c \in Callers |-> "idle"]
  /\ call' = [c \in Callers |-> "flush"] /\ path' = [c \in Callers |-> SomePath]
  /\ previous' = [c \in Callers |-> Nothing]
  /\ persister' = [c \in Callers |-> "none"] /\ copied' = [c \in Callers |-> Nothing]
  /\ UNCHANGED <<file, removed>>

CallStep(c) ==
  \/ SetError(c) \/ TakePersistMu(c) \/ TakeMu(c) \/ Promote(c) \/ Schedule(c)
  \/ RemoveAbsent(c) \/ Remove(c) \/ Persist(c) \/ PersistFails(c)
  \/ FlushLock(c) \/ FlushEnd(c)

PersisterStep(c) ==
  PersisterLocks(c) \/ PersisterCopies(c) \/ PersisterSaves(c) \/ PersisterFails(c)
  \/ PersisterEnds(c)

Next ==
  \/ \E c \in Callers : Begin(c) \/ Unresolved(c) \/ CallStep(c) \/ PersisterStep(c)
  \/ Crash

Spec == Init /\ [][Next]_vars

(* Goroutines that can step do, a lock is granted at last to whoever waits *)
(* for it (sync.Mutex starves nobody), and writes end, one way or the      *)
(* other.                                                                  *)
FairSpec ==
  Spec /\ \A c \in Callers : SF_vars(CallStep(c)) /\ SF_vars(PersisterStep(c))

-----------------------------------------------------------------------------
(* When nothing is being written or about to be, and no error is reported, *)
(* the file holds the list: no deferred change was dropped.                *)
SavedWhenQuiet ==
  /\ \A c \in Callers : persister[c] = "none"
  /\ \A c \in Callers : pc[c] \notin {"persist", "schedule"}
  /\ ~lastErr
  => file = recent

(* An older list never replaces a newer one on disk, whatever the order in *)
(* which deferred writes, records and removals get the locks.              *)
FileNeverGoesBack == [][file'.version >= file.version]_vars

(* A folder that Remove took off the list stays off it, in memory, on disk *)
(* and across a crash, until it is recorded again: no deferred record that *)
(* was pending brings it back.                                             *)
RemovedStaysRemoved == removed \cap (Contents(recent) \cup Contents(file)) = {}

(* Every call returns, unless a flush and a deferred record wait for each  *)
(* other.                                                                  *)
FlushDeadlock == \E c, d \in Callers : pc[c] = "flush" /\ pc[d] = "schedule"
CallsReturn == \A c \in Callers : pc[c] # "idle" ~> (pc[c] = "idle" \/ FlushDeadlock)

(* RecordDeferred returns, whatever else is under way: it must never keep  *)
(* a folder from being opened.                                             *)
OpeningNeverHangs ==
  \A c \in Callers : (pc[c] # "idle" /\ call[c] = "recordDeferred") ~> pc[c] = "idle"
=============================================================================
