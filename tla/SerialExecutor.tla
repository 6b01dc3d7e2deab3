--------------------------- MODULE SerialExecutor ---------------------------
(***************************************************************************)
(* What internal/gitx/operations.go promises the repository adapter of a   *)
(* mutation queue, without its channel, its locks or its goroutines:       *)
(* accepted jobs run one at a time in the order they were accepted, a job  *)
(* whose context ended before its turn is skipped, nothing is accepted     *)
(* once the queue has closed, and whoever waits for the drain sees every   *)
(* accepted job settled.                                                   *)
(***************************************************************************)
EXTENDS Naturals, Sequences, FiniteSets

CONSTANTS Jobs,  \* one job for every call of Do
          None   \* no job: not a member of Jobs

VARIABLES
  backlog,  \* accepted jobs that have not had their turn, oldest first
  running,  \* the job being executed, or None
  fate,     \* what became of each job
  open,     \* does the executor still accept jobs?
  drained   \* has the worker exited?

absVars == <<backlog, running, fate, open, drained>>

Fates == {"new", "refused", "queued", "running", "skipped", "finished"}

AbsInit ==
  /\ backlog = <<>>
  /\ running = None
  /\ fate = [j \in Jobs |-> "new"]
  /\ open = TRUE
  /\ drained = FALSE

Accept(j) ==
  /\ open
  /\ fate[j] = "new"
  /\ backlog' = Append(backlog, j)
  /\ fate' = [fate EXCEPT ![j] = "queued"]
  /\ UNCHANGED <<running, open, drained>>

Refuse(j) ==
  /\ fate[j] = "new"
  /\ fate' = [fate EXCEPT ![j] = "refused"]
  /\ UNCHANGED <<backlog, running, open, drained>>

Begin ==
  /\ backlog # <<>>
  /\ running = None
  /\ running' = Head(backlog)
  /\ backlog' = Tail(backlog)
  /\ fate' = [fate EXCEPT ![Head(backlog)] = "running"]
  /\ UNCHANGED <<open, drained>>

SkipHead ==
  /\ backlog # <<>>
  /\ running = None
  /\ backlog' = Tail(backlog)
  /\ fate' = [fate EXCEPT ![Head(backlog)] = "skipped"]
  /\ UNCHANGED <<running, open, drained>>

Complete ==
  /\ running # None
  /\ fate' = [fate EXCEPT ![running] = "finished"]
  /\ running' = None
  /\ UNCHANGED <<backlog, open, drained>>

CloseAdmission ==
  /\ open
  /\ open' = FALSE
  /\ UNCHANGED <<backlog, running, fate, drained>>

Drain ==
  /\ ~open
  /\ ~drained
  /\ backlog = <<>>
  /\ running = None
  /\ drained' = TRUE
  /\ UNCHANGED <<backlog, running, fate, open>>

AbsNext ==
  \/ \E j \in Jobs : Accept(j) \/ Refuse(j)
  \/ Begin \/ SkipHead \/ Complete
  \/ CloseAdmission
  \/ Drain

AbsSpec == AbsInit /\ [][AbsNext]_absVars
=============================================================================
