--------------------------- MODULE MutationQueue ----------------------------
(***************************************************************************)
(* The mutation queue of one folder backend (internal/gitx/operations.go): *)
(* request goroutines that submit a job with Do, the one worker goroutine, *)
(* and the owner that calls Stop and then Wait.  The buffered channel, the *)
(* admission read-write lock and the two signal channels are modelled; a   *)
(* job's payload (the Git command) is not.                                 *)
(***************************************************************************)
EXTENDS Naturals, Sequences, FiniteSets

CONSTANTS Callers,   \* request goroutines, each submitting one job
          Capacity,  \* buffer of the job channel (64 in the code)
          None       \* no job

ASSUME QueueAssumption ==
  /\ Capacity \in Nat \ {0}
  /\ None \notin Callers

VARIABLES
  pc,        \* where each caller is in Do
  ctx,       \* each caller's request context: live or done
  queue,     \* the job channel
  done,      \* each job's one-place done channel
  result,    \* what Do returned to each caller
  ran,       \* jobs whose fn was entered, in order (history)
  worker,    \* the job the worker is executing, or None
  exited,    \* has the worker closed q.done?
  stopping,  \* is q.stopping closed?
  closed,    \* is the job channel closed?
  stopPc     \* where Stop is

vars == <<pc, ctx, queue, done, result, ran, worker, exited, stopping, closed, stopPc>>

callerVars == <<pc, result>>
workerVars == <<worker, exited, ran, done>>
stopVars == <<stopping, closed, stopPc>>

PCs == {"start", "admission", "checking", "sending", "waiting", "returned"}
Answers == {"none", "finished", "ctx", "closed"}

TypeOK ==
  /\ pc \in [Callers -> PCs]
  /\ ctx \in [Callers -> {"live", "done"}]
  /\ queue \in Seq(Callers)
  /\ Len(queue) <= Capacity
  /\ done \in [Callers -> Answers]
  /\ result \in [Callers -> Answers]
  /\ ran \in Seq(Callers)
  /\ worker \in Callers \cup {None}
  /\ exited \in BOOLEAN /\ stopping \in BOOLEAN /\ closed \in BOOLEAN
  /\ stopPc \in {"idle", "announced", "locking", "stopped"}

Init ==
  /\ pc = [c \in Callers |-> "start"]
  /\ ctx = [c \in Callers |-> "live"]
  /\ queue = <<>>
  /\ done = [c \in Callers |-> "none"]
  /\ result = [c \in Callers |-> "none"]
  /\ ran = <<>>
  /\ worker = None
  /\ exited = FALSE /\ stopping = FALSE /\ closed = FALSE
  /\ stopPc = "idle"

-----------------------------------------------------------------------------
(* The caller: Do and enqueue.                                             *)

Goto(c, to) == pc' = [pc EXCEPT ![c] = to] /\ UNCHANGED result
Return(c, answer) ==
  /\ pc' = [pc EXCEPT ![c] = "returned"]
  /\ result' = [result EXCEPT ![c] = answer]

\* Holding the read side of q.admission.
Admitted == {c \in Callers : pc[c] \in {"checking", "sending"}}

\* A disconnected client or a deadline ends a request's context at any time.
EndContext(c) ==
  /\ ctx[c] = "live" /\ pc[c] # "returned"
  /\ ctx' = [ctx EXCEPT ![c] = "done"]
  /\ UNCHANGED <<callerVars, queue, workerVars, stopVars>>

Do(c) ==
  /\ pc[c] = "start"
  /\ IF ctx[c] = "done" THEN Return(c, "ctx") ELSE Goto(c, "admission")
  /\ UNCHANGED <<ctx, queue, workerVars, stopVars>>

\* A writer that waits for the lock keeps later readers out.
LockAdmission(c) ==
  /\ pc[c] = "admission"
  /\ stopPc # "locking"
  /\ Goto(c, "checking")
  /\ UNCHANGED <<ctx, queue, workerVars, stopVars>>

CheckStopping(c) ==
  /\ pc[c] = "checking"
  /\ IF stopping THEN Return(c, "closed") ELSE Goto(c, "sending")
  /\ UNCHANGED <<ctx, queue, workerVars, stopVars>>

\* As it would be with an unbounded channel.
SendPastCapacity(c) ==
  /\ pc[c] = "sending"
  /\ queue' = Append(queue, c)
  /\ Goto(c, "waiting")
  /\ UNCHANGED <<ctx, workerVars, stopVars>>

\* The three arms of enqueue's select: any that is ready may be taken.
Send(c) ==
  /\ pc[c] = "sending"
  /\ Len(queue) < Capacity
  /\ queue' = Append(queue, c)
  /\ Goto(c, "waiting")
  /\ UNCHANGED <<ctx, workerVars, stopVars>>

\* As it would be without the second stopping arm.
NotWokenByStop(c) == FALSE

RefusedByStop(c) ==
  /\ pc[c] = "sending"
  /\ stopping
  /\ Return(c, "closed")
  /\ UNCHANGED <<ctx, queue, workerVars, stopVars>>

CancelledInEnqueue(c) ==
  /\ pc[c] = "sending"
  /\ ctx[c] = "done"
  /\ Return(c, "ctx")
  /\ UNCHANGED <<ctx, queue, workerVars, stopVars>>

\* Do's last select: the job's answer, or a context that ended first.
ReceiveAnswer(c) ==
  /\ pc[c] = "waiting"
  /\ done[c] # "none"
  /\ Return(c, done[c])
  /\ UNCHANGED <<ctx, queue, workerVars, stopVars>>

Abandon(c) ==
  /\ pc[c] = "waiting"
  /\ ctx[c] = "done"
  /\ Return(c, "ctx")
  /\ UNCHANGED <<ctx, queue, workerVars, stopVars>>

CallerStep(c) ==
  \/ Do(c) \/ LockAdmission(c) \/ CheckStopping(c)
  \/ Send(c) \/ RefusedByStop(c) \/ CancelledInEnqueue(c)
  \/ ReceiveAnswer(c) \/ Abandon(c)

-----------------------------------------------------------------------------
(* The worker: run.                                                        *)

SkipJob ==
  /\ worker = None /\ ~exited
  /\ queue # <<>>
  /\ ctx[Head(queue)] = "done"
  /\ queue' = Tail(queue)
  /\ done' = [done EXCEPT ![Head(queue)] = "ctx"]
  /\ UNCHANGED <<callerVars, ctx, ran, worker, exited, stopVars>>

\* As it would be if the answer were sent before the job ran.
StartJobAnsweredEarly ==
  /\ worker = None /\ ~exited
  /\ queue # <<>>
  /\ ctx[Head(queue)] = "live"
  /\ queue' = Tail(queue)
  /\ worker' = Head(queue)
  /\ done' = [done EXCEPT ![Head(queue)] = "finished"]
  /\ ran' = Append(ran, Head(queue))
  /\ UNCHANGED <<callerVars, ctx, exited, stopVars>>

\* As it would be if the job were only peeked at.
StartJobLeftInQueue ==
  /\ worker = None /\ ~exited
  /\ queue # <<>>
  /\ ctx[Head(queue)] = "live"
  /\ worker' = Head(queue)
  /\ ran' = Append(ran, Head(queue))
  /\ UNCHANGED <<callerVars, ctx, queue, done, exited, stopVars>>

StartJob ==
  /\ worker = None /\ ~exited
  /\ queue # <<>>
  /\ ctx[Head(queue)] = "live"
  /\ queue' = Tail(queue)
  /\ worker' = Head(queue)
  /\ ran' = Append(ran, Head(queue))
  /\ UNCHANGED <<callerVars, ctx, done, exited, stopVars>>

\* As it would be if only failed jobs were answered.
FinishJobUnanswered ==
  /\ worker # None
  /\ worker' = None
  /\ UNCHANGED <<callerVars, ctx, queue, ran, done, exited, stopVars>>

FinishJob ==
  /\ worker # None
  /\ done' = [done EXCEPT ![worker] = "finished"]
  /\ worker' = None
  /\ UNCHANGED <<callerVars, ctx, queue, ran, exited, stopVars>>

ExitWorker ==
  /\ worker = None /\ ~exited
  /\ queue = <<>> /\ closed
  /\ exited' = TRUE
  /\ UNCHANGED <<callerVars, ctx, queue, ran, worker, done, stopVars>>

-----------------------------------------------------------------------------
(* The owner: Stop, whose two effects are separated by the lock.           *)

CloseStopping ==
  /\ stopPc = "idle"
  /\ stopping' = TRUE
  /\ stopPc' = "announced"
  /\ UNCHANGED <<callerVars, ctx, queue, workerVars, closed>>

RequestAdmissionLock ==
  /\ stopPc = "announced"
  /\ stopPc' = "locking"
  /\ UNCHANGED <<callerVars, ctx, queue, workerVars, stopping, closed>>

\* As it would be without the admission lock.
CloseQueueUnlocked ==
  /\ stopPc = "locking"
  /\ closed' = TRUE
  /\ stopPc' = "stopped"
  /\ UNCHANGED <<callerVars, ctx, queue, workerVars, stopping>>

\* As it would be if Stop only announced itself.
CloseQueueForgotten ==
  /\ stopPc = "locking"
  /\ Admitted = {}
  /\ stopPc' = "stopped"
  /\ UNCHANGED <<callerVars, ctx, queue, workerVars, stopping, closed>>

CloseQueue ==
  /\ stopPc = "locking"
  /\ Admitted = {}
  /\ closed' = TRUE
  /\ stopPc' = "stopped"
  /\ UNCHANGED <<callerVars, ctx, queue, workerVars, stopping>>

Stop == CloseStopping \/ RequestAdmissionLock \/ CloseQueue

-----------------------------------------------------------------------------
\* Every caller has returned and the worker is gone: nothing is left to do.
Quiescent ==
  /\ exited
  /\ \A c \in Callers : pc[c] = "returned"
  /\ UNCHANGED vars

Next ==
  \/ \E c \in Callers : EndContext(c) \/ CallerStep(c)
  \/ SkipJob \/ StartJob \/ FinishJob \/ ExitWorker
  \/ Stop
  \/ Quiescent

Spec == Init /\ [][Next]_vars

(* Goroutines that can step do step; nothing is said of how long a job     *)
(* takes, nor of whether the owner ever calls Stop.                        *)
FairSpec ==
  /\ Spec
  /\ \A c \in Callers : WF_vars(CallerStep(c))
  /\ WF_vars(SkipJob) /\ WF_vars(StartJob) /\ WF_vars(ExitWorker)
  /\ WF_vars(RequestAdmissionLock) /\ WF_vars(CloseQueue)

(* No job runs for ever: the server gives each one a deadline that         *)
(* survives the caller, and the Git runner kills the process then.         *)
JobsEnd == []<>(worker = None)

-----------------------------------------------------------------------------
Occurs(c, s) == \E i \in 1..Len(s) : s[i] = c
Distinct(s) == \A i, j \in 1..Len(s) : s[i] = s[j] => i = j
Started(c) == Occurs(c, ran)
Queued(c) == Occurs(c, queue)

(* A send on the job channel never meets a closed channel, which would     *)
(* panic the process: a caller past the stopping check still holds the     *)
(* admission lock that Stop needs before it closes the channel.            *)
NoSendOnClosedQueue == \A c \in Callers : pc[c] = "sending" => ~closed

(* Do's answer is the truth about the job: a caller told that the queue is *)
(* closed has no job queued, running or run; a caller told that its job    *)
(* finished had it run; and a caller that was told its context ended while *)
(* the job was skipped is not run later.                                   *)
AnswersAreTruthful ==
  \A c \in Callers :
    /\ result[c] = "closed" => ~Started(c) /\ ~Queued(c)
    /\ result[c] = "finished" => Started(c) /\ worker # c
    /\ done[c] = "ctx" => ~Started(c) /\ ~Queued(c)

(* A job is entered at most once.                                          *)
RunsAtMostOnce == Distinct(ran)

(* Wait is the end of the backend: when the worker has exited, no accepted *)
(* job is left without an answer and no caller can still get one in.       *)
DrainedWhenExited ==
  exited => /\ closed /\ queue = <<>> /\ worker = None
            /\ \A c \in Callers : /\ pc[c] # "sending"
                                  /\ pc[c] = "waiting" => done[c] # "none"

(* Stop returns although the running mutation never finishes and the       *)
(* buffer is full: blocked submissions are woken by q.stopping.            *)
StopNeverWaitsForTheJob == (stopPc = "announced") ~> (stopPc = "stopped")

(* After Stop, Wait returns if jobs end: the worker drains what was        *)
(* accepted.                                                               *)
DrainEnds == JobsEnd => ((stopPc = "stopped") ~> exited)

(* Every submission is answered, if jobs end.                              *)
EveryCallReturns ==
  JobsEnd => \A c \in Callers : (pc[c] # "start") ~> (pc[c] = "returned")

-----------------------------------------------------------------------------
(* The queue implements SerialExecutor.                                    *)
FateOf(c) ==
  IF worker = c THEN "running"
  ELSE IF Queued(c) THEN "queued"
  ELSE IF done[c] = "ctx" THEN "skipped"
  ELSE IF done[c] = "finished" THEN "finished"
  ELSE IF result[c] # "none" THEN "refused"
  ELSE "new"

Abstract == INSTANCE SerialExecutor WITH
  Jobs <- Callers,
  backlog <- queue,
  running <- worker,
  fate <- [c \in Callers |-> FateOf(c)],
  open <- ~closed,
  drained <- exited

ImplementsSerialExecutor == Abstract!AbsSpec
=============================================================================
