------------------------ MODULE MutationQueueProofs -------------------------
(***************************************************************************)
(* Proofs about MutationQueue for any set of callers and any capacity: the *)
(* safety invariants of the queue, from one inductive invariant that       *)
(* follows a job from its caller's program counter through the channel and *)
(* the worker to its answer; and that the queue implements SerialExecutor. *)
(***************************************************************************)
EXTENDS MutationQueue, TLAPS

\* Before its job is sent a caller has left no trace anywhere.
Fresh(c) ==
  /\ ~Queued(c) /\ ~Started(c)
  /\ worker # c
  /\ done[c] = "none"

\* Where a job may be, and what its caller may have been told by then.
JobOK(c) ==
  /\ pc[c] \in {"start", "admission", "checking", "sending"} => Fresh(c) /\ result[c] = "none"
  /\ pc[c] = "waiting" => result[c] = "none"
  /\ result[c] = "closed" => Fresh(c) /\ pc[c] = "returned"
  /\ result[c] = "finished" => done[c] = "finished"
  /\ Queued(c) => ~Started(c) /\ done[c] = "none" /\ worker # c
  /\ worker = c => Started(c) /\ done[c] = "none"
  /\ Started(c) => worker = c \/ done[c] = "finished"
  /\ done[c] = "ctx" => ~Started(c) /\ ~Queued(c)
  /\ done[c] = "finished" => Started(c) /\ worker # c
  /\ done[c] # "closed"
  /\ pc[c] = "waiting" => Queued(c) \/ worker = c \/ done[c] # "none"

\* Stop's progress, and who may still be inside enqueue at each point of it.
StopOK ==
  /\ stopPc # "idle" => stopping
  /\ closed <=> stopPc = "stopped"
  /\ closed => \A c \in Callers : pc[c] # "sending"
  /\ exited => closed /\ queue = <<>> /\ worker = None

IInv ==
  /\ TypeOK
  /\ StopOK
  /\ Distinct(queue)
  /\ Distinct(ran)
  /\ \A c \in Callers : JobOK(c)

-----------------------------------------------------------------------------
(* Sequences: what sending to and receiving from the channel does to the   *)
(* jobs in it.                                                             *)

LEMMA AppendOccurs ==
  ASSUME NEW S, NEW s \in Seq(S), NEW e \in S, NEW x
  PROVE  Occurs(x, Append(s, e)) <=> Occurs(x, s) \/ x = e
BY DEF Occurs

LEMMA AppendDistinct ==
  ASSUME NEW S, NEW s \in Seq(S), NEW e \in S, Distinct(s), ~Occurs(e, s)
  PROVE  Distinct(Append(s, e))
BY DEF Occurs, Distinct

LEMMA TailFacts ==
  ASSUME NEW S, NEW s \in Seq(S), s # <<>>
  PROVE  /\ Head(s) \in S
         /\ Tail(s) \in Seq(S)
         /\ Len(Tail(s)) = Len(s) - 1
         /\ Len(s) \in Nat \ {0}
         /\ Occurs(Head(s), s)
         /\ \A i \in 1..(Len(s) - 1) : Tail(s)[i] = s[i + 1]
<1>1. Len(s) \in Nat \ {0} /\ s[1] \in S /\ Head(s) = s[1]
  OBVIOUS
<1>2. Occurs(Head(s), s)
  BY <1>1 DEF Occurs
<1> QED BY <1>1, <1>2

LEMMA TailOccurs ==
  ASSUME NEW S, NEW s \in Seq(S), s # <<>>, Distinct(s), NEW x
  PROVE  /\ Occurs(x, Tail(s)) <=> Occurs(x, s) /\ x # Head(s)
         /\ Distinct(Tail(s))
<1>1. Distinct(Tail(s))
  BY TailFacts DEF Distinct
<1>2. ASSUME Occurs(x, Tail(s)) PROVE Occurs(x, s) /\ x # Head(s)
  <2>1. PICK i \in 1..(Len(s) - 1) : Tail(s)[i] = x
    BY <1>2, TailFacts DEF Occurs
  <2>2. i + 1 \in 1..Len(s) /\ s[i + 1] = x /\ i + 1 # 1 /\ 1 \in 1..Len(s)
    BY <2>1, TailFacts
  <2>3. Occurs(x, s)
    BY <2>2 DEF Occurs
  <2>4. x # s[1]
    BY <2>2 DEF Distinct
  <2> QED BY <2>3, <2>4
<1>3. ASSUME Occurs(x, s), x # Head(s) PROVE Occurs(x, Tail(s))
  <2>1. PICK i \in 1..Len(s) : s[i] = x
    BY <1>3 DEF Occurs
  <2>2. i # 1
    BY <2>1, <1>3
  <2>3. i - 1 \in 1..(Len(s) - 1) /\ Tail(s)[i - 1] = x
    BY <2>1, <2>2, TailFacts
  <2> QED BY <2>3, TailFacts DEF Occurs
<1> QED BY <1>1, <1>2, <1>3

-----------------------------------------------------------------------------
(* The inductive invariant.                                                *)

LEMMA InitIInv == Init => IInv
<1> SUFFICES ASSUME Init PROVE IInv
  OBVIOUS
<1>1. TypeOK
  <2>1. queue \in Seq(Callers) /\ Len(queue) = 0 /\ ran \in Seq(Callers)
    BY DEF Init
  <2>2. /\ pc \in [Callers -> PCs] /\ ctx \in [Callers -> {"live", "done"}]
        /\ done \in [Callers -> Answers] /\ result \in [Callers -> Answers]
    BY DEF Init, PCs, Answers
  <2>3. /\ worker \in Callers \cup {None} /\ stopPc \in {"idle", "announced", "locking", "stopped"}
        /\ exited \in BOOLEAN /\ stopping \in BOOLEAN /\ closed \in BOOLEAN
    BY DEF Init
  <2> QED BY <2>1, <2>2, <2>3, QueueAssumption DEF TypeOK
<1>2. StopOK
  BY DEF Init, StopOK
<1>3. Distinct(queue) /\ Distinct(ran)
  BY DEF Init, Distinct
<1>4. ASSUME NEW c \in Callers PROVE JobOK(c)
  BY QueueAssumption DEF Init, JobOK, Fresh, Queued, Started, Occurs
<1> QED BY <1>1, <1>2, <1>3, <1>4 DEF IInv

LEMMA StepTypeOK == TypeOK /\ [Next]_vars => TypeOK'
<1> SUFFICES ASSUME TypeOK, [Next]_vars PROVE TypeOK'
  OBVIOUS
<1> USE QueueAssumption DEF TypeOK, PCs, Answers, callerVars, workerVars, stopVars, Goto, Return
<1>1. ASSUME NEW c \in Callers, EndContext(c) PROVE TypeOK'
  BY <1>1 DEF EndContext
<1>2. ASSUME NEW c \in Callers, CallerStep(c) PROVE TypeOK'
  <2>1. CASE Do(c)  BY <2>1 DEF Do
  <2>2. CASE LockAdmission(c)  BY <2>2 DEF LockAdmission
  <2>3. CASE CheckStopping(c)  BY <2>3 DEF CheckStopping
  <2>4. CASE Send(c)
    <3>1. queue' \in Seq(Callers) /\ Len(queue') <= Capacity
      BY <2>4 DEF Send
    <3> QED BY <2>4, <3>1 DEF Send
  <2>5. CASE RefusedByStop(c)  BY <2>5 DEF RefusedByStop
  <2>6. CASE CancelledInEnqueue(c)  BY <2>6 DEF CancelledInEnqueue
  <2>7. CASE ReceiveAnswer(c)  BY <2>7 DEF ReceiveAnswer
  <2>8. CASE Abandon(c)  BY <2>8 DEF Abandon
  <2> QED BY <1>2, <2>1, <2>2, <2>3, <2>4, <2>5, <2>6, <2>7, <2>8 DEF CallerStep
<1>3. CASE SkipJob
  <2>1. Head(queue) \in Callers /\ queue' \in Seq(Callers) /\ Len(queue') <= Capacity
    BY <1>3, TailFacts DEF SkipJob
  <2> QED BY <1>3, <2>1 DEF SkipJob
<1>4. CASE StartJob
  <2>1. Head(queue) \in Callers /\ queue' \in Seq(Callers) /\ Len(queue') <= Capacity
    BY <1>4, TailFacts DEF StartJob
  <2> QED BY <1>4, <2>1 DEF StartJob
<1>5. CASE FinishJob  BY <1>5 DEF FinishJob
<1>6. CASE ExitWorker  BY <1>6 DEF ExitWorker
<1>7. CASE CloseStopping  BY <1>7 DEF CloseStopping
<1>8. CASE RequestAdmissionLock  BY <1>8 DEF RequestAdmissionLock
<1>9. CASE CloseQueue  BY <1>9 DEF CloseQueue
<1>10. CASE UNCHANGED vars  BY <1>10 DEF vars
<1> QED BY <1>1, <1>2, <1>3, <1>4, <1>5, <1>6, <1>7, <1>8, <1>9, <1>10
        DEF Next, Stop, Quiescent

(* Stop closes the channel only when no caller is inside enqueue, and a    *)
(* caller that enters later is turned back by the stopping check.          *)
LEMMA StepStopOK == TypeOK /\ StopOK /\ [Next]_vars => StopOK'
<1> SUFFICES ASSUME TypeOK, StopOK, [Next]_vars PROVE StopOK'
  OBVIOUS
<1> USE DEF TypeOK, StopOK, callerVars, workerVars, stopVars, Goto, Return
<1>1. ASSUME NEW c \in Callers, EndContext(c) PROVE StopOK'
  BY <1>1 DEF EndContext
<1>2. ASSUME NEW c \in Callers, CallerStep(c) PROVE StopOK'
  <2>1. CASE Do(c)  BY <2>1 DEF Do
  <2>2. CASE LockAdmission(c)  BY <2>2 DEF LockAdmission
  <2>3. CASE CheckStopping(c)  BY <2>3 DEF CheckStopping
  <2>4. CASE Send(c)  BY <2>4 DEF Send
  <2>5. CASE RefusedByStop(c)  BY <2>5 DEF RefusedByStop
  <2>6. CASE CancelledInEnqueue(c)  BY <2>6 DEF CancelledInEnqueue
  <2>7. CASE ReceiveAnswer(c)  BY <2>7 DEF ReceiveAnswer
  <2>8. CASE Abandon(c)  BY <2>8 DEF Abandon
  <2> QED BY <1>2, <2>1, <2>2, <2>3, <2>4, <2>5, <2>6, <2>7, <2>8 DEF CallerStep
<1>3. CASE SkipJob  BY <1>3 DEF SkipJob
<1>4. CASE StartJob  BY <1>4 DEF StartJob
<1>5. CASE FinishJob  BY <1>5, QueueAssumption DEF FinishJob
<1>6. CASE ExitWorker  BY <1>6 DEF ExitWorker
<1>7. CASE CloseStopping  BY <1>7 DEF CloseStopping
<1>8. CASE RequestAdmissionLock  BY <1>8 DEF RequestAdmissionLock
<1>9. CASE CloseQueue  BY <1>9 DEF CloseQueue, Admitted
<1>10. CASE UNCHANGED vars  BY <1>10 DEF vars
<1> QED BY <1>1, <1>2, <1>3, <1>4, <1>5, <1>6, <1>7, <1>8, <1>9, <1>10
        DEF Next, Stop, Quiescent

(* A step that neither moves a job nor answers one leaves its standing.    *)
LEMMA FrameJobOK ==
  ASSUME IInv, NEW c \in Callers,
         UNCHANGED <<queue, workerVars>>,
         \/ pc'[c] = pc[c] /\ result'[c] = result[c]
         \/ /\ pc[c] \in {"start", "admission", "checking", "sending"}
            /\ \/ pc'[c] \in {"admission", "checking", "sending"} /\ result'[c] = "none"
               \/ pc'[c] = "returned" /\ result'[c] \in {"ctx", "closed"}
         \/ pc[c] = "waiting" /\ pc'[c] = "returned" /\ result'[c] = "ctx"
         \/ pc[c] = "waiting" /\ pc'[c] = "returned" /\ result'[c] = done[c]
  PROVE  JobOK(c)'
<1>1. /\ Queued(c)' <=> Queued(c)
      /\ Started(c)' <=> Started(c)
      /\ worker' = worker /\ done'[c] = done[c]
  BY DEF workerVars, Queued, Started
<1>2. JobOK(c)
  BY DEF IInv
<1> QED BY <1>1, <1>2 DEF JobOK, Fresh

LEMMA StepDistinct == IInv /\ [Next]_vars => Distinct(queue)' /\ Distinct(ran)'
<1> SUFFICES ASSUME IInv, [Next]_vars PROVE Distinct(queue)' /\ Distinct(ran)'
  OBVIOUS
<1>a. /\ queue \in Seq(Callers) /\ ran \in Seq(Callers)
      /\ Distinct(queue) /\ Distinct(ran) /\ (\A c \in Callers : JobOK(c))
  BY DEF IInv, TypeOK
<1>1. ASSUME NEW c \in Callers, Send(c) PROVE Distinct(queue)' /\ Distinct(ran)'
  <2>1. Fresh(c) /\ queue' = Append(queue, c) /\ ran' = ran
    BY <1>1, <1>a DEF Send, JobOK, workerVars
  <2> QED BY <2>1, <1>a, AppendDistinct DEF Fresh, Queued
<1>2. CASE SkipJob
  <2>1. queue # <<>> /\ queue' = Tail(queue) /\ ran' = ran
    BY <1>2 DEF SkipJob
  <2> QED BY <2>1, <1>a, TailOccurs
<1>3. CASE StartJob
  <2>1. queue # <<>> /\ queue' = Tail(queue) /\ ran' = Append(ran, Head(queue))
    BY <1>3 DEF StartJob
  <2>2. Head(queue) \in Callers /\ Queued(Head(queue))
    BY <2>1, <1>a, TailFacts DEF Queued
  <2>3. ~Occurs(Head(queue), ran)
    BY <2>2, <1>a DEF JobOK, Started
  <2> QED BY <2>1, <2>2, <2>3, <1>a, TailOccurs, AppendDistinct
<1>4. CASE UNCHANGED <<queue, ran>>
  BY <1>4, <1>a
<1> QED BY <1>1, <1>2, <1>3, <1>4
        DEF Next, Stop, Quiescent, CallerStep, EndContext, ExitWorker, FinishJob, CloseStopping,
            RequestAdmissionLock, CloseQueue, Do, LockAdmission, CheckStopping, RefusedByStop,
            CancelledInEnqueue, ReceiveAnswer, Abandon, vars, workerVars

LEMMA StepJobOK ==
  ASSUME IInv, [Next]_vars, NEW d \in Callers
  PROVE  JobOK(d)'
<1>a. TypeOK /\ Distinct(queue) /\ Distinct(ran) /\ (\A c \in Callers : JobOK(c))
  BY DEF IInv
<1>b. /\ pc \in [Callers -> PCs] /\ result \in [Callers -> Answers]
      /\ done \in [Callers -> Answers] /\ queue \in Seq(Callers) /\ ran \in Seq(Callers)
      /\ worker \in Callers \cup {None}
  BY <1>a DEF TypeOK
<1>c. ASSUME UNCHANGED <<callerVars, queue, workerVars>>
      PROVE  JobOK(d)'
  BY <1>c, <1>a, FrameJobOK DEF callerVars, workerVars
<1>1. ASSUME NEW c \in Callers, CallerStep(c), ~Send(c)
      PROVE  JobOK(d)'
  <2>1. UNCHANGED <<queue, workerVars>>
    BY <1>1 DEF CallerStep, Do, LockAdmission, CheckStopping, RefusedByStop,
       CancelledInEnqueue, ReceiveAnswer, Abandon
  <2>2. CASE d # c
    <3>1. pc'[d] = pc[d] /\ result'[d] = result[d]
      BY <1>1, <1>b, <2>2 DEF CallerStep, Do, LockAdmission, CheckStopping, RefusedByStop,
         CancelledInEnqueue, ReceiveAnswer, Abandon, Goto, Return
    <3> QED BY <3>1, <2>1, <1>a, FrameJobOK DEF workerVars
  <2>3. CASE d = c
    <3>1. pc[d] \in {"start", "admission", "checking", "sending"} => result[d] = "none"
      BY <1>a DEF JobOK
    <3>2. \/ /\ pc[d] \in {"start", "admission", "checking", "sending"}
             /\ \/ pc'[d] \in {"admission", "checking", "sending"} /\ result'[d] = "none"
                \/ pc'[d] = "returned" /\ result'[d] \in {"ctx", "closed"}
          \/ pc[d] = "waiting" /\ pc'[d] = "returned" /\ result'[d] = "ctx"
          \/ pc[d] = "waiting" /\ pc'[d] = "returned" /\ result'[d] = done[d]
      BY <1>1, <1>b, <2>3, <3>1 DEF CallerStep, Do, LockAdmission, CheckStopping, RefusedByStop,
         CancelledInEnqueue, ReceiveAnswer, Abandon, Goto, Return
    <3> QED BY <3>2, <2>1, <1>a, FrameJobOK DEF workerVars
  <2> QED BY <2>2, <2>3
<1>2. ASSUME NEW c \in Callers, Send(c)
      PROVE  JobOK(d)'
  <2>1. Fresh(c) /\ result[c] = "none" /\ JobOK(d)
    BY <1>2, <1>a DEF Send, JobOK
  <2>2. /\ queue' = Append(queue, c) /\ UNCHANGED <<workerVars, result>>
        /\ pc' = [pc EXCEPT ![c] = "waiting"]
    BY <1>2 DEF Send, Goto
  <2>3. (Queued(d)' <=> Queued(d) \/ d = c) /\ (Started(d)' <=> Started(d))
    BY <2>2, <1>b, AppendOccurs DEF Queued, Started, workerVars
  <2>4. pc'[c] = "waiting" /\ (d # c => pc'[d] = pc[d])
    BY <2>2, <1>b
  <2> QED BY <2>1, <2>2, <2>3, <2>4 DEF JobOK, Fresh, workerVars
<1>3. CASE SkipJob
  <2> DEFINE h == Head(queue)
  <2>1. h \in Callers /\ Queued(h) /\ JobOK(h) /\ JobOK(d)
    BY <1>3, <1>a, <1>b, TailFacts DEF SkipJob, Queued
  <2>2. /\ queue' = Tail(queue) /\ done' = [done EXCEPT ![h] = "ctx"]
        /\ UNCHANGED <<pc, result, ran, worker>>
    BY <1>3 DEF SkipJob, callerVars
  <2>3. Queued(d)' <=> Queued(d) /\ d # h
    <3>1. Occurs(d, Tail(queue)) <=> Occurs(d, queue) /\ d # h
      BY <1>3, <1>a, <1>b, TailOccurs DEF SkipJob
    <3> QED BY <3>1, <2>2 DEF Queued
  <2>4. (Started(d)' <=> Started(d)) /\ done'[d] = IF d = h THEN "ctx" ELSE done[d]
    BY <2>2, <1>b, <2>1 DEF Started
  <2> HIDE DEF h
  <2> QED BY <2>1, <2>2, <2>3, <2>4 DEF JobOK, Fresh
<1>4. CASE StartJob
  <2> DEFINE h == Head(queue)
  <2>1. h \in Callers /\ Queued(h) /\ JobOK(h) /\ JobOK(d)
    BY <1>4, <1>a, <1>b, TailFacts DEF StartJob, Queued
  <2>2. /\ queue' = Tail(queue) /\ worker' = h /\ ran' = Append(ran, h)
        /\ UNCHANGED <<pc, result, done>> /\ worker = None
    BY <1>4 DEF StartJob, callerVars
  <2>3. Queued(d)' <=> Queued(d) /\ d # h
    <3>1. Occurs(d, Tail(queue)) <=> Occurs(d, queue) /\ d # h
      BY <1>4, <1>a, <1>b, TailOccurs DEF StartJob
    <3> QED BY <3>1, <2>2 DEF Queued
  <2>4. Started(d)' <=> Started(d) \/ d = h
    BY <1>b, <2>1, <2>2, AppendOccurs DEF Started
  <2> HIDE DEF h
  <2>5. None # d /\ None # h
    BY <2>1, QueueAssumption
  <2> QED BY <2>1, <2>2, <2>3, <2>4, <2>5 DEF JobOK, Fresh
<1>5. CASE FinishJob
  <2>1. /\ worker \in Callers /\ JobOK(d) /\ JobOK(worker)
        /\ done' = [done EXCEPT ![worker] = "finished"] /\ worker' = None
        /\ UNCHANGED <<pc, result, queue, ran>>
    BY <1>5, <1>a, <1>b DEF FinishJob, callerVars
  <2>2. /\ (Queued(d)' <=> Queued(d)) /\ (Started(d)' <=> Started(d))
        /\ done'[d] = IF d = worker THEN "finished" ELSE done[d]
        /\ None # d
    BY <2>1, <1>b, QueueAssumption DEF Queued, Started
  <2> QED BY <2>1, <2>2 DEF JobOK, Fresh
<1>6. ASSUME ExitWorker PROVE JobOK(d)'
  <2>1. UNCHANGED <<pc, result, queue, worker, ran, done>>
    BY <1>6 DEF ExitWorker, callerVars
  <2>2. (Queued(d)' <=> Queued(d)) /\ (Started(d)' <=> Started(d)) /\ JobOK(d)
    BY <2>1, <1>a DEF Queued, Started
  <2> QED BY <2>1, <2>2 DEF JobOK, Fresh
<1> QED BY <1>1, <1>2, <1>3, <1>4, <1>5, <1>6, <1>c
        DEF Next, Stop, Quiescent, EndContext, CloseStopping, RequestAdmissionLock,
            CloseQueue, vars, callerVars, workerVars

LEMMA StepIInv == IInv /\ [Next]_vars => IInv'
<1> SUFFICES ASSUME IInv, [Next]_vars PROVE IInv'
  OBVIOUS
<1>1. TypeOK' /\ StopOK'
  BY StepTypeOK, StepStopOK DEF IInv
<1>2. \A c \in Callers : JobOK(c)'
  BY StepJobOK
<1>3. Distinct(queue)' /\ Distinct(ran)'
  BY StepDistinct
<1> QED BY <1>1, <1>2, <1>3 DEF IInv

LEMMA Invariance == Spec => []IInv
BY InitIInv, StepIInv, PTL DEF Spec

-----------------------------------------------------------------------------
(* Every variable keeps its type and the channel its bound.                *)
THEOREM TypeCorrect == Spec => []TypeOK
<1>1. IInv => TypeOK
  BY DEF IInv
<1> QED BY <1>1, Invariance, PTL

(* The process never panics on a send to the closed job channel.           *)
THEOREM SafeSends == Spec => []NoSendOnClosedQueue
<1>1. IInv => NoSendOnClosedQueue
  BY DEF IInv, StopOK, NoSendOnClosedQueue
<1> QED BY <1>1, Invariance, PTL

(* What Do answers is true of the job.                                     *)
THEOREM TruthfulAnswers == Spec => []AnswersAreTruthful
<1>1. IInv => AnswersAreTruthful
  BY DEF IInv, JobOK, Fresh, AnswersAreTruthful
<1> QED BY <1>1, Invariance, PTL

(* No job's function is entered twice.                                     *)
THEOREM AtMostOnce == Spec => []RunsAtMostOnce
<1>1. IInv => RunsAtMostOnce
  BY DEF IInv, RunsAtMostOnce
<1> QED BY <1>1, Invariance, PTL

(* A worker that has exited leaves no submission unanswered.               *)
THEOREM DrainIsComplete == Spec => []DrainedWhenExited
<1>1. ASSUME IInv, exited PROVE closed /\ queue = <<>> /\ worker = None
  BY <1>1 DEF IInv, StopOK
<1>2. ASSUME IInv, exited, NEW c \in Callers
      PROVE  pc[c] # "sending" /\ (pc[c] = "waiting" => done[c] # "none")
  <2>1. ~Queued(c) /\ worker # c
    BY <1>1, <1>2, QueueAssumption DEF Queued, Occurs
  <2> QED BY <1>1, <1>2, <2>1 DEF IInv, JobOK, StopOK
<1>3. IInv => DrainedWhenExited
  BY <1>1, <1>2 DEF DrainedWhenExited
<1> QED BY <1>3, Invariance, PTL

-----------------------------------------------------------------------------
(* Refinement: each step of the queue is a step of the executor, on the    *)
(* job whose fate it decides, or leaves the executor as it was.            *)
fates == [c \in Callers |-> FateOf(c)]

LEMMA InitRefines == Init => Abstract!AbsInit
BY QueueAssumption DEF Init, Abstract!AbsInit, FateOf, Queued, Occurs

\* A job whose place and answer do not change keeps its fate, and one that
\* has left the channel keeps it when its caller returns.
LEMMA FrameFate ==
  ASSUME IInv, NEW d \in Callers,
         Queued(d)' <=> Queued(d), worker' = d <=> worker = d, done'[d] = done[d],
         result'[d] = result[d] \/ pc[d] = "waiting"
  PROVE  FateOf(d)' = FateOf(d)
<1>1. JobOK(d) /\ done[d] \in Answers
  BY DEF IInv, TypeOK
<1> QED BY <1>1 DEF FateOf, JobOK, Answers

LEMMA FateOfFresh ==
  ASSUME IInv, NEW c \in Callers, pc[c] \in {"start", "admission", "checking", "sending"}
  PROVE  FateOf(c) = "new"
BY DEF IInv, JobOK, Fresh, FateOf

\* A caller that returns from a fresh state has its job refused.
LEMMA ReturnRefuses ==
  ASSUME IInv, NEW c \in Callers, NEW a \in {"ctx", "closed"},
         pc[c] \in {"start", "admission", "checking", "sending"},
         Return(c, a), UNCHANGED <<queue, workerVars, stopVars>>
  PROVE  Abstract!Refuse(c)
<1>1. JobOK(c) /\ result \in [Callers -> Answers] /\ FateOf(c) = "new"
  BY FateOfFresh DEF IInv, TypeOK
<1>2. FateOf(c)' = "refused"
  BY <1>1 DEF FateOf, Return, JobOK, Fresh, Queued, workerVars
<1>3. ASSUME NEW d \in Callers, d # c PROVE FateOf(d)' = FateOf(d)
  BY <1>1, <1>3, FrameFate DEF Return, Queued, workerVars
<1>4. fates' = [fates EXCEPT ![c] = "refused"]
  BY <1>2, <1>3 DEF fates
<1> QED BY <1>1, <1>4 DEF Abstract!Refuse, fates, workerVars, stopVars

\* A caller's step that neither sends nor refuses is invisible.
LEMMA CallerStutters ==
  ASSUME IInv, UNCHANGED <<queue, workerVars, closed>>,
         \A d \in Callers : result'[d] = result[d] \/ pc[d] = "waiting"
  PROVE  UNCHANGED Abstract!absVars
<1>1. ASSUME NEW d \in Callers PROVE FateOf(d)' = FateOf(d)
  BY FrameFate DEF Queued, workerVars
<1>2. fates' = fates
  BY <1>1 DEF fates
<1> QED BY <1>2 DEF Abstract!absVars, fates, workerVars

LEMMA StepRefines == IInv /\ [Next]_vars => [Abstract!AbsNext]_(Abstract!absVars)
<1> SUFFICES ASSUME IInv, [Next]_vars PROVE Abstract!AbsNext \/ UNCHANGED Abstract!absVars
  OBVIOUS
<1>a. TypeOK /\ StopOK /\ Distinct(queue) /\ (\A c \in Callers : JobOK(c))
  BY DEF IInv
<1>b. /\ result \in [Callers -> Answers] /\ done \in [Callers -> Answers]
      /\ queue \in Seq(Callers) /\ worker \in Callers \cup {None} /\ closed \in BOOLEAN
  BY <1>a DEF TypeOK
<1>1. ASSUME NEW c \in Callers, EndContext(c) PROVE UNCHANGED Abstract!absVars
  BY <1>1, CallerStutters DEF EndContext, callerVars, stopVars
<1>2. ASSUME NEW c \in Callers, CallerStep(c)
      PROVE  Abstract!AbsNext \/ UNCHANGED Abstract!absVars
  <2>1. ASSUME NEW a \in {"ctx", "closed"}, Return(c, a),
               pc[c] \in {"start", "admission", "checking", "sending"},
               UNCHANGED <<queue, workerVars, stopVars>>
        PROVE  Abstract!AbsNext
    BY <2>1, ReturnRefuses DEF Abstract!AbsNext
  <2>2. ASSUME UNCHANGED <<result, queue, workerVars, stopVars>>
        PROVE  UNCHANGED Abstract!absVars
    BY <2>2, CallerStutters DEF stopVars
  <2>3. ASSUME NEW a, Return(c, a), pc[c] = "waiting", UNCHANGED <<queue, workerVars, stopVars>>
        PROVE  UNCHANGED Abstract!absVars
    <3>1. \A d \in Callers : result'[d] = result[d] \/ pc[d] = "waiting"
      BY <2>3, <1>b DEF Return
    <3> QED BY <2>3, <3>1, CallerStutters DEF stopVars
  <2>4. CASE Do(c)  BY <2>4, <2>1, <2>2 DEF Do, Goto
  <2>5. CASE LockAdmission(c)  BY <2>5, <2>2 DEF LockAdmission, Goto
  <2>6. CASE CheckStopping(c)  BY <2>6, <2>1, <2>2 DEF CheckStopping, Goto
  <2>7. CASE Send(c)
    <3>1. /\ pc[c] = "sending" /\ queue' = Append(queue, c)
          /\ UNCHANGED <<result, workerVars, stopVars>> /\ FateOf(c) = "new" /\ JobOK(c) /\ ~closed
      BY <2>7, <1>a, FateOfFresh DEF Send, Goto, StopOK
    <3>2. \A d \in Callers : Queued(d)' <=> Queued(d) \/ d = c
      BY <3>1, <1>b, AppendOccurs DEF Queued
    <3>3. FateOf(c)' = "queued"
      BY <3>1, <3>2 DEF FateOf, JobOK, Fresh, workerVars
    <3>4. ASSUME NEW d \in Callers, d # c PROVE FateOf(d)' = FateOf(d)
      BY <3>1, <3>2, <3>4, FrameFate DEF workerVars
    <3>5. fates' = [fates EXCEPT ![c] = "queued"]
      BY <3>3, <3>4 DEF fates
    <3>6. Abstract!Accept(c)
      BY <3>1, <3>5 DEF Abstract!Accept, fates, workerVars, stopVars
    <3> QED BY <3>6 DEF Abstract!AbsNext
  <2>8. CASE RefusedByStop(c)  BY <2>8, <2>1 DEF RefusedByStop
  <2>9. CASE CancelledInEnqueue(c)  BY <2>9, <2>1 DEF CancelledInEnqueue
  <2>10. CASE ReceiveAnswer(c)  BY <2>10, <2>3 DEF ReceiveAnswer
  <2>11. CASE Abandon(c)  BY <2>11, <2>3 DEF Abandon
  <2> QED BY <1>2, <2>4, <2>5, <2>6, <2>7, <2>8, <2>9, <2>10, <2>11 DEF CallerStep
<1>3. ASSUME SkipJob \/ StartJob PROVE Abstract!SkipHead \/ Abstract!Begin
  <2>1. queue # <<>> /\ queue' = Tail(queue) /\ worker = None /\ UNCHANGED <<result, exited, closed>>
    BY <1>3 DEF SkipJob, StartJob, callerVars, stopVars
  <2>2. PICK h \in Callers : h = Head(queue) /\ Queued(h) /\ JobOK(h)
    BY <2>1, <1>a, <1>b, TailFacts DEF Queued
  <2>3. \A d \in Callers : Queued(d)' <=> Queued(d) /\ d # h
    <3>1. \A d \in Callers : Occurs(d, Tail(queue)) <=> Occurs(d, queue) /\ d # h
      BY <2>1, <2>2, <1>a, <1>b, TailOccurs
    <3> QED BY <3>1, <2>1, <2>2 DEF Queued
  <2>4. CASE SkipJob
    <3>1. done' = [done EXCEPT ![h] = "ctx"] /\ worker' = None
      BY <2>4, <2>1, <2>2 DEF SkipJob
    <3>2. FateOf(h)' = "skipped"
      BY <3>1, <2>2, <2>3, <1>b, QueueAssumption DEF FateOf
    <3>3. ASSUME NEW d \in Callers, d # h PROVE FateOf(d)' = FateOf(d)
      BY <3>1, <3>3, <2>1, <2>3, <1>b, FrameFate
    <3>4. fates' = [fates EXCEPT ![h] = "skipped"]
      BY <3>2, <3>3 DEF fates
    <3> QED BY <3>1, <3>4, <2>1, <2>2 DEF Abstract!SkipHead, fates
  <2>5. CASE StartJob
    <3>1. worker' = h /\ done' = done
      BY <2>5, <2>2 DEF StartJob
    <3>2. FateOf(h)' = "running"
      BY <3>1 DEF FateOf
    <3>3. ASSUME NEW d \in Callers, d # h PROVE FateOf(d)' = FateOf(d)
      BY <3>1, <3>3, <2>1, <2>3, QueueAssumption, FrameFate
    <3>4. fates' = [fates EXCEPT ![h] = "running"]
      BY <3>2, <3>3 DEF fates
    <3> QED BY <3>1, <3>4, <2>1, <2>2 DEF Abstract!Begin, fates
  <2> QED BY <1>3, <2>4, <2>5
<1>4. CASE FinishJob
  <2>1. /\ worker \in Callers /\ worker # None /\ worker' = None
        /\ done' = [done EXCEPT ![worker] = "finished"]
        /\ UNCHANGED <<queue, result, exited, closed>>
    BY <1>4, <1>b DEF FinishJob, callerVars, stopVars
  <2>2. JobOK(worker) /\ ~Queued(worker)
    BY <2>1, <1>a DEF JobOK
  <2>3. \A d \in Callers : FateOf(d)' = IF d = worker THEN "finished" ELSE FateOf(d)
    <3>1. ASSUME NEW d \in Callers, d = worker PROVE FateOf(d)' = "finished"
      BY <3>1, <2>1, <2>2, <1>b, QueueAssumption DEF FateOf, Queued
    <3>2. ASSUME NEW d \in Callers, d # worker PROVE FateOf(d)' = FateOf(d)
      BY <3>2, <2>1, <1>b, QueueAssumption, FrameFate DEF Queued
    <3> QED BY <3>1, <3>2
  <2>4. fates' = [fates EXCEPT ![worker] = "finished"]
    BY <2>3 DEF fates
  <2> QED BY <2>1, <2>4 DEF Abstract!Complete, Abstract!AbsNext, fates
<1>5. CASE ExitWorker
  <2>1. UNCHANGED <<queue, worker, done, result, closed>>
    BY <1>5 DEF ExitWorker, callerVars, stopVars
  <2>2. ASSUME NEW d \in Callers PROVE FateOf(d)' = FateOf(d)
    BY <2>1, FrameFate DEF Queued
  <2>3. fates' = fates
    BY <2>2 DEF fates
  <2> QED BY <1>5, <2>1, <2>3 DEF ExitWorker, Abstract!Drain, Abstract!AbsNext, fates
<1>6. CASE CloseQueue
  <2>1. UNCHANGED <<queue, worker, done, result, exited>> /\ ~closed /\ closed'
    BY <1>6, <1>a DEF CloseQueue, callerVars, workerVars, StopOK
  <2>2. ASSUME NEW d \in Callers PROVE FateOf(d)' = FateOf(d)
    BY <2>1, FrameFate DEF Queued
  <2>3. fates' = fates
    BY <2>2 DEF fates
  <2> QED BY <2>1, <2>3 DEF Abstract!CloseAdmission, Abstract!AbsNext, fates
<1>7. CASE CloseStopping \/ RequestAdmissionLock \/ UNCHANGED vars
  BY <1>7, CallerStutters DEF CloseStopping, RequestAdmissionLock, vars, callerVars, workerVars
<1> QED BY <1>1, <1>2, <1>3, <1>4, <1>5, <1>6, <1>7
        DEF Next, Stop, Quiescent, Abstract!AbsNext

(* The queue with its channel and locks behaves as the serial executor.    *)
THEOREM Refinement == Spec => ImplementsSerialExecutor
BY InitRefines, StepRefines, Invariance, PTL DEF Spec, ImplementsSerialExecutor, Abstract!AbsSpec

=============================================================================
