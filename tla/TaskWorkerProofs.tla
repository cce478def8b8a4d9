-------------------------- MODULE TaskWorkerProofs --------------------------
(***************************************************************************)
(* Theorems about TaskWorker for every number of workers, tasks, messages, *)
(* attempts and disturbances.                                              *)
(***************************************************************************)
EXTENDS TaskWorker, TLAPS

USE DEF Statuses, Verdicts, EventStages, Stages, PCs, DatabaseFaults, RowKinds

-----------------------------------------------------------------------------
(***************************************************************************)
(* Types                                                                   *)
(***************************************************************************)

\* What one update may do to the four variables it touches.
LEMMA UpdateTypes ==
    ASSUME TypeOK, NEW w \in Workers,
           NEW status \in Statuses, NEW stage \in Stages,
           NEW onReturn \in PCs, NEW onRaise \in PCs,
           UpdateTaskEvent(w, status, stage, onReturn, onRaise)
    PROVE  /\ row' \in [Tasks -> Row]
           /\ pc' \in [Workers -> PCs]
           /\ conn' \in [Workers -> {"ok", "aborted", "broken"}]
           /\ budget' \in Nat
<1>1. Written(TaskOf(w), status, stage) \in [Tasks -> Row]
  BY DEF Written, TypeOK, Row
<1>2. QED
  BY <1>1 DEF TypeOK, UpdateTaskEvent, Goto, Disturb

\* Setting one local of a job keeps the job's type.
LEMMA JobTypes ==
    ASSUME TypeOK, NEW w \in Workers
    PROVE  /\ \A m \in Messages : [job EXCEPT ![w].msg = m] \in [Workers -> Job]
           /\ \A s \in Stages : [job EXCEPT ![w].stage = s] \in [Workers -> Job]
           /\ \A r \in Verdicts : [job EXCEPT ![w].result = r] \in [Workers -> Job]
           /\ [job EXCEPT ![w].attempt = @ + 1] \in [Workers -> Job]
           /\ job[w].stage \in Stages
           /\ job[w].result \in Verdicts
BY DEF TypeOK, Job

LEMMA CallTypes ==
    ASSUME TypeOK, NEW w \in Workers, CallHandler(w)
    PROVE  calls' \in [Tasks -> Nat]
<1>1. \A t \in Tasks : calls[t] \in Nat /\ calls[t] + 1 \in Nat
  BY DEF TypeOK
<1>2. calls' = [t \in Tasks |-> IF t = TaskOf(w) THEN calls[t] + 1 ELSE calls[t]]
  BY DEF TypeOK, CallHandler
<1>3. QED
  BY <1>1, <1>2

LEMMA TypeInit == Init => TypeOK
<1> SUFFICES ASSUME Init PROVE TypeOK
  OBVIOUS
<1>1. Idle \in Job
  BY BoundAssumption DEF Idle, Job
<1>2. row \in [Tasks -> Row]
  BY RowAssumption DEF Init, Row
<1>3. QED
  BY <1>1, <1>2, BoundAssumption DEF Init, TypeOK

LEMMA TypeStep == TypeOK /\ [Next]_vars => TypeOK'
<1> SUFFICES ASSUME TypeOK, [Next]_vars PROVE TypeOK'
  OBVIOUS
<1> USE DEF TypeOK, queueVars, history, Goto, Disturb
<1>0. Idle \in Job
  BY BoundAssumption DEF Idle, Job
<1>1. ASSUME NEW w \in Workers, Consume(w) PROVE TypeOK'
  <2>1. CASE Pull(w)
    BY <2>1 DEF Pull, Ready
  <2>2. CASE NextMessage(w)
    <3>1. PICK m \in pending[w] :
              /\ job' = [job EXCEPT ![w].msg = m]
              /\ pc' = [pc EXCEPT ![w] =
                           IF Payload[m] = Malformed THEN "Ack" ELSE "Claim"]
      BY <2>2 DEF NextMessage
    <3>2. /\ job' \in [Workers -> Job]
          /\ pc' \in [Workers -> PCs]
      <4>1. job \in [Workers -> Job] /\ m \in Messages
        OBVIOUS
      <4>2. [job[w] EXCEPT !.msg = m] \in Job
        BY <4>1 DEF Job
      <4>3. job' \in [Workers -> Job]
        BY <3>1, <4>1, <4>2
      <4>4. pc' \in [Workers -> PCs]
        BY <3>1
      <4> QED
        BY <4>3, <4>4
    <3>3. QED
      BY <2>2, <3>2 DEF NextMessage
  <2>3. CASE BatchDone(w)
    BY <2>3 DEF BatchDone
  <2>4. CASE LeaveLoop(w)
    BY <2>4 DEF LeaveLoop
  <2>5. CASE ReturnBatch(w)
    BY <2>5 DEF ReturnBatch
  <2>6. CASE ReturnFails(w)
    BY <2>6 DEF ReturnFails
  <2>7. QED
    BY <1>1, <2>1, <2>2, <2>3, <2>4, <2>5, <2>6 DEF Consume
<1>2. ASSUME NEW w \in Workers, Prepare(w) PROVE TypeOK'
  <2>0. Claimable(TaskOf(w)) => RowClaimed(TaskOf(w)) \in [Tasks -> Row]
    BY DEF Claimable, RowClaimed, Row
  <2>1. CASE ClaimWins(w)
    BY <2>0, <2>1, JobTypes DEF ClaimWins, Claimable, Row
  <2>2. CASE ClaimLoses(w)
    BY <2>2 DEF ClaimLoses
  <2>3. CASE ClaimRejected(w)
    BY <2>3 DEF ClaimRejected
  <2>4. CASE ClaimDisconnected(w)
    BY <2>0, <2>4 DEF ClaimDisconnected
  <2>5. CASE PrepareFailed(w)
    <3>1. UpdateTaskEvent(w, "failed", "claim", "Ack", "Ack")
      BY <2>5 DEF PrepareFailed
    <3>2. QED
      BY <2>5, <3>1, UpdateTypes DEF PrepareFailed
  <2>6. QED
    BY <1>2, <2>1, <2>2, <2>3, <2>4, <2>5 DEF Prepare
<1>3. ASSUME NEW w \in Workers, Execute(w) PROVE TypeOK'
  <2>1. CASE Dispatch(w)
    <3>1. PICK to \in PCs : pc' = [pc EXCEPT ![w] = to]
      BY <2>1 DEF Dispatch
    <3>2. QED
      BY <2>1, <3>1 DEF Dispatch
  <2>2. CASE HandlerReturns(w)
    <3>1. job' \in [Workers -> Job]
      BY <2>2 DEF HandlerReturns, Job
    <3>2. calls' \in [Tasks -> Nat]
      BY <2>2, CallTypes DEF HandlerReturns
    <3>3. pc' \in [Workers -> PCs]
      BY <2>2 DEF HandlerReturns
    <3>4. QED
      BY <2>2, <3>1, <3>2, <3>3 DEF HandlerReturns, CallHandler
  <2>3. CASE HandlerRaisesTransient(w)
    <3>1. job' \in [Workers -> Job]
      <4>1. CASE UNCHANGED job
        BY <4>1
      <4>2. CASE job' = [job EXCEPT ![w].result = "failed"]
        BY <4>2, JobTypes
      <4>3. QED
        BY <2>3, <4>1, <4>2 DEF HandlerRaisesTransient
    <3>2. calls' \in [Tasks -> Nat]
      BY <2>3, CallTypes DEF HandlerRaisesTransient
    <3>3. pc' \in [Workers -> PCs]
      BY <2>3 DEF HandlerRaisesTransient
    <3>4. QED
      BY <2>3, <3>1, <3>2, <3>3 DEF HandlerRaisesTransient, CallHandler
  <2>4. CASE HandlerRaises(w)
    <3>1. job' \in [Workers -> Job]
      <4>1. job' = [job EXCEPT ![w].result = "failed"]
        BY <2>4 DEF HandlerRaises
      <4>2. QED
        BY <4>1, JobTypes
    <3>2. calls' \in [Tasks -> Nat]
      BY <2>4, CallTypes DEF HandlerRaises
    <3>3. pc' \in [Workers -> PCs]
      BY <2>4 DEF HandlerRaises
    <3>4. QED
      BY <2>4, <3>1, <3>2, <3>3 DEF HandlerRaises, CallHandler
  <2>5. CASE Backoff(w)
    BY <2>5, JobTypes DEF Backoff
  <2>6. CASE Finish(w)
    <3>1. job[w].result \in Statuses
      BY DEF Job
    <3>2. UpdateTaskEvent(w, job[w].result, "preprocessing",
              IF job[w].result = "completed" THEN "Ack" ELSE "Report", "Report")
      BY <2>6 DEF Finish
    <3>3. /\ row' \in [Tasks -> Row]
          /\ pc' \in [Workers -> PCs]
          /\ conn' \in [Workers -> {"ok", "aborted", "broken"}]
          /\ budget' \in Nat
      <4>1. CASE job[w].result = "completed"
        BY <3>1, <3>2, <4>1, UpdateTypes
      <4>2. CASE job[w].result # "completed"
        BY <3>1, <3>2, <4>2, UpdateTypes
      <4>3. QED
        BY <4>1, <4>2
    <3>4. QED
      BY <2>6, <3>3 DEF Finish
  <2>7. CASE Report(w)
    BY <2>7, UpdateTypes, JobTypes DEF Report, ClaimedStage
  <2>8. QED
    BY <1>3, <2>1, <2>2, <2>3, <2>4, <2>5, <2>6, <2>7 DEF Execute
<1>4. ASSUME NEW w \in Workers, Leave(w) PROVE TypeOK'
  <2>1. CASE Ack(w)
    BY <1>0, <2>1 DEF Ack, MarkAcked
  <2>2. CASE AckFails(w)
    BY <1>0, <2>2 DEF AckFails, MarkAcked
  <2>3. CASE Close(w)
    BY <1>0, <2>3 DEF Close, Gone
  <2>4. CASE Restart(w)
    BY <2>4 DEF Restart
  <2>5. QED
    BY <1>4, <2>1, <2>2, <2>3, <2>4 DEF Leave
<1>5. ASSUME NEW w \in Workers, Crash(w) PROVE TypeOK'
  BY <1>0, <1>5 DEF Crash, Gone
<1>6. ASSUME NEW w \in Workers, Signal(w) PROVE TypeOK'
  BY <1>6 DEF Signal
<1>7. ASSUME NEW m \in Messages, Redeliver(m) \/ ExpireTooEarly(m)
      PROVE TypeOK'
  BY <1>7 DEF Redeliver, ExpireTooEarly, ExpireLease
<1>8. CASE UNCHANGED vars
  BY <1>8 DEF vars
<1>9. QED
  BY <1>1, <1>2, <1>3, <1>4, <1>5, <1>6, <1>7, <1>8 DEF Next, Step

\* The variables keep their types, whatever goes wrong.
THEOREM TypeCorrect == Spec => []TypeOK
BY TypeInit, TypeStep, PTL DEF Spec

-----------------------------------------------------------------------------
(***************************************************************************)
(* The inductive invariant.  The claim is the only lock, and nobody ever   *)
(* gives it back: a task that is executed is owned by its executor, and a  *)
(* task that is still pending was never owned.  Around that lock, the      *)
(* calls of the handler are counted by the executor's attempt, and the     *)
(* verdict about to be written is the one the handler earned.              *)
(***************************************************************************)
OwnerInside ==
    \A w \in Workers :
        Executing(w) => TaskOf(w) \in Tasks /\ owner[TaskOf(w)] = w

PendingIsUntouched ==
    \A t \in Tasks :
        row[t].status = "pending" => owner[t] = NoWorker /\ calls[t] = 0

FreshAttempt ==
    \A w \in Workers :
        pc[w] \in {"Down", "Pull", "Batch", "Claim", "Dispatch"}
            => job[w].attempt = 0

CallsCounted ==
    \A w \in Workers :
        /\ pc[w] \in {"Dispatch", "Run"} =>
              /\ job[w].attempt < MaxAttempts
              /\ calls[TaskOf(w)] = job[w].attempt
        /\ pc[w] = "Backoff" =>
              /\ job[w].attempt + 1 < MaxAttempts
              /\ calls[TaskOf(w)] = job[w].attempt + 1

VerdictEarned ==
    \A w \in Workers :
        (pc[w] = "Finish" /\ job[w].result = "completed")
            => processed[TaskOf(w)]

Inv ==
    /\ OwnerInside
    /\ PendingIsUntouched
    /\ FreshAttempt
    /\ CallsCounted
    /\ CallsBounded
    /\ VerdictEarned
    /\ CompletedMeansProcessed

\* The worker variables of everybody but w stay.
OthersStay(w) ==
    \A v \in Workers \ {w} : pc'[v] = pc[v] /\ job'[v] = job[v]

LEMMA InvInit == Init => Inv
<1> SUFFICES ASSUME Init PROVE Inv
  OBVIOUS
<1>1. CallsBounded
  BY BoundAssumption DEF Init, CallsBounded
<1>2. QED
  BY <1>1 DEF Init, Inv, OwnerInside, PendingIsUntouched, FreshAttempt,
     CallsCounted, VerdictEarned, CompletedMeansProcessed, Executing, Idle

\* A step of w that ends outside its task, and writes no verdict but "failed".
LEMMA OutsideStep ==
    ASSUME TypeOK, Inv, NEW w \in Workers,
           UNCHANGED history, OthersStay(w),
           \A t \in Tasks : row'[t].status \in {row[t].status, "failed"},
           pc'[w] \in PCs \ {"Dispatch", "Run", "Backoff", "Finish", "Report"},
           pc'[w] \in {"Down", "Pull", "Batch", "Claim"}
               => job'[w].attempt = 0
    PROVE  Inv'
<1> USE DEF Inv, OthersStay, history
<1>1. OwnerInside'
  BY DEF OwnerInside, Executing, TaskOf
<1>2. PendingIsUntouched'
  BY DEF PendingIsUntouched
<1>3. FreshAttempt'
  BY DEF FreshAttempt
<1>4. CallsCounted'
  BY DEF CallsCounted, TaskOf
<1>5. CallsBounded'
  BY DEF CallsBounded
<1>6. VerdictEarned'
  BY DEF VerdictEarned, TaskOf
<1>7. CompletedMeansProcessed'
  BY DEF CompletedMeansProcessed
<1>8. QED
  BY <1>1, <1>2, <1>3, <1>4, <1>5, <1>6, <1>7

\* The same for a step of w inside its task t that changes no owner: what is
\* left to show is about w alone.
LEMMA InsideStep ==
    ASSUME TypeOK, Inv, NEW w \in Workers, Executing(w),
           UNCHANGED owner, OthersStay(w),
           job'[w].msg = job[w].msg,
           pc'[w] \in PCs \ {"Down", "Pull", "Batch", "Claim", "Dispatch"},
           \A t \in Tasks \ {TaskOf(w)} :
              /\ row'[t] = row[t]
              /\ calls'[t] = calls[t]
              /\ processed'[t] = processed[t],
           row'[TaskOf(w)].status # "pending",
           row'[TaskOf(w)].status = "completed" => processed'[TaskOf(w)],
           calls'[TaskOf(w)] \in Nat,
           calls'[TaskOf(w)] <= MaxAttempts,
           pc'[w] = "Run" => /\ job'[w].attempt < MaxAttempts
                             /\ calls'[TaskOf(w)] = job'[w].attempt,
           pc'[w] = "Backoff" => /\ job'[w].attempt + 1 < MaxAttempts
                                 /\ calls'[TaskOf(w)] = job'[w].attempt + 1,
           (pc'[w] = "Finish" /\ job'[w].result = "completed")
              => processed'[TaskOf(w)]
    PROVE  Inv'
<1> USE DEF Inv, OthersStay
<1>a. TaskOf(w)' = TaskOf(w)
  BY DEF TaskOf
<1>b. \A v \in Workers \ {w} :
          /\ Executing(v)' <=> Executing(v)
          /\ TaskOf(v)' = TaskOf(v)
          /\ Executing(v) => TaskOf(v) \in Tasks /\ TaskOf(v) # TaskOf(w)
  BY DEF Executing, TaskOf, OwnerInside
<1>1. OwnerInside'
  BY <1>a, <1>b DEF OwnerInside
<1>2. PendingIsUntouched'
  BY DEF PendingIsUntouched
<1>3. FreshAttempt'
  BY DEF FreshAttempt
<1>4. CallsCounted'
  <2>1. ASSUME NEW v \in Workers \ {w},
               pc'[v] \in {"Dispatch", "Run", "Backoff"}
        PROVE  calls'[TaskOf(v)'] = calls[TaskOf(v)]
    BY <1>b, <2>1 DEF Executing
  <2>2. QED
    BY <1>a, <1>b, <2>1 DEF CallsCounted, Executing
<1>5. CallsBounded'
  BY DEF CallsBounded
<1>6. VerdictEarned'
  <2>1. ASSUME NEW v \in Workers \ {w}, pc'[v] = "Finish"
        PROVE  processed'[TaskOf(v)'] = processed[TaskOf(v)]
    BY <1>b, <2>1 DEF Executing
  <2>2. QED
    BY <1>a, <2>1 DEF VerdictEarned, TaskOf
<1>7. CompletedMeansProcessed'
  BY DEF CompletedMeansProcessed
<1>8. QED
  BY <1>1, <1>2, <1>3, <1>4, <1>5, <1>6, <1>7

\* A won claim, whether or not the worker learns of it.
LEMMA ClaimStep ==
    ASSUME TypeOK, Inv, NEW w \in Workers,
           pc[w] = "Claim", Claimable(TaskOf(w)),
           row' = RowClaimed(TaskOf(w)),
           owner' = [owner EXCEPT ![TaskOf(w)] = w],
           UNCHANGED <<calls, processed>>, OthersStay(w),
           job'[w].msg = job[w].msg, job'[w].attempt = job[w].attempt,
           pc'[w] \in {"Dispatch", "PrepareFailed"}
    PROVE  Inv'
<1> USE DEF Inv, OthersStay
<1>a. TaskOf(w) \in Tasks /\ row[TaskOf(w)].status = "pending"
  BY DEF Claimable
<1>b. owner[TaskOf(w)] = NoWorker /\ calls[TaskOf(w)] = 0
  BY <1>a DEF PendingIsUntouched
<1>c. \A v \in Workers \ {w} :
          /\ Executing(v)' <=> Executing(v)
          /\ TaskOf(v)' = TaskOf(v)
          /\ Executing(v) => TaskOf(v) # TaskOf(w)
  BY <1>a, <1>b, NoWorkerAssumption DEF Executing, TaskOf, OwnerInside
<1>d. TaskOf(w)' = TaskOf(w)
  BY DEF TaskOf
<1>e. \A t \in Tasks : row'[t] = IF t = TaskOf(w)
                                 THEN [row[t] EXCEPT !.status = "running"]
                                 ELSE row[t]
  BY DEF RowClaimed, TypeOK
<1>1. OwnerInside'
  BY <1>a, <1>c, <1>d DEF OwnerInside, TypeOK
<1>2. PendingIsUntouched'
  BY <1>e DEF PendingIsUntouched, TypeOK, Row
<1>3. FreshAttempt'
  BY DEF FreshAttempt
<1>4. CallsCounted'
  <2>1. job[w].attempt = 0
    BY DEF FreshAttempt
  <2>2. ASSUME NEW v \in Workers \ {w}
        PROVE  /\ pc'[v] \in {"Dispatch", "Run"} =>
                     /\ job'[v].attempt < MaxAttempts
                     /\ calls'[TaskOf(v)'] = job'[v].attempt
               /\ pc'[v] = "Backoff" =>
                     /\ job'[v].attempt + 1 < MaxAttempts
                     /\ calls'[TaskOf(v)'] = job'[v].attempt + 1
    BY <1>c DEF CallsCounted
  <2>3. QED
    BY <1>b, <1>d, <2>1, <2>2, BoundAssumption DEF CallsCounted
<1>5. CallsBounded'
  BY DEF CallsBounded
<1>6. VerdictEarned'
  BY DEF VerdictEarned, TaskOf
<1>7. CompletedMeansProcessed'
  BY <1>e DEF CompletedMeansProcessed, TypeOK, Row
<1>8. QED
  BY <1>1, <1>2, <1>3, <1>4, <1>5, <1>6, <1>7

\* What one update leaves in the rows.
LEMMA UpdateRows ==
    ASSUME TypeOK, NEW w \in Workers, NEW status, NEW stage,
           NEW onReturn, NEW onRaise,
           UpdateTaskEvent(w, status, stage, onReturn, onRaise)
    PROVE  /\ \A t \in Tasks \ {TaskOf(w)} : row'[t] = row[t]
           /\ TaskOf(w) \in Tasks =>
                 row'[TaskOf(w)].status \in {row[TaskOf(w)].status, status}
           /\ pc' \in {[pc EXCEPT ![w] = onReturn], [pc EXCEPT ![w] = onRaise]}
BY DEF UpdateTaskEvent, Written, Goto, TypeOK

LEMMA ConsumeStep ==
    ASSUME TypeOK, Inv, NEW w \in Workers, Consume(w)
    PROVE  Inv'
<1> USE DEF OthersStay, history, Goto, TypeOK
<1>a. \A t \in Tasks : row[t].status \in {row[t].status, "failed"}
  OBVIOUS
<1>b. pc[w] \in {"Pull", "Batch"} => job[w].attempt = 0
  BY DEF Inv, FreshAttempt
<1>1. CASE Pull(w)
  BY <1>1, <1>a, <1>b, OutsideStep DEF Pull
<1>2. CASE NextMessage(w)
  <2>1. PICK m \in pending[w] :
            /\ job' = [job EXCEPT ![w].msg = m]
            /\ pc' = [pc EXCEPT ![w] =
                         IF Payload[m] = Malformed THEN "Ack" ELSE "Claim"]
    BY <1>2 DEF NextMessage
  <2>2. job'[w].attempt = job[w].attempt
    BY <2>1 DEF Job
  <2>3. pc'[w] \in {"Ack", "Claim"} /\ OthersStay(w)
    BY <2>1
  <2>4. QED
    BY <1>2, <1>a, <1>b, <2>2, <2>3, OutsideStep DEF NextMessage
<1>3. CASE BatchDone(w)
  BY <1>3, <1>a, <1>b, OutsideStep DEF BatchDone
<1>4. CASE LeaveLoop(w)
  BY <1>4, <1>a, OutsideStep DEF LeaveLoop
<1>5. CASE ReturnBatch(w)
  BY <1>5, <1>a, <1>b, OutsideStep DEF ReturnBatch
<1>6. CASE ReturnFails(w)
  BY <1>6, <1>a, OutsideStep DEF ReturnFails
<1>7. QED
  BY <1>1, <1>2, <1>3, <1>4, <1>5, <1>6 DEF Consume

\* An error handler's update: it ends outside the task, and writes "failed".
LEMMA FailingUpdateStep ==
    ASSUME TypeOK, Inv, NEW w \in Workers, NEW stage,
           UpdateTaskEvent(w, "failed", stage, "Ack", "Ack"),
           UNCHANGED <<job, history>>
    PROVE  Inv'
<1>1. \A t \in Tasks : row'[t].status \in {row[t].status, "failed"}
  BY UpdateRows
<1>2. pc' = [pc EXCEPT ![w] = "Ack"]
  BY UpdateRows
<1>3. QED
  BY <1>1, <1>2, OutsideStep DEF OthersStay, history, TypeOK

LEMMA PrepareStep ==
    ASSUME TypeOK, Inv, NEW w \in Workers, Prepare(w)
    PROVE  Inv'
<1> USE DEF OthersStay, history, Goto, TypeOK
<1>a. \A t \in Tasks : row[t].status \in {row[t].status, "failed"}
  OBVIOUS
<1>1. CASE ClaimWins(w)
  <2>1. job'[w].msg = job[w].msg /\ job'[w].attempt = job[w].attempt
    BY <1>1 DEF ClaimWins, Job
  <2>2. QED
    BY <1>1, <2>1, ClaimStep DEF ClaimWins
<1>2. CASE ClaimLoses(w)
  BY <1>2, <1>a, OutsideStep DEF ClaimLoses
<1>3. CASE ClaimRejected(w)
  BY <1>3, <1>a, OutsideStep DEF ClaimRejected
<1>4. CASE ClaimDisconnected(w)
  <2>1. CASE UNCHANGED <<row, owner>>
    BY <1>4, <2>1, <1>a, OutsideStep DEF ClaimDisconnected
  <2>2. CASE /\ Claimable(TaskOf(w))
             /\ row' = RowClaimed(TaskOf(w))
             /\ owner' = [owner EXCEPT ![TaskOf(w)] = w]
    BY <1>4, <2>2, ClaimStep DEF ClaimDisconnected
  <2>3. QED
    BY <1>4, <2>1, <2>2 DEF ClaimDisconnected
<1>5. CASE PrepareFailed(w)
  <2>1. UpdateTaskEvent(w, "failed", "claim", "Ack", "Ack")
    BY <1>5 DEF PrepareFailed
  <2>2. UNCHANGED <<job, history>>
    BY <1>5 DEF PrepareFailed
  <2>3. QED
    BY <2>1, <2>2, FailingUpdateStep
<1>6. QED
  BY <1>1, <1>2, <1>3, <1>4, <1>5 DEF Prepare

LEMMA LeaveStep ==
    ASSUME TypeOK, Inv, NEW w \in Workers, Leave(w) \/ Crash(w)
    PROVE  Inv'
<1> USE DEF OthersStay, history, Goto, TypeOK
<1>a. \A t \in Tasks : row[t].status \in {row[t].status, "failed"}
  OBVIOUS
<1>b. pc[w] = "Down" => job[w].attempt = 0
  BY DEF Inv, FreshAttempt
<1>c. Idle.attempt = 0
  BY DEF Idle
<1>1. CASE Ack(w)
  BY <1>1, <1>a, <1>c, OutsideStep DEF Ack
<1>2. CASE AckFails(w)
  BY <1>2, <1>a, <1>c, OutsideStep DEF AckFails
<1>3. CASE Close(w) \/ Crash(w)
  BY <1>3, <1>a, <1>c, OutsideStep DEF Close, Crash, Gone
<1>4. CASE Restart(w)
  BY <1>4, <1>a, <1>b, OutsideStep DEF Restart
<1>5. QED
  BY <1>1, <1>2, <1>3, <1>4 DEF Leave

\* Facts about the task a worker is inside, from the invariant.
LEMMA InsideFacts ==
    ASSUME TypeOK, Inv, NEW w \in Workers, Executing(w)
    PROVE  /\ TaskOf(w) \in Tasks
           /\ owner[TaskOf(w)] = w
           /\ row[TaskOf(w)].status # "pending"
           /\ calls[TaskOf(w)] \in Nat
           /\ calls[TaskOf(w)] <= MaxAttempts
           /\ row[TaskOf(w)].status = "completed" => processed[TaskOf(w)]
           /\ pc[w] \in {"Dispatch", "Run"} =>
                 /\ job[w].attempt < MaxAttempts
                 /\ calls[TaskOf(w)] = job[w].attempt
           /\ pc[w] = "Backoff" =>
                 /\ job[w].attempt + 1 < MaxAttempts
                 /\ calls[TaskOf(w)] = job[w].attempt + 1
           /\ (pc[w] = "Finish" /\ job[w].result = "completed")
                 => processed[TaskOf(w)]
           /\ job[w].attempt \in Nat
<1>1. TaskOf(w) \in Tasks /\ owner[TaskOf(w)] = w
  BY DEF Inv, OwnerInside
<1>2. QED
  BY <1>1, NoWorkerAssumption DEF Inv, PendingIsUntouched, CallsBounded,
     CompletedMeansProcessed, CallsCounted, VerdictEarned, TypeOK, Job

\* One call of the handler, whatever it ends with.
LEMMA HandlerStep ==
    ASSUME TypeOK, Inv, NEW w \in Workers, CallHandler(w), OthersStay(w),
           \/ /\ pc'[w] = "Finish"
              /\ \/ /\ job'[w].result = "completed"
                    /\ processed' = [processed EXCEPT ![TaskOf(w)] = TRUE]
                 \/ /\ job'[w].result = "failed"
                    /\ UNCHANGED processed
           \/ /\ pc'[w] = "Backoff"
              /\ CanRetry(w)
              /\ UNCHANGED processed,
           job'[w].msg = job[w].msg, job'[w].attempt = job[w].attempt
    PROVE  Inv'
<1> DEFINE t == TaskOf(w)
<1>1. pc[w] = "Run" /\ Executing(w)
  BY DEF CallHandler, Executing
<1>2. /\ t \in Tasks
      /\ row[t].status # "pending"
      /\ calls[t] = job[w].attempt
      /\ job[w].attempt \in Nat
      /\ job[w].attempt < MaxAttempts
      /\ row[t].status = "completed" => processed[t]
  BY <1>1, InsideFacts
<1>3. /\ UNCHANGED <<row, owner>>
      /\ calls'[t] = job[w].attempt + 1
      /\ \A u \in Tasks \ {t} : calls'[u] = calls[u] /\ processed'[u] = processed[u]
      /\ processed[t] => processed'[t]
  BY <1>2 DEF CallHandler, TypeOK
<1>4. pc'[w] = "Backoff" => job'[w].attempt + 1 < MaxAttempts
  BY <1>2, BoundAssumption DEF CanRetry
<1>5. pc'[w] = "Finish" /\ job'[w].result = "completed" => processed'[t]
  BY <1>2 DEF TypeOK
<1>6. job[w].attempt + 1 \in Nat /\ job[w].attempt + 1 <= MaxAttempts
  BY <1>2, BoundAssumption
<1>7. QED
  BY <1>1, <1>2, <1>3, <1>4, <1>5, <1>6, InsideStep

LEMMA ExecuteStep ==
    ASSUME TypeOK, Inv, NEW w \in Workers, Execute(w)
    PROVE  Inv'
<1> USE DEF OthersStay, history, Goto
<1>1. CASE Dispatch(w)
  <2>1. PICK to \in {"PrepareFailed", "Report", "Run"} : pc' = [pc EXCEPT ![w] = to]
    BY <1>1 DEF Dispatch
  <2>2. CASE to = "PrepareFailed"
    BY <1>1, <2>1, <2>2, OutsideStep DEF Dispatch, TypeOK
  <2>3. CASE to # "PrepareFailed"
    <3>1. pc[w] = "Dispatch" /\ Executing(w) /\ pc'[w] = to /\ OthersStay(w)
      BY <1>1, <2>1 DEF Dispatch, Executing, TypeOK
    <3>2. UNCHANGED <<row, job, owner, calls, processed>>
      BY <1>1 DEF Dispatch
    <3>3. QED
      BY <2>3, <3>1, <3>2, InsideFacts, InsideStep
  <2>4. QED
    BY <2>2, <2>3
<1>2. CASE HandlerReturns(w)
  <2>1. /\ job'[w].msg = job[w].msg
        /\ job'[w].attempt = job[w].attempt
        /\ job'[w].result = "completed"
    BY <1>2 DEF HandlerReturns, TypeOK, Job
  <2>2. pc'[w] = "Finish" /\ OthersStay(w)
    BY <1>2 DEF HandlerReturns, TypeOK
  <2>3. QED
    BY <1>2, <2>1, <2>2, HandlerStep DEF HandlerReturns
<1>3. CASE HandlerRaisesTransient(w)
  <2>1. CASE CanRetry(w) /\ Goto(w, "Backoff") /\ UNCHANGED job
    <3>1. pc'[w] = "Backoff" /\ OthersStay(w)
      BY <2>1 DEF TypeOK
    <3>2. QED
      BY <1>3, <2>1, <3>1, HandlerStep DEF HandlerRaisesTransient
  <2>2. CASE job' = [job EXCEPT ![w].result = "failed"] /\ Goto(w, "Finish")
    <3>1. /\ job'[w].msg = job[w].msg
          /\ job'[w].attempt = job[w].attempt
          /\ job'[w].result = "failed"
      BY <2>2 DEF TypeOK, Job
    <3>2. pc'[w] = "Finish" /\ OthersStay(w)
      BY <2>2 DEF TypeOK
    <3>3. QED
      BY <1>3, <3>1, <3>2, HandlerStep DEF HandlerRaisesTransient
  <2>3. QED
    BY <1>3, <2>1, <2>2 DEF HandlerRaisesTransient
<1>4. CASE HandlerRaises(w)
  <2>1. /\ job'[w].msg = job[w].msg
        /\ job'[w].attempt = job[w].attempt
        /\ job'[w].result = "failed"
    BY <1>4 DEF HandlerRaises, TypeOK, Job
  <2>2. pc'[w] = "Finish" /\ OthersStay(w)
    BY <1>4 DEF HandlerRaises, TypeOK
  <2>3. QED
    BY <1>4, <2>1, <2>2, HandlerStep DEF HandlerRaises
<1>5. CASE Backoff(w)
  <2>1. /\ job'[w].msg = job[w].msg
        /\ job'[w].attempt = job[w].attempt + 1
    BY <1>5 DEF Backoff, TypeOK, Job
  <2>2. /\ pc[w] = "Backoff" /\ Executing(w) /\ pc'[w] = "Run" /\ OthersStay(w)
        /\ UNCHANGED <<row, owner, calls, processed>>
    BY <1>5 DEF Backoff, Executing, TypeOK
  <2>3. QED
    BY <2>1, <2>2, InsideFacts, InsideStep
<1>6. CASE Finish(w)
  <2>1. /\ \A t \in Tasks \ {TaskOf(w)} : row'[t] = row[t]
        /\ TaskOf(w) \in Tasks =>
              row'[TaskOf(w)].status \in {row[TaskOf(w)].status, job[w].result}
        /\ pc' \in {[pc EXCEPT ![w] = "Ack"], [pc EXCEPT ![w] = "Report"]}
    BY <1>6, UpdateRows DEF Finish
  <2>2. /\ pc[w] = "Finish" /\ Executing(w)
        /\ pc'[w] \in {"Ack", "Report"} /\ OthersStay(w)
        /\ UNCHANGED <<job, owner, calls, processed>>
    BY <1>6, <2>1 DEF Finish, Executing, TypeOK
  <2>3. job[w].result \in {"completed", "failed"}
    BY DEF TypeOK, Job
  <2>4. QED
    BY <2>1, <2>2, <2>3, InsideFacts, InsideStep
<1>7. CASE Report(w)
  BY <1>7, FailingUpdateStep DEF Report
<1>8. QED
  BY <1>1, <1>2, <1>3, <1>4, <1>5, <1>6, <1>7 DEF Execute

LEMMA InvStep == TypeOK /\ Inv /\ [Next]_vars => Inv'
<1> SUFFICES ASSUME TypeOK, Inv, [Next]_vars PROVE Inv'
  OBVIOUS
<1>1. ASSUME UNCHANGED <<row, pc, job, owner, calls, processed>> PROVE Inv'
  BY <1>1 DEF Inv, OwnerInside, PendingIsUntouched, FreshAttempt, CallsCounted,
     CallsBounded, VerdictEarned, CompletedMeansProcessed, Executing, TaskOf
<1>2. ASSUME NEW w \in Workers, Step(w) \/ Crash(w) PROVE Inv'
  BY <1>2, ConsumeStep, PrepareStep, ExecuteStep, LeaveStep DEF Step
<1>3. ASSUME NEW w \in Workers, Signal(w) PROVE Inv'
  BY <1>1, <1>3 DEF Signal, history
<1>4. ASSUME NEW m \in Messages, Redeliver(m) \/ ExpireTooEarly(m) PROVE Inv'
  BY <1>1, <1>4 DEF Redeliver, ExpireTooEarly, ExpireLease, history
<1>5. CASE UNCHANGED vars
  BY <1>1, <1>5 DEF vars
<1>6. QED
  BY <1>2, <1>3, <1>4, <1>5 DEF Next

LEMMA InvariantHolds == Spec => [](TypeOK /\ Inv)
<1>1. Init => TypeOK /\ Inv
  BY TypeInit, InvInit
<1>2. TypeOK /\ Inv /\ [Next]_vars => (TypeOK /\ Inv)'
  BY TypeStep, InvStep
<1>3. QED
  BY <1>1, <1>2, PTL DEF Spec

-----------------------------------------------------------------------------
\* Two workers are never inside the same task, whatever is redelivered, lost
\* or killed.
THEOREM MutualExclusionHolds == Spec => []MutualExclusion
<1>1. Inv => MutualExclusion
  BY DEF Inv, OwnerInside, MutualExclusion
<1>2. QED
  BY <1>1, InvariantHolds, PTL

\* max_retries bounds the calls of a task's handler over its whole life.
THEOREM CallsBoundedHolds == Spec => []CallsBounded
<1>1. Inv => CallsBounded
  BY DEF Inv
<1>2. QED
  BY <1>1, InvariantHolds, PTL

\* "completed" is the truth, also when the database misbehaves.
THEOREM CompletedMeansProcessedHolds == Spec => []CompletedMeansProcessed
<1>1. Inv => CompletedMeansProcessed
  BY DEF Inv
<1>2. QED
  BY <1>1, InvariantHolds, PTL

-----------------------------------------------------------------------------
(***************************************************************************)
(* TaskWorker implements the weaker promise of TaskLifecycle for every     *)
(* choice of disturbances.                                                 *)
(***************************************************************************)
LenientStep == [Lifecycle!LenientNext]_(Lifecycle!vars)

LEMMA StutterStep ==
    ASSUME UNCHANGED <<row, processed>>
    PROVE  LenientStep
BY DEF LenientStep, Lifecycle!vars

\* One row gets a status: the abstract step Becomes(t, status).
LEMMA RowBecomes ==
    ASSUME TypeOK, NEW t \in Tasks, NEW status,
           \A u \in Tasks : row'[u].status = IF u = t THEN status ELSE row[u].status,
           UNCHANGED processed
    PROVE  Lifecycle!Becomes(t, status)
BY DEF Lifecycle!Becomes

\* An update either leaves the statuses or gives the task in hand its status.
LEMMA UpdateBecomes ==
    ASSUME TypeOK, NEW w \in Workers, NEW status, NEW stage,
           NEW onReturn, NEW onRaise, UNCHANGED processed,
           UpdateTaskEvent(w, status, stage, onReturn, onRaise)
    PROVE  \/ UNCHANGED <<row, processed>>
           \/ TaskOf(w) \in Tasks /\ Lifecycle!Becomes(TaskOf(w), status)
<1>1. CASE row' = row
  BY <1>1
<1>2. CASE row' = Written(TaskOf(w), status, stage) /\ TaskOf(w) \in Tasks
  <2>1. \A u \in Tasks : row'[u].status = IF u = TaskOf(w) THEN status ELSE row[u].status
    BY <1>2 DEF Written
  <2>2. QED
    BY <1>2, <2>1, RowBecomes
<1>3. CASE row' = Written(TaskOf(w), status, stage) /\ TaskOf(w) \notin Tasks
  <2>1. row' = row
    BY <1>3 DEF Written, TypeOK
  <2>2. QED
    BY <2>1
<1>4. QED
  BY <1>1, <1>2, <1>3 DEF UpdateTaskEvent

LEMMA LenientMapping == TypeOK /\ Inv /\ [Next]_vars => LenientStep
<1> SUFFICES ASSUME TypeOK, Inv, [Next]_vars PROVE LenientStep
  OBVIOUS
<1> USE DEF history
<1>0. ASSUME NEW t \in Tasks,
             \/ Lifecycle!Start(t) \/ Lifecycle!Overrule(t)
             \/ Lifecycle!ProcessOverruled(t) \/ Lifecycle!CompleteOverruled(t)
      PROVE  LenientStep
  BY <1>0 DEF LenientStep, Lifecycle!LenientNext, Lifecycle!Next
<1>1. ASSUME NEW w \in Workers, Consume(w) \/ Leave(w) \/ Crash(w) \/ Signal(w)
      PROVE  LenientStep
  BY <1>1, StutterStep DEF Consume, Pull, NextMessage, BatchDone, LeaveLoop,
     ReturnBatch, ReturnFails, Leave, Ack, AckFails, Close, Restart, Crash,
     Gone, Signal
<1>2. ASSUME NEW w \in Workers,
             Claimable(TaskOf(w)), row' = RowClaimed(TaskOf(w)),
             UNCHANGED processed
      PROVE  LenientStep
  <2>1. TaskOf(w) \in Tasks /\ row[TaskOf(w)].status = "pending"
    BY <1>2 DEF Claimable
  <2>2. \A u \in Tasks :
            row'[u].status = IF u = TaskOf(w) THEN "running" ELSE row[u].status
    BY <1>2, <2>1 DEF RowClaimed, TypeOK, Row
  <2>3. PICK t \in Tasks : t = TaskOf(w)
    BY <2>1
  <2>4. Lifecycle!Start(t)
    <3>1. \A u \in Tasks : row'[u].status = IF u = t THEN "running" ELSE row[u].status
      BY <2>2, <2>3
    <3>2. Lifecycle!Becomes(t, "running")
      BY <1>2, <3>1, RowBecomes
    <3>3. QED
      BY <2>1, <2>3, <3>2 DEF Lifecycle!Start
  <2>5. QED
    BY <1>0, <2>4
<1>3. ASSUME NEW w \in Workers, NEW stage, NEW onReturn, NEW onRaise,
             UpdateTaskEvent(w, "failed", stage, onReturn, onRaise),
             UNCHANGED processed
      PROVE  LenientStep
  <2>1. CASE UNCHANGED <<row, processed>>
    BY <2>1, StutterStep
  <2>2. CASE TaskOf(w) \in Tasks /\ Lifecycle!Becomes(TaskOf(w), "failed")
    BY <1>0, <2>2 DEF Lifecycle!Overrule
  <2>3. QED
    BY <1>3, <2>1, <2>2, UpdateBecomes
<1>4. ASSUME NEW w \in Workers, Prepare(w) PROVE LenientStep
  <2>1. CASE ClaimWins(w)
    BY <1>2, <2>1 DEF ClaimWins
  <2>2. CASE ClaimLoses(w) \/ ClaimRejected(w)
    BY <2>2, StutterStep DEF ClaimLoses, ClaimRejected
  <2>3. CASE ClaimDisconnected(w)
    BY <1>2, <2>3, StutterStep DEF ClaimDisconnected
  <2>4. CASE PrepareFailed(w)
    BY <1>3, <2>4 DEF PrepareFailed
  <2>5. QED
    BY <1>4, <2>1, <2>2, <2>3, <2>4 DEF Prepare
<1>5. ASSUME NEW w \in Workers, Execute(w) PROVE LenientStep
  <2>1. CASE \/ Dispatch(w) \/ HandlerRaisesTransient(w)
             \/ HandlerRaises(w) \/ Backoff(w)
    BY <2>1, StutterStep DEF Dispatch, HandlerRaisesTransient, HandlerRaises,
       Backoff, CallHandler
  <2>2. CASE HandlerReturns(w)
    <3>1. TaskOf(w) \in Tasks /\ row[TaskOf(w)].status # "pending"
      BY <2>2, InsideFacts DEF HandlerReturns, CallHandler, Executing
    <3>2. /\ processed' = [processed EXCEPT ![TaskOf(w)] = TRUE]
          /\ UNCHANGED row
      BY <2>2 DEF HandlerReturns, CallHandler
    <3>3. CASE processed[TaskOf(w)]
      <4>1. UNCHANGED processed
        BY <3>1, <3>2, <3>3 DEF TypeOK
      <4>2. QED
        BY <3>2, <4>1, StutterStep
    <3>4. CASE ~processed[TaskOf(w)]
      <4>1. Lifecycle!ProcessOverruled(TaskOf(w))
        BY <3>1, <3>2, <3>4 DEF Lifecycle!ProcessOverruled
      <4>2. QED
        BY <1>0, <3>1, <4>1
    <3>5. QED
      BY <3>3, <3>4
  <2>3. CASE Finish(w)
    <3>1. /\ TaskOf(w) \in Tasks
          /\ row[TaskOf(w)].status # "pending"
          /\ job[w].result = "completed" => processed[TaskOf(w)]
      BY <2>3, InsideFacts DEF Finish, Executing
    <3>2. UNCHANGED processed
      BY <2>3 DEF Finish
    <3>3. CASE job[w].result = "failed"
      BY <1>3, <2>3, <3>2, <3>3 DEF Finish
    <3>4. CASE job[w].result = "completed"
      <4>1. \/ UNCHANGED <<row, processed>>
            \/ Lifecycle!Becomes(TaskOf(w), "completed")
        BY <2>3, <3>2, <3>4, UpdateBecomes DEF Finish
      <4>2. CASE Lifecycle!Becomes(TaskOf(w), "completed")
        <5>1. PICK t \in Tasks : t = TaskOf(w)
          BY <3>1
        <5>2. Lifecycle!Becomes(t, "completed")
          BY <4>2, <5>1 DEF Lifecycle!Becomes
        <5>3. Lifecycle!CompleteOverruled(t)
          BY <3>1, <3>4, <5>1, <5>2 DEF Lifecycle!CompleteOverruled
        <5>4. QED
          BY <1>0, <5>3
      <4>3. QED
        BY <4>1, <4>2, StutterStep
    <3>5. job[w].result \in {"completed", "failed"}
      BY DEF TypeOK, Job
    <3>6. QED
      BY <3>3, <3>4, <3>5
  <2>4. CASE Report(w)
    BY <1>3, <2>4 DEF Report
  <2>5. QED
    BY <1>5, <2>1, <2>2, <2>3, <2>4 DEF Execute
<1>6. ASSUME NEW m \in Messages, Redeliver(m) \/ ExpireTooEarly(m)
      PROVE  LenientStep
  BY <1>6, StutterStep DEF Redeliver, ExpireTooEarly, ExpireLease
<1>7. CASE UNCHANGED vars
  BY <1>7, StutterStep DEF vars
<1>8. QED
  BY <1>1, <1>4, <1>5, <1>6, <1>7 DEF Next, Step

\* Whatever goes wrong, a row leaves "pending" only, never returns to it, and
\* is "completed" only after its handler returned.
THEOREM KeepsLenientPromiseHolds == Spec => KeepsLenientPromise
<1>1. Init => Lifecycle!Init
  BY DEF Init, Lifecycle!Init
<1>2. TypeOK /\ Inv /\ [Next]_vars => [Lifecycle!LenientNext]_(Lifecycle!vars)
  BY LenientMapping DEF LenientStep
<1>3. QED
  BY <1>1, <1>2, InvariantHolds, PTL
  DEF Spec, KeepsLenientPromise, Lifecycle!LenientSpec

-----------------------------------------------------------------------------
(***************************************************************************)
(* What the fleet promises when less goes wrong: while the database        *)
(* answers, it keeps the promise of TaskLifecycle in full; if no process   *)
(* is killed either, acknowledged work is settled or in hand; if nobody is *)
(* killed and Pub/Sub answers, no message is left to its lease.  Slow      *)
(* workers, signals and messages delivered twice are part of every case.   *)
(***************************************************************************)

DatabaseAnswers == Disturbances \cap DatabaseFaults = {}
NobodyIsKilled == "crash" \notin Disturbances
PubSubAnswers == "ack" \notin Disturbances

-----------------------------------------------------------------------------
(***************************************************************************)
(* While the database answers                                              *)
(***************************************************************************)
\* From a won claim to the last word about the task.
InHand(w) == Executing(w) \/ pc[w] = "PrepareFailed"

\* The only way to PrepareFailed is a row that the worker claimed and cannot
\* read; until the verdict the row says "running", and nobody else writes it.
HandIsOwn ==
    \A w \in Workers : InHand(w) => TaskOf(w) \in Tasks /\ owner[TaskOf(w)] = w

HandIsRunning ==
    \A w \in Workers :
        /\ InHand(w) /\ pc[w] # "Report" => row[TaskOf(w)].status = "running"
        /\ pc[w] = "Report" => row[TaskOf(w)].status \in {"running", "failed"}

\* Nothing but a normal return, about to be recorded, marks a task in hand.
HandIsOpen ==
    \A w \in Workers :
        /\ InHand(w) /\ pc[w] # "Finish" => ~ processed[TaskOf(w)]
        /\ pc[w] = "Finish" /\ job[w].result = "failed" => ~ processed[TaskOf(w)]

PendingIsOpen ==
    \A t \in Tasks : row[t].status = "pending" => owner[t] = NoWorker /\ ~ processed[t]

HandInv == HandIsOwn /\ HandIsRunning /\ HandIsOpen /\ PendingIsOpen /\ VerdictMatchesOutcome

QuietInv ==
    /\ TypeOK /\ Inv
    /\ \A w \in Workers : conn[w] = "ok"
    /\ HandInv

LEMMA QuietInit == Init => QuietInv
<1> SUFFICES ASSUME Init PROVE QuietInv
  OBVIOUS
<1>1. TypeOK /\ Inv
  BY TypeInit, InvInit
<1>2. \A w \in Workers : conn[w] = "ok" /\ ~ InHand(w)
  BY DEF Init, InHand, Executing
<1>3. HandIsOwn /\ HandIsRunning /\ HandIsOpen /\ PendingIsOpen /\ VerdictMatchesOutcome
  BY <1>2 DEF Init, HandIsOwn, HandIsRunning, HandIsOpen, PendingIsOpen, VerdictMatchesOutcome,
              Settled, InHand, Executing
<1> QED
  BY <1>1, <1>2, <1>3 DEF QuietInv, HandInv

\* Every update succeeds.
LEMMA QuietUpdate ==
    ASSUME DatabaseAnswers, QuietInv, NEW w \in Workers, NEW status, NEW stage,
           NEW onReturn, NEW onRaise,
           UpdateTaskEvent(w, status, stage, onReturn, onRaise)
    PROVE  /\ row' = Written(TaskOf(w), status, stage)
           /\ pc' = [pc EXCEPT ![w] = onReturn] /\ UNCHANGED conn
<1>1. conn[w] = "ok" /\ \A kind \in DatabaseFaults : ~ Disturb(kind)
  BY DEF DatabaseAnswers, QuietInv, Disturb
<1> QED
  BY <1>1 DEF UpdateTaskEvent, Goto

\* A step that changes no row, and after which w has no task in hand.
LEMMA OutOfHand ==
    ASSUME QuietInv, NEW w \in Workers, OthersStay(w), UNCHANGED <<row, history>>,
           pc'[w] \notin {"Dispatch", "Run", "Backoff", "Finish", "Report", "PrepareFailed"}
    PROVE  HandInv'
<1>1. \A v \in Workers : InHand(v)' => /\ v # w /\ InHand(v) /\ pc'[v] = pc[v] /\ job'[v] = job[v]
                                       /\ TaskOf(v)' = TaskOf(v)
  BY DEF InHand, Executing, OthersStay, TaskOf
<1> USE DEF QuietInv, HandInv, history
<1>2. HandIsOwn' /\ HandIsRunning'
  BY <1>1 DEF HandIsOwn, HandIsRunning, InHand, Executing
<1>3. HandIsOpen'
  BY <1>1 DEF HandIsOpen, InHand, Executing
<1>4. PendingIsOpen' /\ VerdictMatchesOutcome'
  BY DEF PendingIsOpen, VerdictMatchesOutcome, Settled
<1> QED
  BY <1>2, <1>3, <1>4

\* A step of w about the task it has in hand: what is left to show is about
\* this task, since nobody else has it in hand.
LEMMA InHandStep ==
    ASSUME QuietInv, NEW w \in Workers, InHand(w), OthersStay(w), UNCHANGED owner,
           NEW t \in Tasks, t = TaskOf(w),
           InHand(w)' => TaskOf(w)' = t,
           \A u \in Tasks \ {t} : row'[u] = row[u] /\ processed'[u] = processed[u],
           InHand(w)' /\ pc'[w] # "Report" => row'[t].status = "running",
           pc'[w] = "Report" => row'[t].status \in {"running", "failed"},
           InHand(w)' /\ pc'[w] # "Finish" => ~ processed'[t],
           pc'[w] = "Finish" /\ job'[w].result = "failed" => ~ processed'[t],
           row'[t].status # "pending",
           row'[t].status \in Verdicts => (row'[t].status = "completed" <=> processed'[t])
    PROVE  HandInv'
<1>1. ASSUME NEW v \in Workers, v # w, InHand(v)'
      PROVE  /\ InHand(v) /\ pc'[v] = pc[v] /\ job'[v] = job[v] /\ TaskOf(v)' = TaskOf(v)
             /\ TaskOf(v) \in Tasks /\ TaskOf(v) # t
             /\ row'[TaskOf(v)] = row[TaskOf(v)] /\ processed'[TaskOf(v)] = processed[TaskOf(v)]
  <2>1. InHand(v) /\ pc'[v] = pc[v] /\ job'[v] = job[v] /\ TaskOf(v)' = TaskOf(v)
    BY <1>1 DEF InHand, Executing, OthersStay, TaskOf
  <2>2. TaskOf(v) \in Tasks /\ TaskOf(v) # t
    BY <1>1, <2>1 DEF QuietInv, HandInv, HandIsOwn
  <2> QED
    BY <2>1, <2>2
<1>2. HandIsOwn'
  <2>1. owner[t] = w
    BY DEF QuietInv, HandInv, HandIsOwn
  <2>2. ASSUME NEW v \in Workers, InHand(v)'
        PROVE  TaskOf(v)' \in Tasks /\ owner'[TaskOf(v)'] = v
    BY <1>1, <2>1, <2>2 DEF QuietInv, HandInv, HandIsOwn
  <2> QED
    BY <2>2 DEF HandIsOwn
<1>3. HandIsRunning'
  <2>1. ASSUME NEW v \in Workers
        PROVE  /\ InHand(v)' /\ pc'[v] # "Report" => row'[TaskOf(v)'].status = "running"
               /\ pc'[v] = "Report" => row'[TaskOf(v)'].status \in {"running", "failed"}
    <3>1. CASE v = w
      BY <3>1 DEF InHand, Executing
    <3>2. CASE v # w
      BY <1>1, <3>2 DEF QuietInv, HandInv, HandIsRunning, InHand, Executing
    <3> QED
      BY <3>1, <3>2
  <2> QED
    BY <2>1 DEF HandIsRunning
<1>4. HandIsOpen'
  <2>1. ASSUME NEW v \in Workers
        PROVE  /\ InHand(v)' /\ pc'[v] # "Finish" => ~ processed'[TaskOf(v)']
               /\ pc'[v] = "Finish" /\ job'[v].result = "failed" => ~ processed'[TaskOf(v)']
    <3>1. CASE v = w
      BY <3>1 DEF InHand, Executing
    <3>2. CASE v # w
      BY <1>1, <3>2 DEF QuietInv, HandInv, HandIsOpen, InHand, Executing
    <3> QED
      BY <3>1, <3>2
  <2> QED
    BY <2>1 DEF HandIsOpen
<1>5. PendingIsOpen' /\ VerdictMatchesOutcome'
  BY DEF QuietInv, HandInv, PendingIsOpen, VerdictMatchesOutcome, Settled
<1> QED
  BY <1>2, <1>3, <1>4, <1>5 DEF HandInv

LEMMA ClaimInHand ==
    ASSUME QuietInv, NEW w \in Workers, ClaimWins(w)
    PROVE  HandInv'
<1>1. PICK t \in Tasks : t = TaskOf(w) /\ row[t].status = "pending"
  BY DEF ClaimWins, Claimable
<1>2. pc'[w] = "Dispatch" /\ OthersStay(w) /\ UNCHANGED processed /\ TaskOf(w)' = t
  BY <1>1 DEF ClaimWins, Goto, OthersStay, QuietInv, TypeOK, Job, TaskOf
<1>3. /\ owner[t] = NoWorker /\ ~ processed[t]
      /\ owner' = [owner EXCEPT ![t] = w]
      /\ \A u \in Tasks : row'[u].status = IF u = t THEN "running" ELSE row[u].status
  BY <1>1 DEF ClaimWins, RowClaimed, QuietInv, HandInv, PendingIsOpen, TypeOK, Row
<1>4. ASSUME NEW v \in Workers, v # w, InHand(v)'
      PROVE  /\ InHand(v) /\ pc'[v] = pc[v] /\ job'[v] = job[v] /\ TaskOf(v)' = TaskOf(v)
             /\ TaskOf(v) \in Tasks /\ TaskOf(v) # t
  <2>1. InHand(v) /\ pc'[v] = pc[v] /\ job'[v] = job[v] /\ TaskOf(v)' = TaskOf(v)
    BY <1>2, <1>4 DEF InHand, Executing, OthersStay, TaskOf
  <2>2. TaskOf(v) \in Tasks /\ TaskOf(v) # t
    BY <1>3, <2>1, NoWorkerAssumption DEF QuietInv, HandInv, HandIsOwn
  <2> QED
    BY <2>1, <2>2
<1>5. HandIsOwn'
  <2>1. ASSUME NEW v \in Workers, InHand(v)'
        PROVE  TaskOf(v)' \in Tasks /\ owner'[TaskOf(v)'] = v
    BY <1>2, <1>3, <1>4, <2>1 DEF QuietInv, HandInv, HandIsOwn, TypeOK
  <2> QED
    BY <2>1 DEF HandIsOwn
<1>6. HandIsRunning'
  <2>1. ASSUME NEW v \in Workers
        PROVE  /\ InHand(v)' /\ pc'[v] # "Report" => row'[TaskOf(v)'].status = "running"
               /\ pc'[v] = "Report" => row'[TaskOf(v)'].status \in {"running", "failed"}
    BY <1>2, <1>3, <1>4 DEF QuietInv, HandInv, HandIsRunning, InHand, Executing
  <2> QED
    BY <2>1 DEF HandIsRunning
<1>7. HandIsOpen'
  <2>1. ASSUME NEW v \in Workers
        PROVE  /\ InHand(v)' /\ pc'[v] # "Finish" => ~ processed'[TaskOf(v)']
               /\ pc'[v] = "Finish" /\ job'[v].result = "failed" => ~ processed'[TaskOf(v)']
    BY <1>2, <1>3, <1>4 DEF QuietInv, HandInv, HandIsOpen, InHand, Executing
  <2> QED
    BY <2>1 DEF HandIsOpen
<1>8. PendingIsOpen' /\ VerdictMatchesOutcome'
  BY <1>2, <1>3 DEF QuietInv, HandInv, PendingIsOpen, VerdictMatchesOutcome, Settled, TypeOK
<1> QED
  BY <1>5, <1>6, <1>7, <1>8 DEF HandInv

\* What is known of the task in hand.
LEMMA HandFacts ==
    ASSUME QuietInv, NEW w \in Workers, InHand(w)
    PROVE  /\ TaskOf(w) \in Tasks /\ row[TaskOf(w)].status # "pending"
           /\ pc[w] # "Report" => row[TaskOf(w)].status = "running"
           /\ pc[w] = "Report" => row[TaskOf(w)].status \in {"running", "failed"}
           /\ pc[w] # "Finish" => ~ processed[TaskOf(w)]
           /\ pc[w] = "Finish" /\ job[w].result = "failed" => ~ processed[TaskOf(w)]
           /\ pc[w] = "Finish" /\ job[w].result = "completed" => processed[TaskOf(w)]
           /\ job[w].result \in {"completed", "failed"}
<1>1. job[w].result \in {"completed", "failed"}
  BY DEF QuietInv, TypeOK, Job
<1>2. pc[w] = "Finish" /\ job[w].result = "completed" => processed[TaskOf(w)]
  BY DEF QuietInv, Inv, VerdictEarned
<1>3. TaskOf(w) \in Tasks
  BY DEF QuietInv, HandInv, HandIsOwn
<1>4. /\ pc[w] # "Report" => row[TaskOf(w)].status = "running"
      /\ pc[w] = "Report" => row[TaskOf(w)].status \in {"running", "failed"}
  BY DEF QuietInv, HandInv, HandIsRunning
<1>5. /\ pc[w] # "Finish" => ~ processed[TaskOf(w)]
      /\ pc[w] = "Finish" /\ job[w].result = "failed" => ~ processed[TaskOf(w)]
  BY DEF QuietInv, HandInv, HandIsOpen
<1> QED
  BY <1>1, <1>2, <1>3, <1>4, <1>5

\* The database answers: nothing of what a worker does at it fails.
LEMMA ClaimAnswers ==
    ASSUME DatabaseAnswers, QuietInv, NEW w \in Workers
    PROVE  /\ ~ ClaimRejected(w) /\ ~ ClaimDisconnected(w)
           /\ HandlerRaises(w) => UNCHANGED conn
BY DEF DatabaseAnswers, QuietInv, Disturb, ClaimRejected, ClaimDisconnected, HandlerRaises

\* An update of the task in hand.
LEMMA UpdateInHand ==
    ASSUME DatabaseAnswers, QuietInv, NEW w \in Workers, InHand(w), UNCHANGED <<job, history>>,
           NEW status \in Verdicts, NEW stage, NEW onReturn \in {"Ack", "Report"}, NEW onRaise,
           UpdateTaskEvent(w, status, stage, onReturn, onRaise),
           status = "completed" <=> processed[TaskOf(w)],
           onReturn = "Report" => status = "failed"
    PROVE  HandInv' /\ UNCHANGED conn
<1>1. PICK t \in Tasks : t = TaskOf(w)
  BY HandFacts
<1>2. row' = Written(TaskOf(w), status, stage) /\ pc' = [pc EXCEPT ![w] = onReturn]
      /\ UNCHANGED conn
  BY QuietUpdate
<1>3. row'[t].status = status /\ \A u \in Tasks \ {t} : row'[u] = row[u]
  BY <1>1, <1>2 DEF Written
<1>4. pc'[w] = onReturn /\ OthersStay(w) /\ TaskOf(w)' = t
  BY <1>1, <1>2 DEF OthersStay, QuietInv, TypeOK, TaskOf
<1>5. UNCHANGED <<owner, processed>>
  BY DEF history
<1>6. processed'[t] <=> status = "completed"
  BY <1>1, <1>5
<1>7. \A u \in Tasks \ {t} : row'[u] = row[u] /\ processed'[u] = processed[u]
  BY <1>3, <1>5
<1>8. InHand(w)' => pc'[w] = "Report" /\ status = "failed"
  BY <1>4 DEF InHand, Executing
<1>9. HandInv'
  BY <1>1, <1>3, <1>4, <1>5, <1>6, <1>7, <1>8, InHandStep
<1> QED
  BY <1>2, <1>9

\* A step about the task in hand that leaves its row.
LEMMA LocalInHand ==
    ASSUME QuietInv, NEW w \in Workers, InHand(w), UNCHANGED <<row, owner>>, OthersStay(w),
           job'[w].msg = job[w].msg,
           pc[w] # "Report", pc[w] # "Finish",
           \/ UNCHANGED processed
           \/ processed' = [processed EXCEPT ![TaskOf(w)] = TRUE],
           ~ UNCHANGED processed => pc'[w] = "Finish" /\ job'[w].result = "completed"
    PROVE  HandInv'
<1>1. PICK t \in Tasks : t = TaskOf(w)
  BY HandFacts
<1>2. TaskOf(w)' = t /\ row'[t].status = "running" /\ ~ processed[t]
  BY <1>1, HandFacts DEF TaskOf
<1>3. \A u \in Tasks \ {t} : row'[u] = row[u] /\ processed'[u] = processed[u]
  BY <1>1 DEF QuietInv, TypeOK
<1> QED
  BY <1>1, <1>2, <1>3, InHandStep

LEMMA PrepareInHand ==
    ASSUME DatabaseAnswers, QuietInv, NEW w \in Workers, Prepare(w)
    PROVE  HandInv' /\ UNCHANGED conn
<1>1. CASE ClaimWins(w)
  BY <1>1, ClaimInHand DEF ClaimWins
<1>2. CASE ClaimLoses(w)
  <2>1. OthersStay(w) /\ pc'[w] = "Ack"
    BY <1>2 DEF ClaimLoses, Goto, OthersStay, QuietInv, TypeOK
  <2> QED
    BY <1>2, <2>1, OutOfHand DEF ClaimLoses
<1>3. CASE PrepareFailed(w)
  <2>1. InHand(w) /\ pc[w] = "PrepareFailed"
    BY <1>3 DEF PrepareFailed, InHand
  <2>2. ~ processed[TaskOf(w)]
    BY <2>1, HandFacts
  <2> QED
    BY <1>3, <2>1, <2>2, UpdateInHand DEF PrepareFailed
<1> QED
  BY <1>1, <1>2, <1>3, ClaimAnswers DEF Prepare

LEMMA ExecuteInHand ==
    ASSUME DatabaseAnswers, QuietInv, NEW w \in Workers, Execute(w)
    PROVE  HandInv' /\ UNCHANGED conn
<1>1. InHand(w)
  BY DEF Execute, Dispatch, HandlerReturns, HandlerRaisesTransient, HandlerRaises, CallHandler,
         Backoff, Finish, Report, InHand, Executing
<1>2. CASE Dispatch(w)
  <2>1. OthersStay(w)
    BY <1>2 DEF Dispatch, Goto, OthersStay
  <2> QED
    BY <1>1, <1>2, <2>1, LocalInHand DEF Dispatch, history
<1>3. CASE HandlerReturns(w)
  <2>1. /\ OthersStay(w) /\ pc'[w] = "Finish"
        /\ job'[w].msg = job[w].msg /\ job'[w].result = "completed"
    BY <1>3 DEF HandlerReturns, Goto, OthersStay, QuietInv, TypeOK, Job
  <2> QED
    BY <1>1, <1>3, <2>1, LocalInHand DEF HandlerReturns, CallHandler
<1>4. CASE HandlerRaisesTransient(w)
  <2>1. OthersStay(w) /\ job'[w].msg = job[w].msg
    BY <1>4 DEF HandlerRaisesTransient, Goto, OthersStay, QuietInv, TypeOK, Job
  <2> QED
    BY <1>1, <1>4, <2>1, LocalInHand DEF HandlerRaisesTransient, CallHandler
<1>5. CASE HandlerRaises(w)
  <2>1. OthersStay(w) /\ job'[w].msg = job[w].msg
    BY <1>5 DEF HandlerRaises, Goto, OthersStay, QuietInv, TypeOK, Job
  <2> QED
    BY <1>1, <1>5, <2>1, LocalInHand, ClaimAnswers DEF HandlerRaises, CallHandler
<1>6. CASE Backoff(w)
  <2>1. OthersStay(w) /\ job'[w].msg = job[w].msg
    BY <1>6 DEF Backoff, Goto, OthersStay, QuietInv, TypeOK, Job
  <2> QED
    BY <1>1, <1>6, <2>1, LocalInHand DEF Backoff, history
<1>7. CASE Finish(w)
  <2>1. job[w].result = "completed" <=> processed[TaskOf(w)]
    BY <1>1, <1>7, HandFacts DEF Finish
  <2>2. job[w].result \in Verdicts
    BY <1>1, HandFacts
  <2>3. CASE job[w].result = "completed"
    BY <1>1, <1>7, <2>1, <2>2, <2>3, UpdateInHand DEF Finish
  <2>4. CASE job[w].result # "completed"
    BY <1>1, <1>7, <2>1, <2>2, <2>4, UpdateInHand DEF Finish
  <2> QED
    BY <2>3, <2>4
<1>8. CASE Report(w)
  <2>1. ~ processed[TaskOf(w)]
    BY <1>1, <1>8, HandFacts DEF Report
  <2> QED
    BY <1>1, <1>8, <2>1, UpdateInHand DEF Report
<1> QED
  BY <1>2, <1>3, <1>4, <1>5, <1>6, <1>7, <1>8 DEF Execute

\* The steps between two tasks.
LEMMA BetweenTasks ==
    ASSUME QuietInv, NEW w \in Workers, Consume(w) \/ Leave(w) \/ Crash(w)
    PROVE  /\ OthersStay(w) /\ UNCHANGED <<row, history>>
           /\ pc'[w] \in {"Pull", "Batch", "Claim", "Ack", "Close", "Down"}
           /\ \A v \in Workers : conn'[v] = "ok"
<1> USE DEF OthersStay, history, Goto, QuietInv, TypeOK
<1>1. CASE Consume(w)
  BY <1>1 DEF Consume, Pull, NextMessage, BatchDone, LeaveLoop, ReturnBatch, ReturnFails
<1>2. CASE Leave(w)
  BY <1>2 DEF Leave, Ack, AckFails, Close, Gone, Restart
<1>3. CASE Crash(w)
  BY <1>3 DEF Crash, Gone
<1> QED
  BY <1>1, <1>2, <1>3

LEMMA QuietStep == DatabaseAnswers /\ QuietInv /\ [Next]_vars => QuietInv'
<1> SUFFICES ASSUME DatabaseAnswers, QuietInv, [Next]_vars PROVE QuietInv'
  OBVIOUS
<1>1. (TypeOK /\ Inv)'
  BY TypeStep, InvStep DEF QuietInv
<1>2. ASSUME UNCHANGED <<row, pc, job, conn, history>>
      PROVE  (\A w \in Workers : conn'[w] = "ok") /\ HandInv'
  BY <1>2 DEF QuietInv, HandInv, HandIsOwn, HandIsRunning, HandIsOpen, PendingIsOpen,
              VerdictMatchesOutcome, Settled, InHand, Executing, TaskOf, history
<1>3. ASSUME NEW w \in Workers, Step(w) \/ Crash(w) \/ Signal(w)
      PROVE  (\A v \in Workers : conn'[v] = "ok") /\ HandInv'
  <2>1. CASE Prepare(w) \/ Execute(w)
    BY <2>1, PrepareInHand, ExecuteInHand DEF QuietInv
  <2>2. CASE Consume(w) \/ Leave(w) \/ Crash(w)
    BY <2>2, BetweenTasks, OutOfHand
  <2>3. CASE Signal(w)
    BY <1>2, <2>3 DEF Signal
  <2> QED
    BY <1>3, <2>1, <2>2, <2>3 DEF Step
<1>4. ASSUME NEW m \in Messages, Redeliver(m) \/ ExpireTooEarly(m)
      PROVE  (\A w \in Workers : conn'[w] = "ok") /\ HandInv'
  BY <1>2, <1>4 DEF Redeliver, ExpireTooEarly, ExpireLease
<1>5. CASE UNCHANGED vars
  BY <1>1, <1>2, <1>5 DEF vars, history, QuietInv
<1> QED
  BY <1>1, <1>3, <1>4, <1>5 DEF Next, QuietInv

LEMMA QuietHolds == DatabaseAnswers => (Spec => []QuietInv)
<1> SUFFICES ASSUME DatabaseAnswers PROVE Spec => []QuietInv
  OBVIOUS
<1>1. QuietInv /\ [Next]_vars => QuietInv'
  BY QuietStep
<1> QED
  BY <1>1, QuietInit, PTL DEF Spec

\* While the database answers, a verdict tells the truth in both directions.
THEOREM VerdictMatchesOutcomeHolds == DatabaseAnswers => (Spec => []VerdictMatchesOutcome)
<1>1. QuietInv => VerdictMatchesOutcome
  BY DEF QuietInv, HandInv
<1> QED
  BY <1>1, QuietHolds, PTL

-----------------------------------------------------------------------------
(***************************************************************************)
(* While the database answers, the fleet implements TaskLifecycle          *)
(***************************************************************************)
PromisedStep == [Lifecycle!Next]_(Lifecycle!vars)

LEMMA PromisedStutter ==
    ASSUME UNCHANGED <<row, processed>>
    PROVE  PromisedStep
BY DEF PromisedStep, Lifecycle!vars

LEMMA PromisedAction ==
    ASSUME NEW t \in Tasks,
           \/ Lifecycle!Start(t) \/ Lifecycle!Process(t)
           \/ Lifecycle!Complete(t) \/ Lifecycle!GiveUp(t)
    PROVE  PromisedStep
BY DEF PromisedStep, Lifecycle!Next

\* A verdict about a task in hand is the one abstract step it earned, or, when
\* _execute_task_event repeats the coordinator's verdict, none.
LEMMA VerdictIsPromised ==
    ASSUME DatabaseAnswers, QuietInv, NEW w \in Workers, InHand(w), UNCHANGED history,
           NEW status \in Verdicts, NEW stage, NEW onReturn, NEW onRaise,
           UpdateTaskEvent(w, status, stage, onReturn, onRaise),
           status = "completed" <=> processed[TaskOf(w)],
           pc[w] = "Report" => status = "failed"
    PROVE  PromisedStep
<1>1. PICK t \in Tasks : t = TaskOf(w)
  BY HandFacts
<1>2. UNCHANGED processed /\ row' = Written(TaskOf(w), status, stage)
  BY QuietUpdate DEF history
<1>3. \A u \in Tasks : row'[u].status = IF u = t THEN status ELSE row[u].status
  BY <1>1, <1>2 DEF Written
<1>4. Lifecycle!Becomes(t, status)
  BY <1>2, <1>3, RowBecomes DEF QuietInv
<1>5. CASE row[t].status = "running" /\ status = "completed"
  <2>1. Lifecycle!Complete(t)
    BY <1>1, <1>4, <1>5 DEF Lifecycle!Complete
  <2> QED
    BY <2>1, PromisedAction
<1>6. CASE row[t].status = "running" /\ status = "failed"
  <2>1. Lifecycle!GiveUp(t)
    BY <1>1, <1>4, <1>6 DEF Lifecycle!GiveUp
  <2> QED
    BY <2>1, PromisedAction
<1>7. CASE row[t].status = "failed" /\ status = "failed"
  <2>1. [u \in Tasks |-> row'[u].status] = [u \in Tasks |-> row[u].status]
    BY <1>3, <1>7
  <2> QED
    BY <1>2, <2>1 DEF PromisedStep, Lifecycle!vars
<1> QED
  BY <1>1, <1>5, <1>6, <1>7, HandFacts

LEMMA ClaimIsPromised ==
    ASSUME QuietInv, NEW w \in Workers, ClaimWins(w)
    PROVE  PromisedStep
<1>1. PICK t \in Tasks : t = TaskOf(w) /\ row[t].status = "pending"
  BY DEF ClaimWins, Claimable
<1>2. \A u \in Tasks : row'[u].status = IF u = t THEN "running" ELSE row[u].status
  BY <1>1 DEF ClaimWins, RowClaimed, QuietInv, TypeOK, Row
<1>3. Lifecycle!Becomes(t, "running")
  BY <1>2, RowBecomes DEF QuietInv, ClaimWins
<1>4. Lifecycle!Start(t)
  BY <1>1, <1>3 DEF Lifecycle!Start
<1> QED
  BY <1>4, PromisedAction

LEMMA ReturnIsPromised ==
    ASSUME QuietInv, NEW w \in Workers, HandlerReturns(w)
    PROVE  PromisedStep
<1>1. InHand(w) /\ pc[w] = "Run"
  BY DEF HandlerReturns, CallHandler, InHand, Executing
<1>2. PICK t \in Tasks : t = TaskOf(w)
  BY <1>1, HandFacts
<1>3. row[t].status = "running" /\ ~ processed[t]
  BY <1>1, <1>2, HandFacts
<1>4. UNCHANGED row /\ processed' = [processed EXCEPT ![t] = TRUE]
  BY <1>2 DEF HandlerReturns, CallHandler
<1>5. Lifecycle!Process(t)
  BY <1>3, <1>4 DEF Lifecycle!Process
<1> QED
  BY <1>5, PromisedAction

LEMMA PromiseMapping == DatabaseAnswers /\ QuietInv /\ [Next]_vars => PromisedStep
<1> SUFFICES ASSUME DatabaseAnswers, QuietInv, [Next]_vars PROVE PromisedStep
  OBVIOUS
<1>1. ASSUME NEW w \in Workers, Prepare(w) PROVE PromisedStep
  <2>1. CASE ClaimWins(w)
    BY <2>1, ClaimIsPromised
  <2>2. CASE ClaimLoses(w)
    BY <2>2, PromisedStutter DEF ClaimLoses, history
  <2>3. CASE PrepareFailed(w)
    <3>1. InHand(w) /\ pc[w] = "PrepareFailed"
      BY <2>3 DEF PrepareFailed, InHand
    <3>2. ~ processed[TaskOf(w)]
      BY <3>1, HandFacts
    <3> QED
      BY <2>3, <3>1, <3>2, VerdictIsPromised DEF PrepareFailed
  <2> QED
    BY <1>1, <2>1, <2>2, <2>3, ClaimAnswers DEF Prepare
<1>2. ASSUME NEW w \in Workers, Execute(w) PROVE PromisedStep
  <2>1. CASE Dispatch(w) \/ HandlerRaisesTransient(w) \/ HandlerRaises(w) \/ Backoff(w)
    BY <2>1, PromisedStutter DEF Dispatch, HandlerRaisesTransient, HandlerRaises, Backoff,
       CallHandler, history
  <2>2. CASE HandlerReturns(w)
    BY <2>2, ReturnIsPromised
  <2>3. CASE Finish(w)
    <3>1. InHand(w) /\ pc[w] = "Finish"
      BY <2>3 DEF Finish, InHand, Executing
    <3>2. job[w].result \in Verdicts /\ (job[w].result = "completed" <=> processed[TaskOf(w)])
      BY <3>1, HandFacts
    <3> QED
      BY <2>3, <3>1, <3>2, VerdictIsPromised DEF Finish
  <2>4. CASE Report(w)
    <3>1. InHand(w) /\ pc[w] = "Report"
      BY <2>4 DEF Report, InHand, Executing
    <3>2. ~ processed[TaskOf(w)]
      BY <3>1, HandFacts
    <3> QED
      BY <2>4, <3>1, <3>2, VerdictIsPromised DEF Report
  <2> QED
    BY <1>2, <2>1, <2>2, <2>3, <2>4 DEF Execute
<1>3. ASSUME NEW w \in Workers, Consume(w) \/ Leave(w) \/ Crash(w) \/ Signal(w)
      PROVE  PromisedStep
  BY <1>3, BetweenTasks, PromisedStutter DEF Signal, history
<1>4. ASSUME NEW m \in Messages, Redeliver(m) \/ ExpireTooEarly(m) PROVE PromisedStep
  BY <1>4, PromisedStutter DEF Redeliver, ExpireTooEarly, ExpireLease, history
<1>5. CASE UNCHANGED vars
  BY <1>5, PromisedStutter DEF vars
<1> QED
  BY <1>1, <1>2, <1>3, <1>4, <1>5 DEF Next, Step

\* While the database answers, a row is claimed once, its work is done once
\* and while it is running, and its verdict is the truth and final.
THEOREM KeepsPromiseHolds == DatabaseAnswers => (Spec => KeepsPromise)
<1> SUFFICES ASSUME DatabaseAnswers PROVE Spec => KeepsPromise
  OBVIOUS
<1>1. Init => Lifecycle!Init
  BY DEF Init, Lifecycle!Init
<1>2. QuietInv /\ [Next]_vars => [Lifecycle!Next]_(Lifecycle!vars)
  BY PromiseMapping DEF PromisedStep
<1>3. Spec => []QuietInv
  BY QuietHolds
<1> QED
  BY <1>1, <1>2, <1>3, PTL DEF Spec, KeepsPromise, Lifecycle!Spec

-----------------------------------------------------------------------------
(***************************************************************************)
(* While nobody is killed either: what is acknowledged is settled, or in   *)
(* hand.  No row is left "running" by a worker that went away, and a       *)
(* message gets to its acknowledgement only when its row is no longer      *)
(* "pending".                                                              *)
(***************************************************************************)
RunningIsInHand ==
    \A t \in Tasks : row[t].status = "running" => \E w \in Workers : InHand(w) /\ TaskOf(w) = t

Begun(m) == Payload[m] \in Tasks => row[Payload[m]].status # "pending"

AckIsLate ==
    /\ \A m \in Messages : delivery[m] = "acked" => Begun(m)
    /\ \A w \in Workers : pc[w] = "Ack" => Begun(job[w].msg)

SettledInv == QuietInv /\ RunningIsInHand /\ AckIsLate

LEMMA SettledInit == Init => SettledInv
<1> SUFFICES ASSUME Init PROVE SettledInv
  OBVIOUS
<1>1. RunningIsInHand /\ AckIsLate
  BY DEF Init, RunningIsInHand, AckIsLate
<1> QED
  BY <1>1, QuietInit DEF SettledInv

\* A task is in nobody's hand but w's, or its row and its worker stay as w
\* finds them: the part of a step that is not about w's own task.
LEMMA OthersKeep ==
    ASSUME RunningIsInHand, NEW w \in Workers, OthersStay(w),
           \A t \in Tasks : row'[t].status = "running" =>
               \/ InHand(w)' /\ TaskOf(w)' = t
               \/ row[t].status = "running" /\ ~ (InHand(w) /\ TaskOf(w) = t)
    PROVE  RunningIsInHand'
<1> SUFFICES ASSUME NEW t \in Tasks, row'[t].status = "running"
             PROVE  \E v \in Workers : InHand(v)' /\ TaskOf(v)' = t
  BY DEF RunningIsInHand
<1>1. CASE InHand(w)' /\ TaskOf(w)' = t
  BY <1>1
<1>2. CASE row[t].status = "running" /\ ~ (InHand(w) /\ TaskOf(w) = t)
  <2>1. PICK v \in Workers : InHand(v) /\ TaskOf(v) = t
    BY <1>2 DEF RunningIsInHand
  <2>2. InHand(v)' /\ TaskOf(v)' = t
    BY <1>2, <2>1 DEF InHand, Executing, TaskOf, OthersStay
  <2> QED
    BY <2>2
<1> QED
  BY <1>1, <1>2

\* No step makes a row pending again.
LEMMA NeverPendingAgain ==
    ASSUME DatabaseAnswers, QuietInv, [Next]_vars, NEW t \in Tasks, row'[t].status = "pending"
    PROVE  row[t].status = "pending"
<1>1. PromisedStep /\ [u \in Tasks |-> row'[u].status][t] = "pending"
  BY PromiseMapping
<1> QED
  BY <1>1 DEF PromisedStep, Lifecycle!vars, Lifecycle!Next, Lifecycle!Start, Lifecycle!Process,
     Lifecycle!Complete, Lifecycle!GiveUp, Lifecycle!Becomes

LEMMA BegunStays ==
    ASSUME DatabaseAnswers, QuietInv, [Next]_vars, NEW m, Begun(m)
    PROVE  Begun(m)'
BY NeverPendingAgain DEF Begun

\* The last word about a task in hand.
LEMMA VerdictSettles ==
    ASSUME DatabaseAnswers, SettledInv, NEW w \in Workers, InHand(w), UNCHANGED job,
           NEW status \in Verdicts, NEW stage, NEW onReturn, NEW onRaise,
           UpdateTaskEvent(w, status, stage, onReturn, onRaise)
    PROVE  RunningIsInHand' /\ OthersStay(w) /\ Begun(job[w].msg)'
<1>1. PICK t \in Tasks : t = TaskOf(w)
  BY HandFacts DEF SettledInv
<1>2. row' = Written(TaskOf(w), status, stage) /\ OthersStay(w)
  <2>1. row' = Written(TaskOf(w), status, stage) /\ pc' = [pc EXCEPT ![w] = onReturn]
    BY QuietUpdate DEF SettledInv
  <2> QED
    BY <2>1 DEF OthersStay, SettledInv, QuietInv, TypeOK
<1>3. \A u \in Tasks : row'[u].status = IF u = t THEN status ELSE row[u].status
  BY <1>1, <1>2 DEF Written
<1>4. RunningIsInHand'
  BY <1>1, <1>2, <1>3, OthersKeep DEF SettledInv
<1> QED
  BY <1>1, <1>2, <1>3, <1>4 DEF Begun, TaskOf

LEMMA PrepareSettles ==
    ASSUME DatabaseAnswers, SettledInv, NEW w \in Workers, Prepare(w)
    PROVE  RunningIsInHand' /\ OthersStay(w) /\ (pc'[w] = "Ack" => Begun(job[w].msg)')
<1>1. CASE ClaimWins(w)
  <2>1. PICK t \in Tasks : t = TaskOf(w) /\ row[t].status = "pending"
    BY <1>1 DEF ClaimWins, Claimable
  <2>2. OthersStay(w) /\ pc'[w] = "Dispatch" /\ TaskOf(w)' = t /\ ~ InHand(w)
    BY <1>1, <2>1 DEF ClaimWins, Goto, OthersStay, SettledInv, QuietInv, TypeOK, Job, TaskOf,
       InHand, Executing
  <2>3. \A u \in Tasks : row'[u].status = IF u = t THEN "running" ELSE row[u].status
    BY <1>1, <2>1 DEF ClaimWins, RowClaimed, SettledInv, QuietInv, TypeOK, Row
  <2>4. InHand(w)'
    BY <2>2 DEF InHand, Executing
  <2> QED
    BY <2>2, <2>3, <2>4, OthersKeep DEF SettledInv
<1>2. CASE ClaimLoses(w)
  <2>1. OthersStay(w) /\ ~ InHand(w)
    BY <1>2 DEF ClaimLoses, Goto, OthersStay, InHand, Executing
  <2>2. RunningIsInHand'
    BY <1>2, <2>1, OthersKeep DEF SettledInv, ClaimLoses
  <2> QED
    BY <1>2, <2>1, <2>2 DEF ClaimLoses, Claimable, Begun, TaskOf
<1>3. CASE PrepareFailed(w)
  <2>1. InHand(w)
    BY <1>3 DEF PrepareFailed, InHand
  <2> QED
    BY <1>3, <2>1, VerdictSettles DEF PrepareFailed
<1> QED
  BY <1>1, <1>2, <1>3, ClaimAnswers DEF Prepare, SettledInv

LEMMA ExecuteSettles ==
    ASSUME DatabaseAnswers, SettledInv, NEW w \in Workers, Execute(w)
    PROVE  RunningIsInHand' /\ OthersStay(w) /\ (pc'[w] = "Ack" => Begun(job[w].msg)')
<1>1. InHand(w)
  BY DEF Execute, Dispatch, HandlerReturns, HandlerRaisesTransient, HandlerRaises, CallHandler,
         Backoff, Finish, Report, InHand, Executing
<1>2. CASE \/ Dispatch(w) \/ HandlerReturns(w) \/ HandlerRaisesTransient(w)
           \/ HandlerRaises(w) \/ Backoff(w)
  <2>1. OthersStay(w) /\ UNCHANGED row /\ job'[w].msg = job[w].msg
    BY <1>2 DEF Dispatch, HandlerReturns, HandlerRaisesTransient, HandlerRaises, CallHandler,
       Backoff, Goto, OthersStay, SettledInv, QuietInv, TypeOK, Job
  <2>2. pc'[w] \in {"PrepareFailed", "Report", "Run", "Finish", "Backoff"}
    BY <1>2 DEF Dispatch, HandlerReturns, HandlerRaisesTransient, HandlerRaises, Backoff, Goto,
       SettledInv, QuietInv, TypeOK
  <2>3. InHand(w)' /\ TaskOf(w)' = TaskOf(w)
    BY <2>1, <2>2 DEF InHand, Executing, TaskOf
  <2>4. RunningIsInHand'
    BY <2>1, <2>3, OthersKeep DEF SettledInv
  <2> QED
    BY <2>1, <2>2, <2>4
<1>3. CASE Finish(w)
  <2>1. job[w].result \in Verdicts
    BY <1>1, HandFacts DEF SettledInv
  <2> QED
    BY <1>1, <1>3, <2>1, VerdictSettles DEF Finish
<1>4. CASE Report(w)
  BY <1>1, <1>4, VerdictSettles DEF Report
<1> QED
  BY <1>2, <1>3, <1>4 DEF Execute

LEMMA SettledStep ==
    DatabaseAnswers /\ NobodyIsKilled /\ SettledInv /\ [Next]_vars => SettledInv'
<1> SUFFICES ASSUME DatabaseAnswers, NobodyIsKilled, SettledInv, [Next]_vars PROVE SettledInv'
  OBVIOUS
<1>1. QuietInv'
  BY QuietStep DEF SettledInv
<1>2. \A m : Begun(m) => Begun(m)'
  BY BegunStays DEF SettledInv
<1>3. ASSUME NEW w \in Workers, Prepare(w) \/ Execute(w) PROVE RunningIsInHand' /\ AckIsLate'
  <2>1. RunningIsInHand' /\ OthersStay(w) /\ (pc'[w] = "Ack" => Begun(job[w].msg)')
    BY <1>3, PrepareSettles, ExecuteSettles
  <2>2. UNCHANGED delivery
    BY <1>3 DEF Prepare, Execute, ClaimWins, ClaimLoses, ClaimRejected, ClaimDisconnected,
       PrepareFailed, Dispatch, HandlerReturns, HandlerRaisesTransient, HandlerRaises,
       CallHandler, Backoff, Finish, Report, queueVars
  <2> QED
    BY <1>2, <2>1, <2>2 DEF SettledInv, AckIsLate, OthersStay
<1>4. ASSUME NEW w \in Workers, Consume(w) \/ Leave(w) PROVE RunningIsInHand' /\ AckIsLate'
  <2>1. OthersStay(w) /\ UNCHANGED row /\ ~ InHand(w)
    BY <1>4, BetweenTasks DEF SettledInv, InHand, Executing, Consume, Pull, NextMessage, BatchDone,
       LeaveLoop, ReturnBatch, ReturnFails, Leave, Ack, AckFails, Close, Restart
  <2>2. RunningIsInHand'
    BY <2>1, OthersKeep DEF SettledInv
  <2>3. \A m \in Messages : delivery'[m] = "acked" =>
            delivery[m] = "acked" \/ (pc[w] = "Ack" /\ m = job[w].msg)
    BY <1>4 DEF Consume, Pull, NextMessage, BatchDone, LeaveLoop, ReturnBatch, ReturnFails, Leave,
       Ack, AckFails, MarkAcked, Close, Gone, Restart, queueVars, SettledInv, QuietInv, TypeOK
  <2>4. pc'[w] = "Ack" => Payload[job'[w].msg] = Malformed
    BY <1>4 DEF Consume, Pull, NextMessage, BatchDone, LeaveLoop, ReturnBatch, ReturnFails, Leave,
       Ack, AckFails, Close, Gone, Restart, Goto, SettledInv, QuietInv, TypeOK, Job
  <2>5. pc'[w] = "Ack" => Begun(job[w].msg)'
    BY <2>4, NoTaskAssumption DEF Begun
  <2> QED
    BY <1>2, <2>1, <2>2, <2>3, <2>5 DEF SettledInv, AckIsLate, OthersStay
<1>5. ASSUME UNCHANGED <<row, pc, job>>,
             \A m \in Messages : delivery'[m] = "acked" => delivery[m] = "acked"
      PROVE  RunningIsInHand' /\ AckIsLate'
  BY <1>5 DEF SettledInv, RunningIsInHand, AckIsLate, Begun, InHand, Executing, TaskOf
<1>6. ASSUME NEW w \in Workers, Signal(w) PROVE RunningIsInHand' /\ AckIsLate'
  BY <1>5, <1>6 DEF Signal, queueVars
<1>7. ASSUME NEW m \in Messages, Redeliver(m) \/ ExpireTooEarly(m)
      PROVE  RunningIsInHand' /\ AckIsLate'
  BY <1>5, <1>7 DEF Redeliver, ExpireTooEarly, ExpireLease, SettledInv, QuietInv, TypeOK
<1>8. CASE UNCHANGED vars
  BY <1>1, <1>5, <1>8 DEF vars, SettledInv
<1>9. \A w \in Workers : ~ Crash(w)
  BY DEF NobodyIsKilled, Crash, Disturb
<1> QED
  BY <1>1, <1>3, <1>4, <1>6, <1>7, <1>8, <1>9 DEF Next, Step, SettledInv

\* If the database answers and no process is killed, an acknowledged message
\* is never the only trace of unfinished work.
THEOREM AckedIsSettledHolds == DatabaseAnswers /\ NobodyIsKilled => (Spec => []AckedIsSettled)
<1> SUFFICES ASSUME DatabaseAnswers, NobodyIsKilled PROVE Spec => []AckedIsSettled
  OBVIOUS
<1>1. SettledInv /\ [Next]_vars => SettledInv'
  BY SettledStep
<1>2. SettledInv => AckedIsSettled
  <2> SUFFICES ASSUME SettledInv, NEW m \in Messages, delivery[m] = "acked", Payload[m] \in Tasks,
                      ~ Settled(Payload[m])
               PROVE  \E w \in Workers : InHand(w) /\ TaskOf(w) = Payload[m]
    BY DEF AckedIsSettled, InHand
  <2>1. PICK t \in Tasks : t = Payload[m]
    OBVIOUS
  <2>2. row[t].status = "running"
    BY <2>1 DEF SettledInv, AckIsLate, Begun, Settled, QuietInv, TypeOK, Row
  <2> QED
    BY <2>1, <2>2 DEF SettledInv, RunningIsInHand
<1> QED
  BY <1>1, <1>2, SettledInit, PTL DEF Spec

-----------------------------------------------------------------------------
(***************************************************************************)
(* While nobody is killed and Pub/Sub answers: no lease is left behind,    *)
(* whatever the database does.                                             *)
(***************************************************************************)
LeaseInv ==
    /\ \A m \in Messages : delivery[m] = "leased" =>
           holder[m] \in Workers /\ m \in pending[holder[m]]
    /\ \A w \in Workers : pc[w] \in {"Pull", "Close", "Down"} => pending[w] = {}

LEMMA LeaseInit == Init => LeaseInv
BY DEF Init, LeaseInv

LEMMA LeaseWork ==
    ASSUME TypeOK, LeaseInv, NEW w \in Workers, Prepare(w) \/ Execute(w)
    PROVE  LeaseInv'
<1>1. UNCHANGED <<delivery, holder, pending>>
  BY DEF Prepare, Execute, ClaimWins, ClaimLoses, ClaimRejected, ClaimDisconnected,
     PrepareFailed, Dispatch, HandlerReturns, HandlerRaisesTransient, HandlerRaises,
     CallHandler, Backoff, Finish, Report, queueVars
<1>2. \E to \in PCs \ {"Pull", "Close", "Down"} : pc' = [pc EXCEPT ![w] = to]
  <2>1. CASE Prepare(w)
    BY <2>1 DEF Prepare, ClaimWins, ClaimLoses, ClaimRejected, ClaimDisconnected, PrepareFailed,
       UpdateTaskEvent, Goto
  <2>2. CASE Execute(w)
    BY <2>2 DEF Execute, Dispatch, HandlerReturns, HandlerRaisesTransient, HandlerRaises, Backoff,
       Finish, Report, UpdateTaskEvent, Goto
  <2> QED
    BY <2>1, <2>2
<1> QED
  BY <1>1, <1>2 DEF LeaseInv, TypeOK

LEMMA LeaseConsume ==
    ASSUME TypeOK, LeaseInv, PubSubAnswers, NEW w \in Workers, Consume(w)
    PROVE  LeaseInv'
<1> USE DEF LeaseInv, TypeOK, Goto, queueVars
<1>1. CASE Pull(w)
  <2>1. PICK batch \in SUBSET Ready :
            /\ delivery' = [m \in Messages |-> IF m \in batch THEN "leased" ELSE delivery[m]]
            /\ holder' = [m \in Messages |-> IF m \in batch THEN w ELSE holder[m]]
            /\ pending' = [pending EXCEPT ![w] = batch]
    BY <1>1 DEF Pull
  <2>2. pending[w] = {} /\ pc' = [pc EXCEPT ![w] = "Batch"]
    BY <1>1 DEF Pull
  <2> QED
    BY <2>1, <2>2
<1>2. CASE NextMessage(w)
  BY <1>2 DEF NextMessage
<1>3. CASE BatchDone(w)
  BY <1>3 DEF BatchDone
<1>4. CASE LeaveLoop(w)
  BY <1>4 DEF LeaveLoop
<1>5. CASE ReturnBatch(w)
  BY <1>5 DEF ReturnBatch, Returned
<1> QED
  BY <1>1, <1>2, <1>3, <1>4, <1>5 DEF Consume, ReturnFails, Disturb, PubSubAnswers

LEMMA LeaseLeave ==
    ASSUME TypeOK, LeaseInv, PubSubAnswers, NEW w \in Workers, Leave(w)
    PROVE  LeaseInv'
<1> USE DEF LeaseInv, TypeOK, Goto, queueVars
<1>1. CASE Ack(w)
  BY <1>1 DEF Ack, MarkAcked
<1>2. CASE Close(w)
  BY <1>2 DEF Close, Gone
<1>3. CASE Restart(w)
  BY <1>3 DEF Restart
<1> QED
  BY <1>1, <1>2, <1>3 DEF Leave, AckFails, Disturb, PubSubAnswers

LEMMA LeaseStep ==
    NobodyIsKilled /\ PubSubAnswers /\ TypeOK /\ LeaseInv /\ [Next]_vars => LeaseInv'
<1> SUFFICES ASSUME NobodyIsKilled, PubSubAnswers, TypeOK, LeaseInv, [Next]_vars PROVE LeaseInv'
  OBVIOUS
<1>1. ASSUME NEW w \in Workers, Signal(w) PROVE LeaseInv'
  BY <1>1 DEF Signal, queueVars, LeaseInv
<1>2. ASSUME NEW m \in Messages, Redeliver(m) \/ ExpireTooEarly(m) PROVE LeaseInv'
  BY <1>2 DEF Redeliver, ExpireTooEarly, ExpireLease, LeaseInv, TypeOK
<1>3. CASE UNCHANGED vars
  BY <1>3 DEF vars, LeaseInv
<1>4. \A w \in Workers : ~ Crash(w)
  BY DEF NobodyIsKilled, Crash, Disturb
<1> QED
  BY <1>1, <1>2, <1>3, <1>4, LeaseWork, LeaseConsume, LeaseLeave DEF Next, Step

\* If no process is killed and Pub/Sub answers, a worker that has stopped holds
\* no message: signals, slow handlers and database faults do not matter.
THEOREM NoLeaseLeftBehindHolds ==
    NobodyIsKilled /\ PubSubAnswers => (Spec => []NoLeaseLeftBehind)
<1> SUFFICES ASSUME NobodyIsKilled, PubSubAnswers PROVE Spec => []NoLeaseLeftBehind
  OBVIOUS
<1>1. TypeOK /\ LeaseInv /\ [Next]_vars => (TypeOK /\ LeaseInv)'
  BY TypeStep, LeaseStep
<1>2. LeaseInv => NoLeaseLeftBehind
  BY DEF LeaseInv, NoLeaseLeftBehind
<1>3. Init => TypeOK /\ LeaseInv
  BY TypeInit, LeaseInit
<1> QED
  BY <1>1, <1>2, <1>3, PTL DEF Spec
================================================================================
