----------------------------- MODULE TaskWorker -----------------------------
(***************************************************************************)
(* The worker fleet: processes that pull task messages from a Pub/Sub      *)
(* subscription, claim the row of task_event a message names, run the      *)
(* task's handler with retries, write the verdict back and acknowledge     *)
(* the message.  One worker is one process with one thread and one         *)
(* PostgreSQL connection; workers meet only in the queue and in the table. *)
(*                                                                         *)
(* Every step between two calls that leave the process (pull, claim,       *)
(* handler, update, acknowledge, nack) is one action, so that a redelivery,*)
(* a signal, a lost connection or the death of the process may fall        *)
(* between any two of them.                                                *)
(***************************************************************************)
EXTENDS Naturals, FiniteSets

CONSTANTS
    Workers, NoWorker,
    Tasks,               \* the rows of task_event
    Messages, NoMessage,
    Payload,             \* Payload[m]: a task, or one of the two below
    Malformed,           \* the data of m is not a TaskMessage
    Unknown,             \* the data of m names no row of task_event
    RowKind,             \* RowKind[t]: can the row be parsed and dispatched
    InitialStage,        \* InitialStage[t]: event_stage as the producer left it
    BatchSize,           \* PubSubConsumerConfig.batch_size
    MaxAttempts,         \* max_retries of TaskCoordinator
    Disturbances,        \* what may go wrong (a subset of the kinds below)
    MaxDisturbances      \* bound: how often something goes wrong

DatabaseFaults == {"statement", "connection", "commit"}
DisturbanceKinds == DatabaseFaults \cup {"ack", "crash", "expire", "signal"}

RowKinds == {"runnable", "unparsable", "unregistered"}

\* Values of EventStage a row of this system can carry, and the column's
\* default, which is not one of them.
EventStages == {"init", "claim", "preprocessing"}
Stages == EventStages \cup {"none"}

ASSUME NoWorkerAssumption == NoWorker \notin Workers
ASSUME NoMessageAssumption == NoMessage \notin Messages
ASSUME NoTaskAssumption == Malformed \notin Tasks /\ Unknown \notin Tasks
ASSUME PayloadAssumption ==
    Payload \in [Messages -> Tasks \cup {Malformed, Unknown}]
ASSUME RowAssumption ==
    /\ RowKind \in [Tasks -> RowKinds]
    /\ InitialStage \in [Tasks -> {"init", "none"}]
ASSUME BoundAssumption ==
    /\ BatchSize \in Nat \ {0}
    /\ MaxAttempts \in Nat \ {0}
    /\ MaxDisturbances \in Nat
ASSUME DisturbanceAssumption == Disturbances \subseteq DisturbanceKinds

VARIABLES
    delivery,   \* Pub/Sub: what became of a message
    holder,     \* Pub/Sub: the worker whose ack_id for a message is current
    row,        \* PostgreSQL: status and event_stage of each task
    pc,         \* where a worker's thread is
    pending,    \* pending_ack_ids of a worker
    job,        \* the message in hand, with the locals of its processing
    conn,       \* state of a worker's PostgreSQL connection
    shutdown,   \* shutdown_event of a worker's process
    owner,      \* history: the worker that claimed a task
    calls,      \* history: how often a task's handler was called
    processed,  \* history: a task's handler returned normally
    budget      \* disturbances still to come (bounds the model)

queueVars == <<delivery, holder>>
history == <<owner, calls, processed>>
vars == <<delivery, holder, row, pc, pending, job, conn, shutdown,
          owner, calls, processed, budget>>

Statuses == {"pending", "running", "completed", "failed"}
Verdicts == {"completed", "failed"}

PCs == {"Down", "Pull", "Batch", "Claim", "PrepareFailed", "Dispatch", "Run",
        "Backoff", "Finish", "Report", "Ack", "Close"}

Row == [status : Statuses, stage : Stages]
Job == [msg : Messages \cup {NoMessage},
        stage : Stages,
        attempt : Nat,
        result : Verdicts]
Idle == [msg |-> NoMessage, stage |-> "none", attempt |-> 0,
         result |-> "completed"]

TypeOK ==
    /\ delivery \in [Messages -> {"ready", "leased", "acked"}]
    /\ holder \in [Messages -> Workers \cup {NoWorker}]
    /\ row \in [Tasks -> Row]
    /\ pc \in [Workers -> PCs]
    /\ pending \in [Workers -> SUBSET Messages]
    /\ job \in [Workers -> Job]
    /\ conn \in [Workers -> {"ok", "aborted", "broken"}]
    /\ shutdown \in [Workers -> BOOLEAN]
    /\ owner \in [Tasks -> Workers \cup {NoWorker}]
    /\ calls \in [Tasks -> Nat]
    /\ processed \in [Tasks -> BOOLEAN]
    /\ budget \in Nat

Init ==
    /\ delivery = [m \in Messages |-> "ready"]
    /\ holder = [m \in Messages |-> NoWorker]
    /\ row = [t \in Tasks |-> [status |-> "pending", stage |-> InitialStage[t]]]
    /\ pc = [w \in Workers |-> "Pull"]
    /\ pending = [w \in Workers |-> {}]
    /\ job = [w \in Workers |-> Idle]
    /\ conn = [w \in Workers |-> "ok"]
    /\ shutdown = [w \in Workers |-> FALSE]
    /\ owner = [t \in Tasks |-> NoWorker]
    /\ calls = [t \in Tasks |-> 0]
    /\ processed = [t \in Tasks |-> FALSE]
    /\ budget = MaxDisturbances

-----------------------------------------------------------------------------
(***************************************************************************)
(* Helpers                                                                 *)
(***************************************************************************)
Goto(w, to) == pc' = [pc EXCEPT ![w] = to]

Disturb(kind) ==
    /\ kind \in Disturbances
    /\ budget > 0
    /\ budget' = budget - 1

TaskOf(w) == Payload[job[w].msg]

\* Where the rest of a message's processing is: between a won claim and the
\* end of _execute_task_event.
Executing(w) == pc[w] \in {"Dispatch", "Run", "Backoff", "Finish", "Report"}

\* Mutant of Written: the columns' values in the wrong order.
MutantWritten(t, status, stage) ==
    [u \in Tasks |-> IF u = t THEN [status |-> stage, stage |-> status]
                              ELSE row[u]]

\* UPDATE task_event SET event_stage, status ... WHERE id = t: any status is
\* overwritten, and an id without a row changes nothing.
Written(t, status, stage) ==
    [u \in Tasks |-> IF u = t THEN [status |-> status, stage |-> stage]
                              ELSE row[u]]

(***************************************************************************)
(* update_task_event: one UPDATE and its commit on w's connection.  An     *)
(* error is raised to the caller without a rollback: a rejected statement  *)
(* leaves the transaction aborted, and every later statement fails until   *)
(* somebody rolls back.  When the connection dies during the commit, the   *)
(* server may have committed.  A dead connection is never replaced.        *)
(***************************************************************************)
UpdateTaskEvent(w, status, stage, onReturn, onRaise) ==
    \/ /\ conn[w] = "ok"
       /\ row' = Written(TaskOf(w), status, stage)
       /\ Goto(w, onReturn)
       /\ UNCHANGED <<conn, budget>>
    \/ /\ conn[w] = "ok"
       /\ Disturb("statement")
       /\ conn' = [conn EXCEPT ![w] = "aborted"]
       /\ Goto(w, onRaise)
       /\ UNCHANGED row
    \/ /\ conn[w] = "ok"
       /\ Disturb("connection")
       /\ conn' = [conn EXCEPT ![w] = "broken"]
       /\ Goto(w, onRaise)
       /\ UNCHANGED row
    \/ /\ conn[w] = "ok"
       /\ Disturb("commit")
       /\ row' = Written(TaskOf(w), status, stage)
       /\ conn' = [conn EXCEPT ![w] = "broken"]
       /\ Goto(w, onRaise)
    \/ /\ conn[w] # "ok"
       /\ Goto(w, onRaise)
       /\ UNCHANGED <<row, conn, budget>>

-----------------------------------------------------------------------------
(***************************************************************************)
(* GCPMessageConsumer.start: pull, and the loop over the batch             *)
(***************************************************************************)
Ready == {m \in Messages : delivery[m] = "ready"}

Pull(w) ==
    /\ pc[w] = "Pull"
    /\ ~shutdown[w]
    /\ \E batch \in SUBSET Ready :
          /\ batch # {}
          /\ Cardinality(batch) <= BatchSize
          /\ delivery' = [m \in Messages |->
                             IF m \in batch THEN "leased" ELSE delivery[m]]
          /\ holder' = [m \in Messages |->
                             IF m \in batch THEN w ELSE holder[m]]
          /\ pending' = [pending EXCEPT ![w] = batch]
    /\ Goto(w, "Batch")
    /\ UNCHANGED <<row, job, conn, shutdown, history, budget>>

\* The subscription delivers a batch in any order.  A message that does not
\* parse is acknowledged without touching the database.
NextMessage(w) ==
    /\ pc[w] = "Batch"
    /\ ~shutdown[w]
    /\ \E m \in pending[w] :
          /\ job' = [job EXCEPT ![w].msg = m]
          /\ Goto(w, IF Payload[m] = Malformed THEN "Ack" ELSE "Claim")
    /\ UNCHANGED <<queueVars, row, pending, conn, shutdown, history, budget>>

BatchDone(w) ==
    /\ pc[w] = "Batch"
    /\ pending[w] = {}
    /\ Goto(w, "Pull")
    /\ UNCHANGED <<queueVars, row, pending, job, conn, shutdown, history, budget>>

\* The messages that modify_ack_deadline(0) makes available again: those of
\* the batch whose ack_id is still current.
Returned(w) == {m \in pending[w] : holder[m] = w /\ delivery[m] = "leased"}

\* Mutants of ReturnBatch: the messages are dropped, not returned; the list is
\* not emptied and the loop not left.
MutantReturnBatchDrops(w) ==
    /\ pc[w] = "Batch"
    /\ shutdown[w]
    /\ pending[w] # {}
    /\ pending' = [pending EXCEPT ![w] = {}]
    /\ Goto(w, "Pull")
    /\ UNCHANGED <<queueVars, row, job, conn, shutdown, history, budget>>

MutantReturnBatchStays(w) ==
    /\ pc[w] = "Batch"
    /\ shutdown[w]
    /\ pending[w] # {}
    /\ delivery' = [m \in Messages |->
                       IF m \in Returned(w) THEN "ready" ELSE delivery[m]]
    /\ holder' = [m \in Messages |->
                     IF m \in Returned(w) THEN NoWorker ELSE holder[m]]
    /\ UNCHANGED <<row, pc, pending, job, conn, shutdown, history, budget>>

ReturnBatch(w) ==
    /\ pc[w] = "Batch"
    /\ shutdown[w]
    /\ pending[w] # {}
    /\ delivery' = [m \in Messages |->
                       IF m \in Returned(w) THEN "ready" ELSE delivery[m]]
    /\ holder' = [m \in Messages |->
                     IF m \in Returned(w) THEN NoWorker ELSE holder[m]]
    /\ pending' = [pending EXCEPT ![w] = {}]
    /\ Goto(w, "Pull")
    /\ UNCHANGED <<row, job, conn, shutdown, history, budget>>

ReturnFails(w) ==
    /\ pc[w] = "Batch"
    /\ shutdown[w]
    /\ pending[w] # {}
    /\ Disturb("ack")
    /\ pending' = [pending EXCEPT ![w] = {}]
    /\ Goto(w, "Close")
    /\ UNCHANGED <<queueVars, row, job, conn, shutdown, history>>

LeaveLoop(w) ==
    /\ pc[w] = "Pull"
    /\ shutdown[w]
    /\ Goto(w, "Close")
    /\ UNCHANGED <<queueVars, row, pending, job, conn, shutdown, history, budget>>

-----------------------------------------------------------------------------
(***************************************************************************)
(* GCPMessageConsumer._prepare_task_event and DatabaseRepository.db_claim_ *)
(* task: UPDATE ... WHERE id = t AND status = 'pending' RETURNING *        *)
(***************************************************************************)
\* Mutant of Claimable: WHERE status NOT IN ('completed', 'failed').
MutantClaimable(t) == t \in Tasks /\ row[t].status \notin Verdicts

Claimable(t) == t \in Tasks /\ row[t].status = "pending"

\* The row after the claim's UPDATE: updated_at and status, never the stage.
RowClaimed(t) == [row EXCEPT ![t].status = "running"]

ClaimWins(w) ==
    /\ pc[w] = "Claim"
    /\ conn[w] = "ok"
    /\ Claimable(TaskOf(w))
    /\ row' = RowClaimed(TaskOf(w))
    /\ owner' = [owner EXCEPT ![TaskOf(w)] = w]
    /\ job' = [job EXCEPT ![w].stage = row[TaskOf(w)].stage]
    /\ Goto(w, "Dispatch")
    /\ UNCHANGED <<queueVars, pending, conn, shutdown, calls, processed, budget>>

\* Mutant of ClaimLoses: the early return skips the acknowledgement.
MutantClaimLoses(w) ==
    /\ pc[w] = "Claim"
    /\ conn[w] = "ok"
    /\ ~Claimable(TaskOf(w))
    /\ Goto(w, "Batch")
    /\ UNCHANGED <<queueVars, row, pending, job, conn, shutdown, history, budget>>

\* No row matched: the task is unknown, or somebody claimed it before.
ClaimLoses(w) ==
    /\ pc[w] = "Claim"
    /\ conn[w] = "ok"
    /\ ~Claimable(TaskOf(w))
    /\ Goto(w, "Ack")
    /\ UNCHANGED <<queueVars, row, pending, job, conn, shutdown, history, budget>>

\* The statement fails, in a transaction of its own or in one an earlier
\* update left aborted: db_claim_task rolls back and raises.
ClaimRejected(w) ==
    /\ pc[w] = "Claim"
    /\ \/ conn[w] = "ok" /\ Disturb("statement")
       \/ conn[w] = "aborted" /\ UNCHANGED budget
    /\ conn' = [conn EXCEPT ![w] = "ok"]
    /\ Goto(w, "PrepareFailed")
    /\ UNCHANGED <<queueVars, row, pending, job, shutdown, history>>

\* The connection is lost, possibly after the server committed the claim, or
\* was lost before: the rollback fails too, and that error is raised.
ClaimDisconnected(w) ==
    /\ pc[w] = "Claim"
    /\ \/ conn[w] = "ok" /\ Disturb("connection") /\ UNCHANGED <<row, owner>>
       \/ /\ conn[w] = "ok"
          /\ Claimable(TaskOf(w))
          /\ Disturb("commit")
          /\ row' = RowClaimed(TaskOf(w))
          /\ owner' = [owner EXCEPT ![TaskOf(w)] = w]
       \/ conn[w] = "broken" /\ UNCHANGED <<row, owner, budget>>
    /\ conn' = [conn EXCEPT ![w] = "broken"]
    /\ Goto(w, "PrepareFailed")
    /\ UNCHANGED <<queueVars, pending, job, shutdown, calls, processed>>

\* TaskEventHelper.handle_error swallows whatever its own update raises.
PrepareFailed(w) ==
    /\ pc[w] = "PrepareFailed"
    /\ UpdateTaskEvent(w, "failed", "claim", "Ack", "Ack")
    /\ UNCHANGED <<queueVars, pending, job, shutdown, history>>

-----------------------------------------------------------------------------
(***************************************************************************)
(* _execute_task_event, TaskCoordinatorDispatch and TaskCoordinator        *)
(***************************************************************************)
\* TaskEvent.from_dict refuses the row; no handler is registered for its
\* event_name; or the coordinator starts its first attempt.
Dispatch(w) ==
    /\ pc[w] = "Dispatch"
    /\ Goto(w, CASE RowKind[TaskOf(w)] = "unparsable"   -> "PrepareFailed"
                 [] RowKind[TaskOf(w)] = "unregistered" -> "Report"
                 [] OTHER -> "Run")
    /\ UNCHANGED <<queueVars, row, pending, job, conn, shutdown, history, budget>>

CallHandler(w) ==
    /\ pc[w] = "Run"
    /\ calls' = [calls EXCEPT ![TaskOf(w)] = @ + 1]
    /\ UNCHANGED <<queueVars, row, pending, shutdown, owner>>

HandlerReturns(w) ==
    /\ CallHandler(w)
    /\ conn[w] = "ok"
    /\ processed' = [processed EXCEPT ![TaskOf(w)] = TRUE]
    /\ job' = [job EXCEPT ![w].result = "completed"]
    /\ Goto(w, "Finish")
    /\ UNCHANGED <<conn, budget>>

CanRetry(w) == job[w].attempt < MaxAttempts - 1

\* Mutant of HandlerRaisesTransient: the last attempt falls out of the loop.
MutantHandlerRaisesTransient(w) ==
    /\ CallHandler(w)
    /\ Goto(w, IF CanRetry(w) THEN "Backoff" ELSE "Finish")
    /\ UNCHANGED <<job, conn, processed, budget>>

\* TransientError: back off, or give up at the last attempt.
HandlerRaisesTransient(w) ==
    /\ CallHandler(w)
    /\ \/ /\ CanRetry(w)
          /\ Goto(w, "Backoff")
          /\ UNCHANGED job
       \/ /\ ~CanRetry(w)
          /\ job' = [job EXCEPT ![w].result = "failed"]
          /\ Goto(w, "Finish")
    /\ UNCHANGED <<conn, processed, budget>>

\* Mutants of HandlerRaises: the exception is swallowed, with the verdict or
\* before any verdict.
MutantHandlerRaisesSwallowed(w) ==
    /\ CallHandler(w)
    /\ \/ UNCHANGED <<conn, budget>>
       \/ /\ Disturb("connection")
          /\ conn' = [conn EXCEPT ![w] = "broken"]
    /\ Goto(w, "Finish")
    /\ UNCHANGED <<job, processed>>

MutantHandlerRaisesNoVerdict(w) ==
    /\ CallHandler(w)
    /\ \/ UNCHANGED <<conn, budget>>
       \/ /\ Disturb("connection")
          /\ conn' = [conn EXCEPT ![w] = "broken"]
    /\ Goto(w, "Ack")
    /\ UNCHANGED <<job, processed>>

\* Any other exception leaves the retry loop at once.  The handler shares the
\* worker's connection: it rolls back a statement it saw rejected, but a lost
\* connection stays lost.
HandlerRaises(w) ==
    /\ CallHandler(w)
    /\ \/ UNCHANGED <<conn, budget>>
       \/ /\ Disturb("connection")
          /\ conn' = [conn EXCEPT ![w] = "broken"]
    /\ job' = [job EXCEPT ![w].result = "failed"]
    /\ Goto(w, "Finish")
    /\ UNCHANGED processed

\* Mutant of Backoff: the attempt is not counted.
MutantBackoff(w) ==
    /\ pc[w] = "Backoff"
    /\ Goto(w, "Run")
    /\ UNCHANGED <<queueVars, row, pending, job, conn, shutdown, history, budget>>

\* shutdown_event.wait returns at the timeout or at the signal; in both cases
\* the loop goes on with the next attempt.
Backoff(w) ==
    /\ pc[w] = "Backoff"
    /\ job' = [job EXCEPT ![w].attempt = @ + 1]
    /\ Goto(w, "Run")
    /\ UNCHANGED <<queueVars, row, pending, conn, shutdown, history, budget>>

\* The finally of TaskCoordinator.execute: the verdict, with the handler's
\* stage.  A failed task's exception goes on to _execute_task_event; so does
\* an error of this update.
Finish(w) ==
    /\ pc[w] = "Finish"
    /\ UpdateTaskEvent(w, job[w].result, "preprocessing",
                       IF job[w].result = "completed" THEN "Ack" ELSE "Report",
                       "Report")
    /\ UNCHANGED <<queueVars, pending, job, shutdown, history>>

\* The stage the row had when it was claimed, if it is an EventStage.
ClaimedStage(w) ==
    IF job[w].stage \in EventStages THEN job[w].stage ELSE "claim"

Report(w) ==
    /\ pc[w] = "Report"
    /\ UpdateTaskEvent(w, "failed", ClaimedStage(w), "Ack", "Ack")
    /\ UNCHANGED <<queueVars, pending, job, shutdown, history>>

-----------------------------------------------------------------------------
(***************************************************************************)
(* _process_message's finally, and the end of the process                  *)
(***************************************************************************)
\* An acknowledgement with an expired ack_id may or may not count.
MarkAcked(m, w) ==
    \/ delivery' = [delivery EXCEPT ![m] = "acked"]
    \/ holder[m] # w /\ UNCHANGED delivery

Ack(w) ==
    /\ pc[w] = "Ack"
    /\ MarkAcked(job[w].msg, w)
    /\ pending' = [pending EXCEPT ![w] = @ \ {job[w].msg}]
    /\ job' = [job EXCEPT ![w] = Idle]
    /\ Goto(w, "Batch")
    /\ UNCHANGED <<holder, row, conn, shutdown, history, budget>>

\* An error of acknowledge leaves start: the rest of the batch is not
\* returned.  The server may have recorded the acknowledgement.
AckFails(w) ==
    /\ pc[w] = "Ack"
    /\ Disturb("ack")
    /\ MarkAcked(job[w].msg, w) \/ UNCHANGED delivery
    /\ pending' = [pending EXCEPT ![w] = {}]
    /\ job' = [job EXCEPT ![w] = Idle]
    /\ Goto(w, "Close")
    /\ UNCHANGED <<holder, row, conn, shutdown, history>>

\* The memory of the process is gone; its connection is closed.
Gone(w) ==
    /\ pending' = [pending EXCEPT ![w] = {}]
    /\ job' = [job EXCEPT ![w] = Idle]
    /\ conn' = [conn EXCEPT ![w] = "ok"]
    /\ shutdown' = [shutdown EXCEPT ![w] = FALSE]
    /\ Goto(w, "Down")
    /\ UNCHANGED <<queueVars, row, history>>

\* The finally of start and Application._teardown: the one thread is not
\* inside a task, so that there is nothing to drain.
Close(w) ==
    /\ pc[w] = "Close"
    /\ Gone(w)
    /\ UNCHANGED budget

\* SIGKILL, out of memory, node failure.
Crash(w) ==
    /\ pc[w] # "Down"
    /\ Disturb("crash")
    /\ Gone(w)

\* The Deployment starts a new process with a new connection.
Restart(w) ==
    /\ pc[w] = "Down"
    /\ Goto(w, "Pull")
    /\ UNCHANGED <<queueVars, row, pending, job, conn, shutdown, history, budget>>

\* _signal_handler, at any time.
Signal(w) ==
    /\ pc[w] # "Down"
    /\ ~shutdown[w]
    /\ Disturb("signal")
    /\ shutdown' = [shutdown EXCEPT ![w] = TRUE]
    /\ UNCHANGED <<queueVars, row, pc, pending, job, conn, history>>

-----------------------------------------------------------------------------
(***************************************************************************)
(* Pub/Sub: a lease that is not acknowledged in time is delivered again    *)
(***************************************************************************)
\* The worker m was delivered to is not going to acknowledge it any more.
Abandoned(m) == \A w \in Workers : holder[m] = w => m \notin pending[w]

ExpireLease(m) ==
    /\ delivery[m] = "leased"
    /\ delivery' = [delivery EXCEPT ![m] = "ready"]
    /\ holder' = [holder EXCEPT ![m] = NoWorker]
    /\ UNCHANGED <<row, pc, pending, job, conn, shutdown, history>>

Redeliver(m) ==
    /\ Abandoned(m)
    /\ ExpireLease(m)
    /\ UNCHANGED budget

\* The worker is slower than the acknowledgement deadline.
ExpireTooEarly(m) ==
    /\ ~Abandoned(m)
    /\ Disturb("expire")
    /\ ExpireLease(m)

-----------------------------------------------------------------------------
Consume(w) ==
    \/ Pull(w) \/ NextMessage(w) \/ BatchDone(w) \/ LeaveLoop(w)
    \/ ReturnBatch(w) \/ ReturnFails(w)

Prepare(w) ==
    \/ ClaimWins(w) \/ ClaimLoses(w) \/ ClaimRejected(w)
    \/ ClaimDisconnected(w) \/ PrepareFailed(w)

Execute(w) ==
    \/ Dispatch(w) \/ HandlerReturns(w) \/ HandlerRaisesTransient(w)
    \/ HandlerRaises(w) \/ Backoff(w) \/ Finish(w) \/ Report(w)

Leave(w) == Ack(w) \/ AckFails(w) \/ Close(w) \/ Restart(w)

Step(w) == Consume(w) \/ Prepare(w) \/ Execute(w) \/ Leave(w)

Next ==
    \/ \E w \in Workers : Step(w) \/ Crash(w) \/ Signal(w)
    \/ \E m \in Messages : Redeliver(m) \/ ExpireTooEarly(m)

\* The thread of a live process runs on, the Deployment restarts a process
\* that ended, and Pub/Sub redelivers what nobody acknowledges.
Fairness ==
    /\ \A w \in Workers : WF_vars(Step(w))
    /\ \A m \in Messages : WF_vars(Redeliver(m))

Spec == Init /\ [][Next]_vars /\ Fairness
-----------------------------------------------------------------------------
(***************************************************************************)
(* Properties                                                              *)
(***************************************************************************)
Settled(t) == row[t].status \in Verdicts

\* Whatever is redelivered, and wherever workers die, two workers are never
\* inside the same task at once: the claim is the only lock there is.
MutualExclusion ==
    \A v, w \in Workers :
        (v # w /\ Executing(v) /\ Executing(w)) => TaskOf(v) # TaskOf(w)

\* A task's handler is called at most max_retries times in the task's whole
\* life, over all workers, redeliveries and restarts: the retry loop of
\* TaskCoordinator is the only retry of the system.
CallsBounded == \A t \in Tasks : calls[t] <= MaxAttempts

\* "completed" is only ever written for a task whose handler returned, even
\* when statements and connections fail around it.
CompletedMeansProcessed ==
    \A t \in Tasks : row[t].status = "completed" => processed[t]

\* While the database answers, the verdict tells the truth in both directions.
VerdictMatchesOutcome ==
    \A t \in Tasks :
        Settled(t) => (row[t].status = "completed" <=> processed[t])

\* An acknowledged message is never the only trace of unfinished work: while
\* the database answers and no process is killed, its task has a verdict or a
\* worker is inside it.  (gcp_consumer acknowledges in every case, also a
\* duplicate whose task somebody else still runs.)
AckedIsSettled ==
    \A m \in Messages :
        (delivery[m] = "acked" /\ Payload[m] \in Tasks) =>
            \/ Settled(Payload[m])
            \/ \E w \in Workers : Executing(w) /\ TaskOf(w) = Payload[m]
            \/ \E w \in Workers : pc[w] = "PrepareFailed" /\ TaskOf(w) = Payload[m]

\* A worker that was told to stop leaves no message leased to it: what it
\* pulled and did not process is available to the others at once.
NoLeaseLeftBehind ==
    \A m \in Messages :
        delivery[m] = "leased" => holder[m] \in Workers /\ pc[holder[m]] # "Down"

\* Every task with a message gets its verdict.
EventuallySettled ==
    \A m \in Messages :
        Payload[m] \in Tasks => <>(row[Payload[m]].status \in Verdicts)

\* Every message is acknowledged in the end, whatever happens on the way.
EventuallyAcked == \A m \in Messages : <>(delivery[m] = "acked")

\* A signal ends the process, whatever it is doing.
SignalEndsProcess == \A w \in Workers : shutdown[w] ~> pc[w] = "Down"

\* The rows and the history implement the promise of TaskLifecycle: in full
\* while the database answers, and its weaker form whatever goes wrong.
Lifecycle == INSTANCE TaskLifecycle
                WITH status <- [t \in Tasks |-> row[t].status]
KeepsPromise == Lifecycle!Spec
KeepsLenientPromise == Lifecycle!LenientSpec

(***************************************************************************)
(* What comments of the code say, and the code does not do                 *)
(***************************************************************************)
\* core/error/task_error.py:6-14: a repeated delivery of a completed task "is
\* not a real failure, ACK directly"; its verdict should survive it.
CompletedStaysCompleted ==
    [][\A t \in Tasks :
          row[t].status = "completed" => row'[t].status = "completed"]_vars
=============================================================================
