--------------------------- MODULE TaskLifecycle ---------------------------
(***************************************************************************)
(* What the worker fleet promises about one row of task_event, whoever     *)
(* executes it: the row leaves "pending" once, it is "completed" only      *)
(* after its handler returned, and a verdict is never taken back.  The     *)
(* statuses are those of models/task_event.py (TaskEventStatus).           *)
(***************************************************************************)
CONSTANT Tasks

VARIABLES
    status,     \* status[t]: the column task_event.status
    processed   \* processed[t]: the handler of t has returned normally

vars == <<status, processed>>

Statuses == {"pending", "running", "completed", "failed"}

Init ==
    /\ status = [t \in Tasks |-> "pending"]
    /\ processed = [t \in Tasks |-> FALSE]

Becomes(t, s) ==
    /\ status' = [status EXCEPT ![t] = s]
    /\ UNCHANGED processed

Start(t) ==
    /\ status[t] = "pending"
    /\ Becomes(t, "running")

Process(t) ==
    /\ status[t] = "running"
    /\ ~processed[t]
    /\ processed' = [processed EXCEPT ![t] = TRUE]
    /\ UNCHANGED status

Complete(t) ==
    /\ status[t] = "running"
    /\ processed[t]
    /\ Becomes(t, "completed")

GiveUp(t) ==
    /\ status[t] = "running"
    /\ ~processed[t]
    /\ Becomes(t, "failed")

Next == \E t \in Tasks : Start(t) \/ Process(t) \/ Complete(t) \/ GiveUp(t)

Spec == Init /\ [][Next]_vars

-----------------------------------------------------------------------------
(***************************************************************************)
(* What is left of the promise when statements on the database may fail:   *)
(* an error handler may overrule any status with "failed", and the work    *)
(* of a task so overruled may still end, and complete it.                  *)
(***************************************************************************)
Overrule(t) == Becomes(t, "failed")

ProcessOverruled(t) ==
    /\ status[t] # "pending"
    /\ ~processed[t]
    /\ processed' = [processed EXCEPT ![t] = TRUE]
    /\ UNCHANGED status

CompleteOverruled(t) ==
    /\ status[t] # "pending"
    /\ processed[t]
    /\ Becomes(t, "completed")

LenientNext ==
    \/ Next
    \/ \E t \in Tasks :
          Overrule(t) \/ ProcessOverruled(t) \/ CompleteOverruled(t)

LenientSpec == Init /\ [][LenientNext]_vars
=============================================================================
