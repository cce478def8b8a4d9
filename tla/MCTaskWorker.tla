---------------------------- MODULE MCTaskWorker ----------------------------
(***************************************************************************)
(* Instances of TaskWorker for TLC: one task delivered twice (a duplicate  *)
(* publication) beside a second task; and one message of each odd kind.    *)
(***************************************************************************)
EXTENDS TaskWorker, TLC

CONSTANTS t1, t2, m1, m2, m3, m4

TwoPayload == m1 :> t1 @@ m2 :> t2
DuplicatePayload == m1 :> t1 @@ m2 :> t1 @@ m3 :> t2
OddPayload == DuplicatePayload @@ m4 :> Malformed

AllRunnable == [t \in Tasks |-> "runnable"]
OneUnregistered == t1 :> "runnable" @@ t2 :> "unregistered"
OneUnparsable == t1 :> "runnable" @@ t2 :> "unparsable"

BothStages == t1 :> "init" @@ t2 :> "none"
=============================================================================
