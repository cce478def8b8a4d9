------------------------- MODULE WorkerProcessProofs -------------------------
(***************************************************************************)
(* The connections of one worker process, proved for every size of the     *)
(* pool, every number of retries and every choice of disturbances.         *)
(***************************************************************************)
EXTENDS WorkerProcess, TLAPS, FiniteSetTheorems

\* What is in the pool is open, and the manager knows what is open.
PoolIsOpen == pool \subseteq open /\ open \subseteq managed

\* The assembly gives the connections out in its order, and keeps the sink's
\* until the teardown.
HandedOut ==
    /\ pc \in {"Boot", "FillPool", "OpenPostgres", "BuildMerger"} => merger = NoConn
    /\ pc \in BootSteps \ {"BuildConsumer"} => sink = NoConn
    /\ pc = "BuildConsumer" => sink \in open

\* What the teardown has done so far.
TornDown == pc = "ClosePostgres" => open = {}

\* A connection is only given up with an attempt left.
RetryLeft == pc = "Renew" => attempt < MaxRetries

\* An attempt works on a cursor of the merger's present connection, which is
\* open until the attempt is given up.
CursorIsMergers ==
    pc \in {"Merge", "MergeRefresh", "MergeAgain"} => cursor = merger /\ merger \in open

Inv ==
    /\ TypeOK
    /\ PoolIsOpen
    /\ HandedOut
    /\ TornDown
    /\ RetryLeft
    /\ NoneShared
    /\ SinkStaysUsable
    /\ CursorIsMergers

-----------------------------------------------------------------------------
\* A connection that get_conn gives out is nobody else's, and open.
LEMMA GetConnGivesOwn ==
    ASSUME Inv, NEW c \in Conns, GetConn(c)
    PROVE  /\ c \notin {merger, sink} /\ c \notin pool' /\ c \in open'
           /\ pool' \subseteq pool /\ open \subseteq open'
           /\ pool' \subseteq open' /\ open' \subseteq managed'
           /\ managed' \subseteq Conns /\ stale' = stale
  BY DEF GetConn, Create, Fresh, Inv, TypeOK, PoolIsOpen, NoneShared

LEMMA InitInv == Init => Inv
  <1> SUFFICES ASSUME Init PROVE Inv
    OBVIOUS
  <1>1. TypeOK
    <2>1. pc \in PCs
      BY DEF Init, PCs, BootSteps
    <2>2. /\ pool \subseteq Conns /\ managed \subseteq Conns /\ open \subseteq Conns
          /\ stale \subseteq open
      BY DEF Init
    <2>3. attempt \in 0 .. MaxRetries
      BY SizeAssumption DEF Init
    <2>4. merger \in Conns \cup {NoConn} /\ sink \in Conns \cup {NoConn}
      BY DEF Init
    <2> QED
      BY <2>1, <2>2, <2>3, <2>4 DEF Init, TypeOK
  <1>2. NoneShared
    BY DEF Init, NoneShared
  <1>3. PoolIsOpen /\ HandedOut /\ TornDown /\ RetryLeft
    BY DEF Init, PoolIsOpen, HandedOut, TornDown, RetryLeft, BootSteps
  <1>4. SinkStaysUsable /\ CursorIsMergers
    BY DEF Init, SinkStaysUsable, CursorIsMergers, Serving, TaskSteps
  <1> QED
    BY <1>1, <1>2, <1>3, <1>4 DEF Inv

\* The assembly: connections are made, put into the pool and given out.
LEMMA BootstrapStep == Inv /\ Bootstrap => Inv'
  <1> SUFFICES ASSUME Inv, Bootstrap PROVE Inv'
    OBVIOUS
  <1> USE NoConnAssumption DEF TypeOK, PCs, BootSteps, TaskSteps, Serving, world
  <1>1. CASE Register \/ OpenPostgres \/ BuildConsumer \/ BootFails
    BY <1>1
    DEF Bootstrap, Register, OpenPostgres, BuildConsumer, BootFails, duck, Inv, PoolIsOpen,
        HandedOut, TornDown, RetryLeft, NoneShared, SinkStaysUsable, CursorIsMergers
  <1>2. CASE FillPool
    <2>1. CASE UNCHANGED duck
      BY <1>2, <2>1
      DEF Bootstrap, FillPool, duck, Inv, PoolIsOpen, HandedOut, TornDown, RetryLeft, NoneShared,
          SinkStaysUsable, CursorIsMergers
    <2>2. CASE \E c \in Conns : Create(c) /\ pool' = pool \cup {c} /\ UNCHANGED pc
      BY <1>2, <2>2
      DEF Bootstrap, FillPool, Create, Fresh, Inv, PoolIsOpen, HandedOut, TornDown, RetryLeft,
          NoneShared, SinkStaysUsable, CursorIsMergers
    <2> QED
      BY <1>2, <2>1, <2>2 DEF FillPool
  <1>3. CASE BuildMerger
    <2>1. PICK c \in Conns : GetConn(c) /\ merger' = c
      BY <1>3 DEF BuildMerger
    <2> QED
      BY <1>3, <2>1, GetConnGivesOwn
      DEF Bootstrap, BuildMerger, Inv, PoolIsOpen, HandedOut, TornDown, RetryLeft, NoneShared,
          SinkStaysUsable, CursorIsMergers
  <1>4. CASE BuildSink
    <2>1. PICK c \in Conns : GetConn(c) /\ sink' = c
      BY <1>4 DEF BuildSink
    <2> QED
      BY <1>4, <2>1, GetConnGivesOwn
      DEF Bootstrap, BuildSink, Inv, PoolIsOpen, HandedOut, TornDown, RetryLeft, NoneShared,
          SinkStaysUsable, CursorIsMergers
  <1> QED
    BY <1>1, <1>2, <1>3, <1>4 DEF Bootstrap

\* The tasks: the merger's connection is thrown away and replaced, never the
\* sink's.
LEMMA WorkStep == Inv /\ Work => Inv'
  <1> SUFFICES ASSUME Inv, Work PROVE Inv'
    OBVIOUS
  <1> USE NoConnAssumption, SizeAssumption DEF TypeOK, PCs, BootSteps, TaskSteps, Serving, world
  <1>1. CASE StartTask \/ LeaveLoop \/ Write \/ WriteAgain \/ StartAttempt \/ NoAttempt \/ MergeEnds
             \/ MergeUnauthorized \/ RenewFails
    BY <1>1
    DEF Work, StartTask, LeaveLoop, Write, WriteAgain, StartAttempt, NoAttempt, MergeEnds,
        MergeUnauthorized, RenewFails,
        Succeeds, AuthError, duck, Inv, PoolIsOpen, HandedOut, TornDown, RetryLeft, NoneShared,
        SinkStaysUsable, CursorIsMergers
  <1>2. CASE WriteRefresh \/ MergeRefresh
    BY <1>2
    DEF Work, WriteRefresh, MergeRefresh, Refresh, Inv, PoolIsOpen, HandedOut, TornDown, RetryLeft,
        NoneShared, SinkStaysUsable, CursorIsMergers
  <1>3. CASE Drop
    BY <1>3
    DEF Work, Drop, Discard, Inv, PoolIsOpen, HandedOut, TornDown, RetryLeft, NoneShared,
        SinkStaysUsable, CursorIsMergers
  <1>4. CASE Renew
    <2>1. PICK c \in Conns : GetConn(c) /\ merger' = c
      BY <1>4 DEF Renew
    <2> QED
      BY <1>4, <2>1, GetConnGivesOwn
      DEF Work, Renew, Inv, PoolIsOpen, HandedOut, TornDown, RetryLeft, NoneShared, SinkStaysUsable,
          CursorIsMergers
  <1> QED
    BY <1>1, <1>2, <1>3, <1>4 DEF Work

\* The teardown, the restart and the world around the process.
LEMMA OutsideStep ==
    Inv /\ (Teardown \/ Restart \/ Signal \/ KeyFileMoves \/ \E c \in Conns : Expire(c)) => Inv'
  <1> SUFFICES ASSUME Inv,
                      Teardown \/ Restart \/ Signal \/ KeyFileMoves \/ \E c \in Conns : Expire(c)
               PROVE  Inv'
    OBVIOUS
  <1> USE NoConnAssumption, SizeAssumption DEF TypeOK, PCs, BootSteps, TaskSteps, Serving, world
  <1>1. CASE Teardown
    BY <1>1
    DEF Teardown, CloseConsumer, CloseDuck, ClosePostgres, duck, Inv, PoolIsOpen, HandedOut,
        TornDown, RetryLeft, NoneShared, SinkStaysUsable, CursorIsMergers
  <1>2. CASE Restart
    <2>1. TypeOK'
      <3>1. /\ pool' \subseteq Conns /\ managed' \subseteq Conns /\ open' \subseteq Conns
            /\ stale' \subseteq open'
        BY <1>2 DEF Restart
      <3>2. attempt' \in 0 .. MaxRetries
        BY <1>2 DEF Restart
      <3> QED
        BY <1>2, <3>1, <3>2 DEF Restart, Inv
    <2>2. NoneShared'
      BY <1>2 DEF Restart, NoneShared
    <2>3. (PoolIsOpen /\ HandedOut /\ TornDown)'
      BY <1>2 DEF Restart, PoolIsOpen, HandedOut, TornDown
    <2>4. (RetryLeft /\ SinkStaysUsable /\ CursorIsMergers)'
      BY <1>2 DEF Restart, RetryLeft, SinkStaysUsable, CursorIsMergers
    <2> QED
      BY <2>1, <2>2, <2>3, <2>4 DEF Inv
  <1>3. CASE Signal \/ KeyFileMoves
    <2>1. NoneShared'
      BY <1>3 DEF Signal, KeyFileMoves, duck, Inv, NoneShared
    <2>4. TypeOK'
      <3>1. CASE Signal
        BY <3>1 DEF Signal, duck, Inv
      <3>2. CASE KeyFileMoves
        BY <3>2 DEF KeyFileMoves, duck, Inv
      <3> QED
        BY <1>3, <3>1, <3>2
    <2>2. (PoolIsOpen /\ HandedOut /\ TornDown)'
      BY <1>3 DEF Signal, KeyFileMoves, duck, Inv, PoolIsOpen, HandedOut, TornDown
    <2>3. (RetryLeft /\ SinkStaysUsable /\ CursorIsMergers)'
      BY <1>3
      DEF Signal, KeyFileMoves, duck, Inv, RetryLeft, SinkStaysUsable, CursorIsMergers
    <2> QED
      BY <2>1, <2>2, <2>3, <2>4 DEF Inv
  <1>4. CASE \E c \in Conns : Expire(c)
    BY <1>4
    DEF Expire, Inv, PoolIsOpen, HandedOut, TornDown, RetryLeft, NoneShared, SinkStaysUsable,
        CursorIsMergers
  <1> QED
    BY <1>1, <1>2, <1>3, <1>4

LEMMA StutterStep == Inv /\ UNCHANGED vars => Inv'
  BY DEF vars, duck, world, Inv, TypeOK, PoolIsOpen, HandedOut, TornDown, RetryLeft, NoneShared,
         SinkStaysUsable, CursorIsMergers, Serving

LEMMA NextInv == Inv /\ [Next]_vars => Inv'
  BY BootstrapStep, WorkStep, OutsideStep, StutterStep DEF Next

LEMMA InvHolds == Spec => []Inv
  BY InitInv, NextInv, PTL DEF Spec

-----------------------------------------------------------------------------
\* The types hold in every reachable state.
THEOREM TypeCorrect == Spec => []TypeOK
  <1>1. Inv => TypeOK
    BY DEF Inv
  <1> QED
    BY <1>1, InvHolds, PTL

\* No two users of a DuckDB connection: neither the sink and the merger, nor
\* one of them and the pool, however often the merger replaces its own
\* (DuckDBManager.get_conn, return_and_delete).
THEOREM NoneSharedHolds == Spec => []NoneShared
  <1>1. Inv => NoneShared
    BY DEF Inv
  <1> QED
    BY <1>1, InvHolds, PTL

\* The sink's connection is open as long as the process serves tasks.
THEOREM SinkStaysUsableHolds == Spec => []SinkStaysUsable
  <1>1. Inv => SinkStaysUsable
    BY DEF Inv
  <1> QED
    BY <1>1, InvHolds, PTL

\* with_gcs_auth_retry repeats an operation on the connection that got the new
\* token, however many connections merge_single has used up before.
THEOREM RepetitionIsRenewedHolds == Spec => RepetitionIsRenewed
  <1> DEFINE Renewed ==
        /\ pc = "WriteRefresh" /\ pc' = "WriteAgain" => sink' \in open' \ stale'
        /\ pc = "MergeRefresh" /\ pc' = "MergeAgain" => cursor' \in open' \ stale'
  <1>1. Inv /\ [Next]_vars => [Renewed]_vars
    <2> SUFFICES ASSUME Inv, Next PROVE Renewed
      BY DEF vars
    <2>1. ASSUME pc = "WriteRefresh", pc' = "WriteAgain"
          PROVE  sink' \in open' \ stale'
      <3>1. WriteRefresh
        BY <2>1
        DEF Next, Bootstrap, Register, FillPool, OpenPostgres, BuildMerger, BuildSink,
            BuildConsumer, BootFails, Work, StartTask, LeaveLoop, Write, WriteAgain, StartAttempt,
            NoAttempt, MergeEnds, MergeUnauthorized, MergeRefresh, Drop, Renew, RenewFails,
            Teardown, CloseConsumer, CloseDuck, ClosePostgres, Restart, Signal, KeyFileMoves,
            Expire
      <3> QED
        BY <2>1, <3>1 DEF WriteRefresh, Refresh, Inv, SinkStaysUsable, Serving, TaskSteps
    <2>2. ASSUME pc = "MergeRefresh", pc' = "MergeAgain"
          PROVE  cursor' \in open' \ stale'
      <3>1. MergeRefresh
        BY <2>2
        DEF Next, Bootstrap, Register, FillPool, OpenPostgres, BuildMerger, BuildSink,
            BuildConsumer, BootFails, Work, StartTask, LeaveLoop, Write, WriteRefresh, WriteAgain,
            StartAttempt, NoAttempt, MergeEnds, MergeUnauthorized, Drop, Renew, RenewFails,
            Teardown, CloseConsumer, CloseDuck, ClosePostgres, Restart, Signal, KeyFileMoves,
            Expire
      <3> QED
        BY <2>2, <3>1 DEF MergeRefresh, Refresh, Inv, CursorIsMergers
    <2> QED
      BY <2>1, <2>2
  <1> QED
    BY <1>1, InvHolds, PTL DEF Spec, RepetitionIsRenewed

\* A teardown closes every DuckDB connection that was ever handed out, in the
\* pool or not.
THEOREM TeardownClosesAllHolds == Spec => TeardownClosesAll
  <1>1. Inv /\ [Next]_vars => [pc = "ClosePostgres" /\ pc' = "Exited" => open' = {}]_vars
    <2> SUFFICES ASSUME Inv, Next, pc = "ClosePostgres", pc' = "Exited"
                 PROVE  open' = {}
      BY DEF vars
    <2>1. ClosePostgres
      BY DEF Next, Bootstrap, Register, FillPool, OpenPostgres, BuildMerger, BuildSink,
             BuildConsumer, BootFails, BootSteps, Work, StartTask, LeaveLoop, Write,
             WriteRefresh, WriteAgain, StartAttempt, NoAttempt, MergeEnds, MergeUnauthorized,
             MergeRefresh, Drop, Renew, RenewFails, Teardown, CloseConsumer, CloseDuck, Restart,
             Signal, KeyFileMoves, Expire
    <2> QED
      BY <2>1 DEF ClosePostgres, duck, Inv, TornDown
  <1> QED
    BY <1>1, InvHolds, PTL DEF Spec, TeardownClosesAll

-----------------------------------------------------------------------------
\* Who has the open connections: outside of the pool only the merger and the
\* sink, and the merger has none between giving one up and getting another.
AllAccountedFor ==
    /\ open \subseteq pool \cup {merger, sink}
    /\ pc = "Renew" => merger \notin open
    /\ pc = "Boot" => open = {}

\* That alone says nothing of their number while the pool is filled, nor once
\* it is: the bound is part of the invariant.
Few == IsFiniteSet(open) /\ ConnectionsBounded

BoundInv == Inv /\ AllAccountedFor /\ Few

\* Two users have at most two connections.
LEMMA TwoAtMost ==
    ASSUME NEW a, NEW b, NEW S \in SUBSET {a, b}
    PROVE  IsFiniteSet(S) /\ Cardinality(S) <= 2
  <1>1. IsFiniteSet({a}) /\ Cardinality({a}) = 1
    BY FS_Singleton
  <1>2. /\ IsFiniteSet({a} \cup {b})
        /\ Cardinality({a} \cup {b}) <= 2
    <2>1. /\ IsFiniteSet({a} \cup {b})
          /\ Cardinality({a} \cup {b}) =
               IF b \in {a} THEN Cardinality({a}) ELSE Cardinality({a}) + 1
      BY <1>1, FS_AddElement, Zenon
    <2> QED
      BY <1>1, <2>1
  <1>3. S \in SUBSET ({a} \cup {b})
    OBVIOUS
  <1>4. IsFiniteSet(S) /\ Cardinality(S) <= Cardinality({a} \cup {b})
    BY <1>2, <1>3, FS_Subset
  <1>5. Cardinality(S) \in Nat /\ Cardinality({a} \cup {b}) \in Nat
    BY <1>2, <1>4, FS_CardinalityType
  <1> QED
    BY <1>2, <1>4, <1>5

\* Closing connections, or leaving them alone, keeps them few.
LEMMA FewerStayFew == Few /\ open' \subseteq open => Few'
  <1> SUFFICES ASSUME Few, open' \subseteq open PROVE Few'
    OBVIOUS
  <1>1. IsFiniteSet(open') /\ Cardinality(open') <= Cardinality(open)
    BY FS_Subset DEF Few
  <1>2. Cardinality(open') \in Nat /\ Cardinality(open) \in Nat
    BY <1>1, FS_CardinalityType DEF Few
  <1> QED
    BY <1>1, <1>2, SizeAssumption DEF Few, ConnectionsBounded

\* A connection is only made for somebody when the pool is empty: then the
\* open ones are those of the two users.
LEMMA GetConnBounded ==
    ASSUME BoundInv, NEW c \in Conns, GetConn(c), NEW other, open \subseteq pool \cup {other}
    PROVE  open' \subseteq pool' \cup {c, other} /\ Few'
  <1>1. open' \subseteq pool' \cup {c, other}
    BY DEF GetConn, Create
  <1>2. CASE pool = {} /\ Create(c)
    <2>1. open' \in SUBSET {c, other}
      BY <1>2 DEF Create
    <2>2. IsFiniteSet(open') /\ Cardinality(open') <= 2
      BY <2>1, TwoAtMost
    <2>3. Cardinality(open') \in Nat
      BY <2>2, FS_CardinalityType
    <2> QED
      BY <1>1, <2>2, <2>3, SizeAssumption DEF Few, ConnectionsBounded
  <1>3. CASE UNCHANGED open
    BY <1>1, <1>3, FewerStayFew DEF BoundInv
  <1> QED
    BY <1>2, <1>3 DEF GetConn

LEMMA BoundInit == Init => BoundInv
  <1> SUFFICES ASSUME Init PROVE AllAccountedFor /\ Few
    BY InitInv DEF BoundInv
  <1>1. AllAccountedFor
    BY DEF Init, AllAccountedFor
  <1>2. Few
    BY FS_EmptySet, SizeAssumption DEF Init, Few, ConnectionsBounded
  <1> QED
    BY <1>1, <1>2

\* The pool is filled up to its size and no further.
LEMMA FillPoolBounded == BoundInv /\ FillPool => (AllAccountedFor /\ Few)'
  <1> SUFFICES ASSUME BoundInv, FillPool PROVE (AllAccountedFor /\ Few)'
    OBVIOUS
  <1>1. CASE UNCHANGED duck
    BY <1>1, FewerStayFew DEF FillPool, duck, BoundInv, AllAccountedFor
  <1>2. CASE Cardinality(pool) < PoolSize /\ \E c \in Conns : Create(c) /\ pool' = pool \cup {c}
    <2>1. PICK c \in Conns : Create(c) /\ pool' = pool \cup {c}
      BY <1>2
    <2>2. open = pool
      BY NoConnAssumption
      DEF FillPool, BoundInv, AllAccountedFor, Inv, TypeOK, PoolIsOpen, HandedOut, BootSteps
    <2>3. open' = open \cup {c}
      BY <2>1 DEF Create
    <2>4. /\ IsFiniteSet(open) /\ IsFiniteSet(open')
          /\ Cardinality(open') =
               IF c \in open THEN Cardinality(open) ELSE Cardinality(open) + 1
      BY <2>3, FS_AddElement, Zenon DEF BoundInv, Few
    <2>5. Cardinality(open) \in Nat /\ Cardinality(open') \in Nat
      BY <2>4, FS_CardinalityType
    <2>6. Few'
      BY <1>2, <2>2, <2>4, <2>5, SizeAssumption DEF Few, ConnectionsBounded
    <2> QED
      BY <2>1, <2>2, <2>3, <2>6, <1>2 DEF FillPool, AllAccountedFor
  <1> QED
    BY <1>1, <1>2 DEF FillPool

LEMMA BootstrapBounded == BoundInv /\ Bootstrap => (AllAccountedFor /\ Few)'
  <1> SUFFICES ASSUME BoundInv, Bootstrap PROVE (AllAccountedFor /\ Few)'
    OBVIOUS
  <1>1. CASE Register \/ OpenPostgres \/ BuildConsumer \/ BootFails
    BY <1>1, FewerStayFew
    DEF Register, OpenPostgres, BuildConsumer, BootFails, duck, BoundInv, AllAccountedFor
  <1>2. CASE FillPool
    BY <1>2, FillPoolBounded
  <1>3. CASE BuildMerger
    <2>1. PICK c \in Conns : GetConn(c) /\ merger' = c
      BY <1>3 DEF BuildMerger
    <2>2. open \subseteq pool \cup {sink}
      BY <1>3, NoConnAssumption
      DEF BuildMerger, BoundInv, AllAccountedFor, Inv, TypeOK, HandedOut
    <2> QED
      BY <1>3, <2>1, <2>2, GetConnBounded DEF BuildMerger, AllAccountedFor
  <1>4. CASE BuildSink
    <2>1. PICK c \in Conns : GetConn(c) /\ sink' = c
      BY <1>4 DEF BuildSink
    <2>2. open \subseteq pool \cup {merger}
      BY <1>4, NoConnAssumption
      DEF BuildSink, BoundInv, AllAccountedFor, Inv, TypeOK, HandedOut, BootSteps
    <2> QED
      BY <1>4, <2>1, <2>2, GetConnBounded DEF BuildSink, AllAccountedFor
  <1> QED
    BY <1>1, <1>2, <1>3, <1>4 DEF Bootstrap

LEMMA WorkBounded == BoundInv /\ Work => (AllAccountedFor /\ Few)'
  <1> SUFFICES ASSUME BoundInv, Work PROVE (AllAccountedFor /\ Few)'
    OBVIOUS
  <1>1. CASE StartTask \/ LeaveLoop \/ Write \/ WriteAgain \/ StartAttempt \/ NoAttempt \/ MergeEnds
             \/ MergeUnauthorized \/ RenewFails
    BY <1>1, FewerStayFew
    DEF StartTask, LeaveLoop, Write, WriteAgain, StartAttempt, NoAttempt, MergeEnds,
        MergeUnauthorized, RenewFails, duck,
        BoundInv, AllAccountedFor
  <1>2. CASE WriteRefresh \/ MergeRefresh
    BY <1>2, FewerStayFew
    DEF WriteRefresh, MergeRefresh, BoundInv, AllAccountedFor
  <1>3. CASE Drop
    BY <1>3, FewerStayFew DEF Drop, Discard, BoundInv, AllAccountedFor
  <1>4. CASE Renew
    <2>1. PICK c \in Conns : GetConn(c) /\ merger' = c
      BY <1>4 DEF Renew
    <2>2. open \subseteq pool \cup {sink}
      BY <1>4 DEF Renew, BoundInv, AllAccountedFor
    <2> QED
      BY <1>4, <2>1, <2>2, GetConnBounded DEF Renew, AllAccountedFor
  <1> QED
    BY <1>1, <1>2, <1>3, <1>4 DEF Work

LEMMA OutsideBounded ==
    BoundInv /\ (Teardown \/ Restart \/ Signal \/ KeyFileMoves \/ \E c \in Conns : Expire(c))
        => (AllAccountedFor /\ Few)'
  <1> SUFFICES ASSUME BoundInv,
                      Teardown \/ Restart \/ Signal \/ KeyFileMoves \/ \E c \in Conns : Expire(c)
               PROVE  (AllAccountedFor /\ Few)'
    OBVIOUS
  <1>1. CASE CloseConsumer \/ ClosePostgres
    BY <1>1, FewerStayFew
    DEF CloseConsumer, ClosePostgres, duck, BoundInv, AllAccountedFor
  <1>2. CASE CloseDuck
    BY <1>2, FewerStayFew DEF CloseDuck, BoundInv, AllAccountedFor, Inv, PoolIsOpen
  <1>3. CASE Restart
    BY <1>3, FewerStayFew DEF Restart, BoundInv, AllAccountedFor
  <1>4. CASE Signal \/ KeyFileMoves \/ \E c \in Conns : Expire(c)
    BY <1>4, FewerStayFew DEF Signal, KeyFileMoves, Expire, duck, BoundInv, AllAccountedFor
  <1> QED
    BY <1>1, <1>2, <1>3, <1>4 DEF Teardown

LEMMA NextBound == BoundInv /\ [Next]_vars => BoundInv'
  <1> SUFFICES ASSUME BoundInv, [Next]_vars PROVE (AllAccountedFor /\ Few)'
    BY NextInv DEF BoundInv
  <1>1. CASE UNCHANGED vars
    BY <1>1, FewerStayFew DEF vars, duck, BoundInv, AllAccountedFor
  <1> QED
    BY <1>1, BootstrapBounded, WorkBounded, OutsideBounded DEF Next

\* Replacing connections does not pile them up (DuckDBManager.get_conn,
\* return_and_delete): however often the merger gives up its connection and the
\* assembly fails or starts again, no more are open than the pool was filled
\* with, or than the two users need when it was filled with fewer.
THEOREM ConnectionsBoundedHolds == Spec => []ConnectionsBounded
  <1>1. Spec => []BoundInv
    BY BoundInit, NextBound, PTL DEF Spec
  <1>2. BoundInv => ConnectionsBounded
    BY DEF BoundInv, Few
  <1> QED
    BY <1>1, <1>2, PTL

=============================================================================
