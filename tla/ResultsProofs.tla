---------------------------- MODULE ResultsProofs ----------------------------
(***************************************************************************)
(* Where results end up, proved for every number of threads, results and   *)
(* connections, every length of the run and every size of a batch: the     *)
(* rows of process_log first, then the files, the report and test_result.  *)
(***************************************************************************)
EXTENDS Results, TLAPS

Stages == {"save", "append", "write", "upsert", "commit", "batch"}

LogTypes ==
    /\ log \in [Results -> 0 .. Batch]
    /\ pending \in [Workers -> [row : Results \cup {None}, log : 0 .. Batch]]
    /\ pc \in [Workers -> {"Idle"} \cup Stages]
    /\ result \in [Workers -> Results \cup {None}]
    /\ DOMAIN key \subseteq Results
    /\ returned \in [Operations -> SUBSET Results]

\* Rows of process_log wait for a commit only while the batch is inserted.
PendingOnlyInBatch == \A w \in Workers : pc[w] # "batch" => pending[w].log = 0

\* A result has one thread that saves it, and rows only after its batch.
OneSaver == \A v, w \in Workers : v # w /\ result[v] = result[w] => result[v] = None

Unlogged(r) == log[r] = 0 /\ r \notin returned["batch"]

BeginsUnlogged ==
    /\ \A w \in Workers : result[w] \in DOMAIN key \cup {None}
    /\ \A w \in Workers : pc[w] # "Idle" => result[w] # None /\ Unlogged(result[w])
    /\ \A r \in Results \ DOMAIN key : Unlogged(r)

Inv == LogTypes /\ PendingOnlyInBatch /\ OneSaver /\ BeginsUnlogged /\ BatchIsWhole

-----------------------------------------------------------------------------
LEMMA AfterValues ==
    /\ After["save"] = "append" /\ After["append"] = "upsert" /\ After["write"] = "upsert"
    /\ After["upsert"] = "batch" /\ After["commit"] = "batch" /\ After["batch"] = "Idle"
  BY DEF After

LEMMA NoWritesType == NoWrites \in [row : Results \cup {None}, log : {0}]
  BY DEF NoWrites

LEMMA InitInv == Init => Inv
  <1> SUFFICES ASSUME Init PROVE Inv
    OBVIOUS
  <1>1. LogTypes
    BY NumbersAssumption, NoWritesType
    DEF Init, LogTypes, NoWrites, Operations, Empty
  <1>2. PendingOnlyInBatch /\ OneSaver
    BY DEF Init, PendingOnlyInBatch, OneSaver, NoWrites
  <1>3. BeginsUnlogged /\ BatchIsWhole
    BY DEF Init, BeginsUnlogged, Unlogged, BatchIsWhole, Operations
  <1> QED
    BY <1>1, <1>2, <1>3 DEF Inv

\* Every step that only changes what a thread has not committed: it goes from
\* one operation to the next, and its transaction holds a row of test_result
\* or nothing.
LEMMA MovesOn ==
    ASSUME Inv, NEW w \in Workers, NEW to \in Stages,
           pc[w] \notin {"Idle", "batch"}, pc' = [pc EXCEPT ![w] = to],
           NEW writes \in [row : Results \cup {None}, log : {0}],
           pending' = [pending EXCEPT ![w] = writes],
           log' = log, result' = result, key' = key,
           returned' \in [Operations -> SUBSET Results],
           returned'["batch"] = returned["batch"]
    PROVE  Inv'
  <1>1. LogTypes'
    BY NumbersAssumption DEF Inv, LogTypes
  <1>2. PendingOnlyInBatch'
    BY DEF Inv, LogTypes, PendingOnlyInBatch
  <1>3. OneSaver'
    BY DEF Inv, OneSaver
  <1>4. BeginsUnlogged'
    BY DEF Inv, LogTypes, BeginsUnlogged, Unlogged, Stages
  <1>5. BatchIsWhole'
    BY DEF Inv, BatchIsWhole
  <1> QED
    BY <1>1, <1>2, <1>3, <1>4, <1>5 DEF Inv

\* What waits for its commit outside of a batch, put into the form of MovesOn.
LEMMA PendingStays ==
    ASSUME Inv, NEW w \in Workers, pc[w] # "batch"
    PROVE  /\ pending[w] \in [row : Results \cup {None}, log : {0}]
           /\ pending = [pending EXCEPT ![w] = pending[w]]
  BY DEF Inv, LogTypes, PendingOnlyInBatch

\* Operations other than the batch return for results they were called with.
LEMMA OthersReturn ==
    ASSUME Inv, NEW w \in Workers, pc[w] # "Idle", NEW op \in Operations \ {"batch"},
           Returns(w, op) \/ Errs(w)
    PROVE  /\ returned' \in [Operations -> SUBSET Results]
           /\ returned'["batch"] = returned["batch"]
           /\ pc' = [pc EXCEPT ![w] = After[pc[w]]]
  BY DEF Inv, LogTypes, BeginsUnlogged, Returns, Errs, Goto, Operations

\* The files and the report.
LEMMA BucketStep ==
    ASSUME Inv, NEW w \in Workers,
           save_file(w) \/ ReadReport(w) \/ ReadFails(w) \/ WriteReport(w)
    PROVE  Inv'
  <1> USE DEF bucket, database, connection
  <1>1. pc[w] \in {"save", "append", "write"} /\ UNCHANGED <<pending, log, result, key>>
    BY DEF save_file, ReadReport, ReadFails, WriteReport
  <1>2. /\ returned' \in [Operations -> SUBSET Results]
        /\ returned'["batch"] = returned["batch"]
        /\ pc' = [pc EXCEPT ![w] = IF ReadReport(w) THEN "write" ELSE After[pc[w]]]
    <2>1. CASE ReadReport(w)
      BY <2>1 DEF ReadReport, Goto, Inv, LogTypes
    <2>2. CASE ~ ReadReport(w)
      <3>1. \E op \in {"save", "append"} : Returns(w, op) \/ Errs(w)
        BY <2>2 DEF save_file, ReadFails, WriteReport
      <3> QED
        BY <1>1, <2>2, <3>1, OthersReturn DEF Operations
    <2> QED
      BY <2>1, <2>2
  <1>3. (IF ReadReport(w) THEN "write" ELSE After[pc[w]]) \in Stages
    BY <1>1, AfterValues DEF Stages
  <1> QED
    BY <1>1, <1>2, <1>3, PendingStays, MovesOn

-----------------------------------------------------------------------------
\* The row of test_result: its statement and its commit leave the log alone.
LEMMA RowStep ==
    ASSUME Inv, NEW w \in Workers, upsert_test_result(w) \/ UpsertFails(w) \/ CommitRow(w)
    PROVE  Inv'
  <1> USE DEF database
  <1>1. CASE upsert_test_result(w)
    <2> DEFINE writes == [pending[w] EXCEPT !.row = result[w]]
    <2>1. writes \in [row : Results \cup {None}, log : {0}]
      BY <1>1, PendingStays DEF upsert_test_result, Inv, LogTypes
    <2>2. /\ pc[w] = "upsert" /\ pc' = [pc EXCEPT ![w] = "commit"]
          /\ pending' = [pending EXCEPT ![w] = writes]
          /\ UNCHANGED <<log, result, key, returned>>
      BY <1>1 DEF upsert_test_result, execute, Goto, history
    <2> QED
      BY <2>1, <2>2, MovesOn DEF Stages, Inv, LogTypes
  <1>2. CASE UpsertFails(w)
    <2>1. /\ pc[w] = "upsert" /\ pc' = [pc EXCEPT ![w] = "batch"]
          /\ pending' = [pending EXCEPT ![w] = NoWrites]
          /\ UNCHANGED <<log, result, key, returned>>
      BY <1>2, AfterValues DEF UpsertFails, ExecuteFails, Errs, Goto
    <2> QED
      BY <2>1, NoWritesType, MovesOn DEF Stages, Inv, LogTypes
  <1>3. CASE CommitRow(w)
    <2>1. /\ pc[w] = "commit" /\ pending' = [pending EXCEPT ![w] = NoWrites]
          /\ UNCHANGED <<result, key>>
      BY <1>3 DEF CommitRow, commit, CommitFails
    <2>2. log' = log
      <3>1. pending[w].log = 0
        BY <2>1 DEF Inv, PendingOnlyInBatch
      <3>2. Apply(w) => log' = log
        BY <3>1, NumbersAssumption DEF Apply, Inv, LogTypes
      <3> QED
        BY <1>3, <3>2 DEF CommitRow, commit, CommitFails
    <2>3. Returns(w, "upsert") \/ Errs(w)
      BY <1>3 DEF CommitRow
    <2>4. /\ returned' \in [Operations -> SUBSET Results]
          /\ returned'["batch"] = returned["batch"]
          /\ pc' = [pc EXCEPT ![w] = "batch"]
      BY <2>1, <2>3, OthersReturn, AfterValues DEF Operations
    <2> QED
      BY <2>1, <2>2, <2>4, NoWritesType, MovesOn DEF Stages
  <1> QED
    BY <1>1, <1>2, <1>3

\* The pages of the batch.
LEMMA PageStep ==
    ASSUME Inv, NEW w \in Workers, InsertPage(w)
    PROVE  Inv'
  <1> USE DEF InsertPage, execute, database, caller, history
  <1>1. LogTypes'
    BY NumbersAssumption DEF Inv, LogTypes
  <1>2. PendingOnlyInBatch'
    BY DEF Inv, LogTypes, PendingOnlyInBatch
  <1>3. OneSaver' /\ BeginsUnlogged' /\ BatchIsWhole'
    BY DEF Inv, OneSaver, BeginsUnlogged, Unlogged, BatchIsWhole
  <1> QED
    BY <1>1, <1>2, <1>3 DEF Inv

\* The end of a batch: all of its rows, or none, and nothing left to commit.
LEMMA BatchEnds ==
    ASSUME Inv, NEW w \in Workers, pc[w] = "batch", pc' = [pc EXCEPT ![w] = "Idle"],
           pending' = [pending EXCEPT ![w] = NoWrites],
           result' = result, key' = key,
           \/ log' = log /\ returned' = returned
           \/ /\ log' = [log EXCEPT ![result[w]] = Batch]
              /\ \/ returned' = returned
                 \/ returned' = [returned EXCEPT !["batch"] = @ \cup {result[w]}]
    PROVE  Inv'
  <1>1. result[w] \in Results /\ result[w] \in DOMAIN key /\ log[result[w]] = 0
    BY DEF Inv, LogTypes, BeginsUnlogged, Unlogged
  <1>2. LogTypes'
    <2>1. log' \in [Results -> 0 .. Batch] /\ returned' \in [Operations -> SUBSET Results]
      BY <1>1, NumbersAssumption DEF Inv, LogTypes, Operations
    <2>2. pending' \in [Workers -> [row : Results \cup {None}, log : 0 .. Batch]]
      BY NumbersAssumption DEF Inv, LogTypes, NoWrites
    <2> QED
      BY <2>1, <2>2 DEF Inv, LogTypes
  <1>3. PendingOnlyInBatch'
    BY DEF Inv, LogTypes, PendingOnlyInBatch, NoWrites
  <1>4. OneSaver'
    BY DEF Inv, OneSaver
  <1>5. \A r \in Results \ {result[w]} :
            log'[r] = log[r] /\ (r \in returned'["batch"] <=> r \in returned["batch"])
    BY DEF Inv, LogTypes, Operations
  <1>6. BeginsUnlogged'
    <2>1. \A v \in Workers : pc'[v] # "Idle" => v # w /\ pc[v] # "Idle"
      BY DEF Inv, LogTypes
    <2>2. \A v \in Workers \ {w} : result[v] # result[w]
      BY <1>1, NoneAssumption DEF Inv, OneSaver
    <2>3. \A v \in Workers : pc'[v] # "Idle" => result'[v] # None /\ Unlogged(result[v])'
      BY <1>5, <2>1, <2>2 DEF Inv, LogTypes, BeginsUnlogged, Unlogged
    <2>4. \A r \in Results \ DOMAIN key : Unlogged(r)'
      BY <1>1, <1>5 DEF Inv, BeginsUnlogged, Unlogged
    <2> QED
      BY <2>3, <2>4 DEF Inv, BeginsUnlogged
  <1>7. BatchIsWhole'
    BY <1>1, <1>5 DEF Inv, LogTypes, BeginsUnlogged, Unlogged, BatchIsWhole, Operations
  <1> QED
    BY <1>2, <1>3, <1>4, <1>6, <1>7 DEF Inv

LEMMA BatchStep ==
    ASSUME Inv, NEW w \in Workers, InsertFails(w) \/ CommitBatch(w)
    PROVE  Inv'
  <1> USE DEF database
  <1>1. pc[w] = "batch" /\ pending' = [pending EXCEPT ![w] = NoWrites]
        /\ UNCHANGED <<result, key>>
    BY DEF InsertFails, CommitBatch, commit, CommitFails
  <1>2. pc' = [pc EXCEPT ![w] = "Idle"]
    BY <1>1, AfterValues DEF InsertFails, CommitBatch, Returns, Errs, Goto
  <1>3. CASE InsertFails(w)
    <2>1. log' = log /\ returned' = returned
      BY <1>3 DEF InsertFails, Errs
    <2> QED
      BY <1>1, <1>2, <2>1, BatchEnds
  <1>4. CASE CommitBatch(w)
    <2>1. Apply(w) => log' = [log EXCEPT ![result[w]] = Batch]
      <3>1. result[w] \in Results /\ result[w] # None /\ log[result[w]] = 0
        BY <1>1 DEF Inv, LogTypes, BeginsUnlogged, Unlogged
      <3>2. pending[w].log = Batch
        BY <1>4 DEF CommitBatch
      <3> QED
        BY <3>1, <3>2, NumbersAssumption DEF Apply, Inv, LogTypes
    <2>2. \/ Apply(w) /\ returned' = [returned EXCEPT !["batch"] = @ \cup {result[w]}]
          \/ (Apply(w) \/ log' = log) /\ returned' = returned
      BY <1>4 DEF CommitBatch, commit, CommitFails, Returns, Errs
    <2> QED
      BY <1>1, <1>2, <2>1, <2>2, BatchEnds
  <1> QED
    BY <1>3, <1>4

-----------------------------------------------------------------------------
\* A new result has no rows yet, and no thread.
LEMMA BeginStep ==
    ASSUME Inv, NEW w \in Workers, NEW r \in Results, NEW p \in Parms, Begin(w, r, p)
    PROVE  Inv'
  <1>1. /\ pc[w] = "Idle" /\ r \notin DOMAIN key
        /\ pc' = [pc EXCEPT ![w] = "save"] /\ result' = [result EXCEPT ![w] = r]
        /\ UNCHANGED <<log, pending, returned>>
    BY DEF Begin, Goto, database, connection
  <1>2. DOMAIN key' = DOMAIN key \cup {r}
    BY DEF Begin, Put
  <1>3. LogTypes'
    BY <1>1, <1>2 DEF Inv, LogTypes, Stages
  <1>4. PendingOnlyInBatch'
    BY <1>1 DEF Inv, LogTypes, PendingOnlyInBatch
  <1>5. OneSaver'
    BY <1>1, NoneAssumption DEF Inv, LogTypes, OneSaver, BeginsUnlogged
  <1>6. BeginsUnlogged'
    BY <1>1, <1>2, NoneAssumption DEF Inv, LogTypes, BeginsUnlogged, Unlogged
  <1>7. BatchIsWhole'
    BY <1>1 DEF Inv, BatchIsWhole
  <1> QED
    BY <1>3, <1>4, <1>5, <1>6, <1>7 DEF Inv

\* Everything a thread does between two results, and the clock.
LEMMA IdleStep ==
    ASSUME Inv,
           \/ Tick
           \/ UNCHANGED vars
           \/ \E w \in Workers : get_connection(w) \/ return_connection(w)
                                 \/ Query(w) \/ get_test_results(w)
    PROVE  Inv'
  <1>1. UNCHANGED <<log, pc, result, key, returned>>
    BY DEF Tick, vars, get_connection, return_connection, Query, get_test_results,
           database, caller, history
  <1>2. \/ UNCHANGED pending
        \/ \E w \in Workers : pc[w] = "Idle" /\ pending' = [pending EXCEPT ![w] = NoWrites]
    <2>1. CASE Tick \/ UNCHANGED vars
      BY <2>1 DEF Tick, vars, connection
    <2>2. ASSUME NEW w \in Workers,
                 get_connection(w) \/ return_connection(w) \/ Query(w) \/ get_test_results(w)
          PROVE  \/ UNCHANGED pending
                 \/ pc[w] = "Idle" /\ pending' = [pending EXCEPT ![w] = NoWrites]
      <3>1. pending = [pending EXCEPT ![w] = pending[w]]
        BY DEF Inv, LogTypes
      <3> QED
        BY <2>2, <3>1
        DEF get_connection, return_connection, Query, get_test_results, fetch, execute,
            ExecuteFails
    <2> QED
      BY <2>1, <2>2
  <1>3. LogTypes' /\ PendingOnlyInBatch'
    BY <1>1, <1>2, NumbersAssumption DEF Inv, LogTypes, PendingOnlyInBatch, NoWrites
  <1>4. OneSaver' /\ BeginsUnlogged' /\ BatchIsWhole'
    BY <1>1 DEF Inv, OneSaver, BeginsUnlogged, Unlogged, BatchIsWhole
  <1> QED
    BY <1>3, <1>4 DEF Inv

LEMMA NextInv == Inv /\ [Next]_vars => Inv'
  BY BucketStep, RowStep, PageStep, BatchStep, BeginStep, IdleStep DEF Next, Save

LEMMA InvHolds == Spec => []Inv
  BY InitInv, NextInv, PTL DEF Spec

-----------------------------------------------------------------------------
(***************************************************************************)
(* The files, the entries of the report and the rows of test_result.       *)
(***************************************************************************)
KeysAreMade == DOMAIN seen = Workers /\ DOMAIN stamp = Results /\ key = made

\* A thread has not returned from what is still before it.
NotYet ==
    /\ \A w \in Workers :
          /\ pc[w] \in {"save", "append", "write"} => result[w] \notin returned["append"]
          /\ pc[w] \in Stages \ {"batch"} => result[w] \notin returned["upsert"]
    /\ \A r \in Results \ DOMAIN key :
          r \notin returned["save"] \cup returned["append"] \cup returned["upsert"]

CommitHasRow == \A w \in Workers : pc[w] = "commit" => pending[w].row = result[w]

\* Two threads that have both read the report and not yet replaced it cross.
TogetherCross ==
    \A v, w \in Workers :
        v # w /\ pc[v] = "write" /\ pc[w] = "write" => result[v] \in crossed

HasEntry(f, r) == key[r] \in DOMAIN f /\ f[key[r]] = r

\* An entry that crossed no other is in the report and in what every thread
\* has read of it.
EntriesAreSeen ==
    \A r \in Single \ crossed :
        r \in returned["append"] =>
            HasEntry(report, r) /\ \A v \in Workers : pc[v] = "write" => HasEntry(seen[v], r)

KeepInv ==
    KeysAreMade /\ NotYet /\ CommitHasRow /\ TogetherCross /\ EntriesAreSeen /\ SavedIsKept

LEMMA InitKeepInv == Init => KeepInv
  BY DEF Init, KeepInv, KeysAreMade, NotYet, CommitHasRow, TogetherCross, EntriesAreSeen,
         SavedIsKept, Single, Operations, Empty

\* What a thread saves has a key of its own if its parameters and second are
\* nobody else's.
LEMMA SingleKeys ==
    ASSUME Inv, KeepInv, NEW r \in Single, NEW w \in Workers, pc[w] # "Idle", result[w] # r
    PROVE  key[result[w]] # key[r]
  BY DEF Inv, KeepInv, KeysAreMade, BeginsUnlogged, Single

LEMMA PutKeepsOthers ==
    ASSUME NEW f, NEW x, NEW y, NEW z \in DOMAIN f, x # z
    PROVE  z \in DOMAIN Put(f, x, y) /\ Put(f, x, y)[z] = f[z]
  BY DEF Put

LEMMA PutPuts ==
    ASSUME NEW f, NEW x, NEW y
    PROVE  x \in DOMAIN Put(f, x, y) /\ Put(f, x, y)[x] = y
  BY DEF Put

\* save_file replaces nothing but the files of its own key.
LEMMA SaveKeeps ==
    ASSUME Inv, KeepInv, NEW w \in Workers, save_file(w)
    PROVE  KeepInv'
  <1> USE DEF database, connection
  <1>1. /\ pc[w] = "save" /\ pc' = [pc EXCEPT ![w] = "append"]
        /\ UNCHANGED <<report, rows, pending, result, key, stamp, seen, crossed, made>>
    BY AfterValues DEF save_file, Returns, Errs, Goto
  <1>2. \/ /\ objects' = Put(objects, key[result[w]], result[w])
           /\ returned' = [returned EXCEPT !["save"] = @ \cup {result[w]}]
        \/ /\ objects' \in {objects, Put(objects, key[result[w]], result[w])}
           /\ returned' = returned
    BY DEF save_file, Returns, Errs
  <1>3. \A op \in {"append", "upsert"} : returned'[op] = returned[op]
    BY <1>2 DEF Inv, LogTypes, Operations
  <1>4. (KeysAreMade /\ CommitHasRow /\ TogetherCross)'
    BY <1>1 DEF Inv, LogTypes, KeepInv, KeysAreMade, CommitHasRow, TogetherCross
  <1>5. NotYet'
    <2>1. \A r \in Results \ DOMAIN key : r # result[w]
      BY <1>1 DEF Inv, BeginsUnlogged
    <2>2. \A r \in Results \ DOMAIN key : r \notin returned'["save"]
      BY <1>2, <2>1 DEF Inv, LogTypes, KeepInv, NotYet, Operations
    <2> QED
      BY <1>1, <1>3, <2>2 DEF Inv, LogTypes, KeepInv, NotYet, Stages
  <1>6. EntriesAreSeen'
    BY <1>1, <1>3 DEF Inv, LogTypes, KeepInv, EntriesAreSeen, HasEntry, Single
  <1>7. SavedIsKept'
    <2> SUFFICES ASSUME NEW r \in Single, r \in returned'["save"]
                 PROVE  HasEntry(objects', r)
      BY <1>1, <1>3 DEF KeepInv, SavedIsKept, Single, key_string, HasEntry
    <2>1. CASE r = result[w]
      <3>1. r \in returned["save"] \/ objects' = Put(objects, key[r], r)
        BY <1>2, <2>1
      <3> QED
        BY <1>2, <2>1, <3>1, PutPuts DEF KeepInv, SavedIsKept, HasEntry
    <2>2. CASE r # result[w]
      <3>1. key[result[w]] # key[r]
        BY <1>1, <2>2, SingleKeys
      <3>2. r \in returned["save"]
        BY <1>2, <2>2 DEF Inv, LogTypes, Operations
      <3> QED
        BY <1>2, <3>1, <3>2, PutKeepsOthers DEF KeepInv, SavedIsKept, HasEntry
    <2> QED
      BY <2>1, <2>2
  <1> QED
    BY <1>4, <1>5, <1>6, <1>7 DEF KeepInv

\* Who reads the report has seen what is in it, or crosses.
LEMMA ReadKeeps ==
    ASSUME Inv, KeepInv, NEW w \in Workers, ReadReport(w) \/ ReadFails(w)
    PROVE  KeepInv'
  <1> USE DEF bucket, database, connection
  <1> DEFINE to == IF ReadReport(w) THEN "write" ELSE "upsert"
  <1>1. /\ pc[w] = "append" /\ pc' = [pc EXCEPT ![w] = to]
        /\ UNCHANGED <<objects, report, rows, pending, result, key, stamp, returned, made>>
    BY AfterValues DEF ReadReport, ReadFails, Errs, Goto
  <1>2. crossed \subseteq crossed'
    BY DEF ReadReport, ReadFails
  <1>3. (KeysAreMade /\ NotYet /\ CommitHasRow)'
    BY <1>1 DEF Inv, LogTypes, KeepInv, KeysAreMade, NotYet, CommitHasRow, Stages, ReadReport,
                ReadFails
  <1>4. TogetherCross'
    <2> SUFFICES ASSUME NEW u \in Workers, NEW v \in Workers, u # v,
                        pc'[u] = "write", pc'[v] = "write"
                 PROVE  result[u] \in crossed'
      BY <1>1 DEF TogetherCross
    <2>1. CASE u # w /\ v # w
      BY <1>1, <1>2, <2>1 DEF Inv, LogTypes, KeepInv, TogetherCross
    <2>2. CASE u = w \/ v = w
      <3>1. ReadReport(w)
        BY <1>1, <2>2 DEF Inv, LogTypes
      <3>2. \E x \in Workers \ {w} : x \in {u, v} /\ pc[x] = "write"
        BY <1>1, <2>2 DEF Inv, LogTypes
      <3> QED
        BY <2>2, <3>1, <3>2, <1>1 DEF ReadReport, Inv, LogTypes
    <2> QED
      BY <2>1, <2>2
  <1>5. EntriesAreSeen'
    <2> SUFFICES ASSUME NEW r \in Single \ crossed, r \in returned["append"],
                        NEW v \in Workers, pc'[v] = "write"
                 PROVE  HasEntry(report, r) /\ HasEntry(seen'[v], r)
      <3>1. \A r \in Single \ crossed :
                r \in returned["append"] => HasEntry(report, r)
        BY DEF KeepInv, EntriesAreSeen
      <3> QED
        BY <1>1, <1>2, <3>1 DEF EntriesAreSeen, HasEntry, Single
    <2>1. HasEntry(report, r)
      BY DEF KeepInv, EntriesAreSeen
    <2>2. CASE ReadReport(w) /\ v = w
      BY <2>1, <2>2 DEF ReadReport, KeepInv, KeysAreMade
    <2>3. CASE ~ (ReadReport(w) /\ v = w)
      <3>1. pc[v] = "write" /\ v # w
        BY <1>1, <2>3 DEF Inv, LogTypes
      <3>2. seen'[v] = seen[v]
        BY <3>1 DEF ReadReport, ReadFails, KeepInv, KeysAreMade
      <3> QED
        BY <2>1, <3>1, <3>2 DEF KeepInv, EntriesAreSeen
    <2> QED
      BY <2>1, <2>2, <2>3
  <1>6. SavedIsKept'
    BY <1>1 DEF KeepInv, SavedIsKept, Single, key_string
  <1> QED
    BY <1>3, <1>4, <1>5, <1>6 DEF KeepInv

\* Who replaces the report writes back every entry that did not cross its own.
LEMMA WriteKeeps ==
    ASSUME Inv, KeepInv, NEW w \in Workers, WriteReport(w)
    PROVE  KeepInv'
  <1> USE DEF database, connection
  <1>1. /\ pc[w] = "write" /\ pc' = [pc EXCEPT ![w] = "upsert"]
        /\ seen' = [seen EXCEPT ![w] = Empty]
        /\ UNCHANGED <<objects, rows, pending, result, key, stamp, crossed, made>>
    BY AfterValues DEF WriteReport, Returns, Errs, Goto
  <1>2. \/ /\ report' = Appended(w)
           /\ returned' = [returned EXCEPT !["append"] = @ \cup {result[w]}]
        \/ report' \in {report, Appended(w)} /\ returned' = returned
    BY DEF WriteReport, Returns, Errs
  <1>3. \A op \in {"save", "upsert"} : returned'[op] = returned[op]
    BY <1>2 DEF Inv, LogTypes, Operations
  <1>4. \A r \in Results \ {result[w]} : r \in returned'["append"] => r \in returned["append"]
    BY <1>2 DEF Inv, LogTypes, Operations
  <1>5. (KeysAreMade /\ CommitHasRow /\ TogetherCross)'
    BY <1>1 DEF Inv, LogTypes, KeepInv, KeysAreMade, CommitHasRow, TogetherCross
  <1>6. NotYet'
    <2>1. result[w] \in DOMAIN key /\ result[w] # None
      BY <1>1 DEF Inv, BeginsUnlogged
    <2>2. \A v \in Workers \ {w} : result[v] # result[w]
      BY <2>1 DEF Inv, OneSaver
    <2>3. \A v \in Workers : pc'[v] \in {"save", "append", "write"} =>
              v # w /\ result[v] \in Results /\ pc[v] = pc'[v]
      BY <1>1 DEF Inv, LogTypes, BeginsUnlogged
    <2>4. \A v \in Workers : pc'[v] \in {"save", "append", "write"} =>
              result[v] \notin returned'["append"]
      BY <1>4, <2>2, <2>3 DEF KeepInv, NotYet
    <2>5. \A r \in Results \ DOMAIN key : r \notin returned'["append"]
      BY <1>4, <2>1 DEF KeepInv, NotYet
    <2>6. \A v \in Workers : pc'[v] \in Stages \ {"batch"} =>
              result[v] \notin returned'["upsert"]
      BY <1>1, <1>3 DEF Inv, LogTypes, KeepInv, NotYet, Stages
    <2> QED
      BY <1>1, <1>3, <2>4, <2>5, <2>6 DEF KeepInv, NotYet
  <1>7. EntriesAreSeen'
    <2> SUFFICES ASSUME NEW r \in Single \ crossed, r \in returned'["append"]
                 PROVE  /\ HasEntry(report', r)
                        /\ \A v \in Workers : pc'[v] = "write" => HasEntry(seen'[v], r)
      BY <1>1 DEF EntriesAreSeen, HasEntry, Single
    <2>1. CASE r = result[w]
      <3>1. r \notin returned["append"]
        BY <1>1, <2>1 DEF KeepInv, NotYet
      <3>2. report' = Put(seen[w], key[r], r)
        BY <1>2, <2>1, <3>1 DEF Appended
      <3>3. \A v \in Workers : pc'[v] # "write"
        BY <1>1, <2>1 DEF Inv, LogTypes, KeepInv, TogetherCross
      <3> QED
        BY <3>2, <3>3, PutPuts DEF HasEntry
    <2>2. CASE r # result[w]
      <3>1. r \in Results /\ r \in returned["append"]
        BY <1>4, <2>2 DEF Single, Inv, LogTypes, KeepInv, KeysAreMade
      <3>2. HasEntry(report, r) /\ HasEntry(seen[w], r)
        BY <1>1, <3>1 DEF KeepInv, EntriesAreSeen
      <3>3. HasEntry(Appended(w), r)
        BY <1>1, <2>2, <3>2, SingleKeys, PutKeepsOthers DEF HasEntry, Appended
      <3>4. ASSUME NEW v \in Workers, pc'[v] = "write" PROVE HasEntry(seen'[v], r)
        <4>1. v # w /\ pc[v] = "write"
          BY <1>1, <3>4 DEF Inv, LogTypes
        <4>2. seen'[v] = seen[v]
          BY <1>1, <4>1 DEF KeepInv, KeysAreMade
        <4> QED
          BY <3>1, <4>1, <4>2 DEF KeepInv, EntriesAreSeen
      <3> QED
        BY <1>2, <3>2, <3>3, <3>4
    <2> QED
      BY <2>1, <2>2
  <1>8. SavedIsKept'
    BY <1>1, <1>3 DEF KeepInv, SavedIsKept, Single, key_string
  <1> QED
    BY <1>5, <1>6, <1>7, <1>8 DEF KeepInv

-----------------------------------------------------------------------------
\* A step that leaves what was saved alone, and brings no thread back to an
\* operation it has left.
LEMMA OthersKeep ==
    ASSUME Inv, KeepInv,
           UNCHANGED <<objects, report, rows, key, made, seen, crossed, result, returned>>,
           UNCHANGED stamp,
           \A w \in Workers :
               \/ pc'[w] = pc[w] /\ (pc[w] = "commit" => pending'[w] = pending[w])
               \/ pc'[w] \in {"Idle", "batch"}
    PROVE  KeepInv'
  <1>1. (KeysAreMade /\ NotYet /\ CommitHasRow /\ TogetherCross)'
    BY DEF KeepInv, KeysAreMade, NotYet, CommitHasRow, TogetherCross, Stages
  <1>2. EntriesAreSeen'
    BY DEF KeepInv, EntriesAreSeen, HasEntry, Single
  <1>3. SavedIsKept'
    BY DEF KeepInv, SavedIsKept, Single, key_string
  <1> QED
    BY <1>1, <1>2, <1>3 DEF KeepInv

\* The statement gives its row the second it runs in.
LEMMA UpsertKeeps ==
    ASSUME Inv, KeepInv, NEW w \in Workers, upsert_test_result(w)
    PROVE  KeepInv'
  <1>1. /\ pc[w] = "upsert" /\ pc' = [pc EXCEPT ![w] = "commit"]
        /\ pending' = [pending EXCEPT ![w] = [pending[w] EXCEPT !.row = result[w]]]
        /\ stamp' = [stamp EXCEPT ![result[w]] = second]
        /\ UNCHANGED <<objects, report, rows, key, made, seen, crossed, result, returned>>
    BY DEF upsert_test_result, execute, Goto, bucket, database, history
  <1>2. (KeysAreMade /\ NotYet /\ TogetherCross)'
    BY <1>1 DEF Inv, LogTypes, KeepInv, KeysAreMade, NotYet, TogetherCross, Stages
  <1>3. CommitHasRow'
    BY <1>1 DEF Inv, LogTypes, KeepInv, CommitHasRow
  <1>4. EntriesAreSeen'
    BY <1>1 DEF Inv, LogTypes, KeepInv, EntriesAreSeen, HasEntry, Single
  <1>5. SavedIsKept'
    <2>1. result[w] \notin returned["upsert"]
      BY <1>1 DEF KeepInv, NotYet, Stages
    <2>2. \A r \in Single : r \in returned["upsert"] => stamp'[r] = stamp[r]
      BY <1>1, <2>1 DEF KeepInv, KeysAreMade, Single, Inv, LogTypes
    <2>3. \A r \in Single : r \in returned["upsert"] => key_string(r)' = key_string(r)
      BY <1>1, <2>2 DEF key_string
    <2> QED
      BY <1>1, <2>3 DEF KeepInv, SavedIsKept, Single
  <1> QED
    BY <1>2, <1>3, <1>4, <1>5 DEF KeepInv

\* A commit puts the row of its own result, and no other, into the table.
LEMMA RowsKeep ==
    ASSUME Inv, KeepInv, NEW w \in Workers, pc[w] # "Idle",
           NEW r \in Single, r \in returned["upsert"], Apply(w) \/ rows' = rows
    PROVE  key_string(r) \in DOMAIN rows' /\ rows'[key_string(r)] = r
  <1>1. key_string(r) \in DOMAIN rows /\ rows[key_string(r)] = r
    BY DEF KeepInv, SavedIsKept
  <1>2. CASE r = result[w]
    BY <1>1, <1>2, PutPuts DEF Apply
  <1>3. CASE r # result[w]
    <2>1. key_string(result[w]) # key_string(r)
      BY <1>3, SingleKeys DEF key_string
    <2> QED
      BY <1>1, <2>1, PutKeepsOthers DEF Apply
  <1> QED
    BY <1>2, <1>3

LEMMA CommitKeeps ==
    ASSUME Inv, KeepInv, NEW w \in Workers, CommitRow(w) \/ CommitBatch(w)
    PROVE  KeepInv'
  <1> USE DEF bucket, database
  <1>1. /\ pc[w] \in {"commit", "batch"}
        /\ pc' = [pc EXCEPT ![w] = IF pc[w] = "commit" THEN "batch" ELSE "Idle"]
        /\ pending' = [pending EXCEPT ![w] = NoWrites]
        /\ UNCHANGED <<objects, report, result, key, stamp, seen, crossed, made>>
        /\ Apply(w) \/ rows' = rows
    BY AfterValues DEF CommitRow, CommitBatch, commit, CommitFails, Returns, Errs, Goto
  <1>2. \/ returned' = returned
        \/ returned' = [returned EXCEPT !["batch"] = @ \cup {result[w]}]
        \/ /\ pc[w] = "commit" /\ Apply(w)
           /\ returned' = [returned EXCEPT !["upsert"] = @ \cup {result[w]}]
    BY DEF CommitRow, CommitBatch, commit, Returns, Errs
  <1>3. \A op \in {"save", "append"} : returned'[op] = returned[op]
    BY <1>2 DEF Inv, LogTypes, Operations
  <1>4. \A r \in Results \ {result[w]} : r \in returned'["upsert"] => r \in returned["upsert"]
    BY <1>2 DEF Inv, LogTypes, Operations
  <1>5. (KeysAreMade /\ CommitHasRow /\ TogetherCross)'
    BY <1>1 DEF Inv, LogTypes, KeepInv, KeysAreMade, CommitHasRow, TogetherCross
  <1>6. NotYet'
    <2>1. result[w] \in DOMAIN key /\ result[w] # None
      BY <1>1 DEF Inv, BeginsUnlogged
    <2>2. \A v \in Workers \ {w} : result[v] # result[w]
      BY <2>1 DEF Inv, OneSaver
    <2>3. \A v \in Workers : pc'[v] \in Stages \ {"batch"} =>
              v # w /\ pc[v] = pc'[v] /\ result[v] \in Results
      BY <1>1 DEF Inv, LogTypes, BeginsUnlogged, Stages
    <2>4. \A v \in Workers : pc'[v] \in Stages \ {"batch"} =>
              result[v] \notin returned'["upsert"]
      BY <1>4, <2>2, <2>3 DEF KeepInv, NotYet
    <2>5. \A r \in Results \ DOMAIN key : r \notin returned'["upsert"]
      BY <1>4, <2>1 DEF KeepInv, NotYet
    <2>6. \A v \in Workers : pc'[v] \in {"save", "append", "write"} =>
              result[v] \notin returned'["append"]
      BY <1>3, <2>3 DEF KeepInv, NotYet, Stages
    <2> QED
      BY <1>1, <1>3, <2>4, <2>5, <2>6 DEF KeepInv, NotYet
  <1>7. EntriesAreSeen'
    BY <1>1, <1>3 DEF Inv, LogTypes, KeepInv, EntriesAreSeen, HasEntry, Single
  <1>8. SavedIsKept'
    <2> SUFFICES ASSUME NEW r \in Single, r \in returned'["upsert"]
                 PROVE  key_string(r) \in DOMAIN rows' /\ rows'[key_string(r)] = r
      BY <1>1, <1>3 DEF KeepInv, SavedIsKept, Single, key_string
    <2>1. CASE r \in returned["upsert"]
      BY <1>1, <2>1, RowsKeep
    <2>2. CASE r \notin returned["upsert"]
      <3>1. r = result[w] /\ pc[w] = "commit" /\ Apply(w)
        BY <1>2, <2>2 DEF Inv, LogTypes, Operations
      <3>2. pending[w].row = r /\ r # None
        BY <3>1 DEF KeepInv, CommitHasRow, Inv, BeginsUnlogged
      <3> QED
        BY <3>1, <3>2, PutPuts DEF Apply
    <2> QED
      BY <2>1, <2>2
  <1> QED
    BY <1>5, <1>6, <1>7, <1>8 DEF KeepInv

\* A new result shares a key at worst with those that are Single no longer.
LEMMA BeginKeeps ==
    ASSUME Inv, KeepInv, NEW w \in Workers, NEW q \in Results, NEW p \in Parms, Begin(w, q, p)
    PROVE  KeepInv'
  <1>1. /\ pc[w] = "Idle" /\ q \notin DOMAIN key
        /\ pc' = [pc EXCEPT ![w] = "save"] /\ result' = [result EXCEPT ![w] = q]
        /\ key' = Put(key, q, <<p, second>>) /\ made' = Put(made, q, <<p, second>>)
        /\ UNCHANGED <<objects, report, rows, pending, stamp, seen, crossed, returned>>
    BY DEF Begin, Goto, prepare_save_file_key, bucket, database, connection
  <1>2. DOMAIN key' = DOMAIN key \cup {q} /\ \A r \in DOMAIN key : key'[r] = key[r]
    BY <1>1 DEF Put
  <1>3. KeysAreMade'
    BY <1>1 DEF KeepInv, KeysAreMade
  <1>4. \A op \in {"save", "append", "upsert"} : q \notin returned[op]
    BY <1>1 DEF KeepInv, NotYet
  <1>5. NotYet'
    BY <1>1, <1>2, <1>4 DEF Inv, LogTypes, KeepInv, NotYet, Stages
  <1>6. (CommitHasRow /\ TogetherCross)'
    BY <1>1 DEF Inv, LogTypes, KeepInv, CommitHasRow, TogetherCross
  <1>7. \A r \in Single' : r # q => r \in Single /\ key'[r] = key[r]
    <2>1. DOMAIN made = DOMAIN key /\ made' = key'
      BY <1>3 DEF KeepInv, KeysAreMade
    <2> QED
      BY <1>2, <2>1 DEF Single, KeepInv, KeysAreMade
  <1>8. EntriesAreSeen'
    <2>1. \A v \in Workers : pc'[v] = "write" => pc[v] = "write"
      BY <1>1 DEF Inv, LogTypes
    <2> QED
      BY <1>1, <1>4, <1>7, <2>1 DEF KeepInv, EntriesAreSeen, HasEntry
  <1>9. SavedIsKept'
    BY <1>1, <1>4, <1>7 DEF KeepInv, SavedIsKept, key_string
  <1> QED
    BY <1>3, <1>5, <1>6, <1>8, <1>9 DEF KeepInv

\* What fails, what is only read, and what concerns the log alone.
LEMMA AsideKeeps ==
    ASSUME Inv, KeepInv,
           \/ Tick
           \/ UNCHANGED vars
           \/ \E w \in Workers :
                 \/ UpsertFails(w) \/ InsertPage(w) \/ InsertFails(w)
                 \/ get_connection(w) \/ return_connection(w)
                 \/ Query(w) \/ get_test_results(w)
    PROVE  KeepInv'
  <1>1. UNCHANGED <<objects, report, rows, key, made, seen, crossed, result, returned, stamp>>
    BY DEF Tick, vars, UpsertFails, InsertPage, InsertFails, get_connection,
           return_connection, Query, get_test_results, Errs, bucket, database, caller, history
  <1>2. \A v \in Workers :
            \/ pc'[v] = pc[v] /\ (pc[v] = "commit" => pending'[v] = pending[v])
            \/ pc'[v] \in {"Idle", "batch"}
    <2>1. CASE Tick \/ UNCHANGED vars
      BY <2>1 DEF Tick, vars, connection, caller
    <2>2. ASSUME NEW w \in Workers, UpsertFails(w) \/ InsertPage(w) \/ InsertFails(w)
          PROVE  \A v \in Workers :
                     \/ pc'[v] = pc[v] /\ (pc[v] = "commit" => pending'[v] = pending[v])
                     \/ pc'[v] \in {"Idle", "batch"}
      BY <2>2, AfterValues
      DEF UpsertFails, ExecuteFails, InsertPage, execute, InsertFails, Errs, Goto, caller, Inv,
          LogTypes
    <2>3. ASSUME NEW w \in Workers,
                 get_connection(w) \/ return_connection(w) \/ Query(w) \/ get_test_results(w)
          PROVE  UNCHANGED pc /\ \A v \in Workers :
                                     pc[v] = "commit" => pending'[v] = pending[v]
      BY <2>3
      DEF get_connection, return_connection, Query, get_test_results, fetch, execute,
          ExecuteFails, caller, Inv, LogTypes
    <2> QED
      BY <2>1, <2>2, <2>3
  <1> QED
    BY <1>1, <1>2, OthersKeep

LEMMA NextKeepInv == Inv /\ KeepInv /\ [Next]_vars => KeepInv'
  BY SaveKeeps, ReadKeeps, WriteKeeps, UpsertKeeps, CommitKeeps, BeginKeeps, AsideKeeps
  DEF Next, Save

LEMMA KeepInvHolds == Spec => []KeepInv
  BY InitKeepInv, NextKeepInv, InvHolds, PTL DEF Spec

-----------------------------------------------------------------------------
\* The pages of a batch are in process_log all or none, and all if
\* batch_insert_task_history_2_process_log returned, whatever the transactions
\* before it left behind (DatabaseRepository, BaseRepository, DatabasePool).
THEOREM BatchIsWholeHolds == Spec => []BatchIsWhole
  <1>1. Inv => BatchIsWhole
    BY DEF Inv
  <1> QED
    BY <1>1, InvHolds, PTL

\* Files and rows that were saved under a key of their own stay, whatever
\* fails later and however many threads save results (ObjectStorageSaver,
\* DatabaseRepository.upsert_test_result).
THEOREM SavedIsKeptHolds == Spec => []SavedIsKept
  <1>1. KeepInv => SavedIsKept
    BY DEF KeepInv
  <1> QED
    BY <1>1, KeepInvHolds, PTL

\* An entry of the common report is lost only if two appends crossed
\* (append_to_file).
THEOREM OnlyCrossingsLoseEntriesHolds == Spec => []OnlyCrossingsLoseEntries
  <1>1. KeepInv => OnlyCrossingsLoseEntries
    BY DEF KeepInv, EntriesAreSeen, HasEntry, OnlyCrossingsLoseEntries
  <1> QED
    BY <1>1, KeepInvHolds, PTL

=============================================================================
