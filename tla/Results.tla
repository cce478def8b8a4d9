------------------------------- MODULE Results -------------------------------
(***************************************************************************)
(* Where the result of a backtest ends up: files in the bucket (one stands *)
(* for the three that share a key), an entry in the report_metadata.json   *)
(* of all results (ObjectStorageSaver), a row of test_result and a batch   *)
(* of rows in process_log, on a connection of DatabasePool.                *)
(*                                                                         *)
(* src/ holds these operations and nothing that calls them one after the   *)
(* other.  The caller is external: it saves the file, the entry, the row   *)
(* and the log of a result, and goes on when one of them fails.            *)
(***************************************************************************)
EXTENDS Naturals, FiniteSets, Functions

CONSTANTS
    Workers,        \* threads of any process
    Results,        \* the results that are saved, each once
    Parms,          \* strategy, data model and tester parameters, as a whole
    None,           \* no result
    PoolSize,       \* DBPoolConfig.max_conn
    Batch,          \* how many rows of process_log a result has
    LastSecond      \* bound on the clock

ASSUME NoneAssumption == None \notin Results
ASSUME NumbersAssumption == PoolSize \in Nat /\ Batch \in Nat \ {0} /\ LastSecond \in Nat

VARIABLES
    second,     \* the clock, as strftime tells it
    objects,    \* bucket: the files, and whose they are
    report,     \* bucket: report_metadata.json, keys and whose entry it is
    rows,       \* PostgreSQL: test_result, key_string and whose row it is
    log,        \* PostgreSQL: how many rows of process_log a result has
    conn,       \* the connection in a thread's _local
    pending,    \* what its transaction has written
    pc,         \* the operation a thread's caller is in
    result,     \* the result it is saving
    key,        \* the file_key of each result: parameters and second
    stamp,      \* the second at the end of its key_string
    seen,       \* existing_data of append_to_file
    returned,   \* history: the results each operation returned normally for
    crossed,    \* history: results whose append met another one
    made        \* history: parameters and second of each result

bucket == <<objects, report>>
database == <<rows, log>>
connection == <<conn, pending>>
caller == <<pc, result, key, stamp, seen>>
history == <<returned, crossed, made>>
vars == <<second, bucket, database, connection, caller, history>>

Operations == {"save", "append", "upsert", "batch"}

\* What the caller does after an operation; "write" and "commit" are the ends
\* of append_to_file and upsert_test_result.
After == [save |-> "append", append |-> "upsert", write |-> "upsert",
          upsert |-> "batch", commit |-> "batch", batch |-> "Idle"]

\* Name, data model and tester parameters, and the time.
Keys == Parms \X (0 .. LastSecond)
NoWrites == [row |-> None, log |-> 0]
Empty == [x \in {} |-> None]

TypeOK ==
    /\ DOMAIN objects \subseteq Keys /\ Range(objects) \subseteq Results
    /\ DOMAIN report \subseteq Keys /\ Range(report) \subseteq Results
    /\ DOMAIN rows \subseteq Keys \X (0 .. LastSecond) /\ Range(rows) \subseteq Results
    /\ log \in [Results -> 0 .. Batch]
    /\ conn \in [Workers -> {"none", "idle", "open", "aborted", "lost"}]
    /\ pending \in [Workers -> [row : Results \cup {None}, log : 0 .. Batch]]
    /\ pc \in [Workers -> {"Idle"} \cup DOMAIN After]
    /\ result \in [Workers -> Results \cup {None}]
    /\ DOMAIN key \subseteq Results /\ Range(key) \subseteq Keys
    /\ returned \in [Operations -> SUBSET Results]

Init ==
    /\ second = 0
    /\ objects = Empty /\ report = Empty /\ rows = Empty
    /\ log = [r \in Results |-> 0]
    /\ conn = [w \in Workers |-> "none"]
    /\ pending = [w \in Workers |-> NoWrites]
    /\ pc = [w \in Workers |-> "Idle"]
    /\ result = [w \in Workers |-> None]
    /\ key = Empty
    /\ stamp = [r \in Results |-> 0]
    /\ seen = [w \in Workers |-> Empty]
    /\ returned = [op \in Operations |-> {}]
    /\ crossed = {}
    /\ made = Empty

Put(f, x, y) == [z \in DOMAIN f \cup {x} |-> IF z = x THEN y ELSE f[z]]

Goto(w, to) == pc' = [pc EXCEPT ![w] = to]

Returns(w, op) ==
    /\ returned' = [returned EXCEPT ![op] = @ \cup {result[w]}]
    /\ Goto(w, After[pc[w]])

\* The operation reports an error.
Errs(w) == Goto(w, After[pc[w]]) /\ UNCHANGED returned

Tick ==
    /\ second < LastSecond
    /\ second' = second + 1
    /\ UNCHANGED <<bucket, database, connection, caller, history>>

-----------------------------------------------------------------------------
(***************************************************************************)
(* The files and the report                                                *)
(***************************************************************************)
\* Mutant of prepare_save_file_key: without the time.
Mutantprepare_save_file_key(p, s) == <<p, 0>>

\* A hash of the parameters and the time, which is told in seconds.
prepare_save_file_key(p, s) == <<p, s>>

Begin(w, r, p) ==
    /\ pc[w] = "Idle"
    /\ r \notin DOMAIN key
    /\ result' = [result EXCEPT ![w] = r]
    /\ key' = Put(key, r, prepare_save_file_key(p, second))
    /\ made' = Put(made, r, <<p, second>>)
    /\ Goto(w, "save")
    /\ UNCHANGED <<second, bucket, database, connection, stamp, seen, returned, crossed>>

\* prepare_final_report adds the time again, at which it is called.
key_string(r) == <<key[r], stamp[r]>>

\* An error is returned, not raised, and may come after the object was
\* replaced.
save_file(w) ==
    /\ pc[w] = "save"
    /\ LET saved == Put(objects, key[result[w]], result[w])
       IN  \/ objects' = saved /\ Returns(w, "save")
           \/ objects' \in {objects, saved} /\ Errs(w)
    /\ UNCHANGED <<second, report, database, connection, result, key, stamp, seen, crossed, made>>

\* append_to_file reads the report, if there is one, ...
ReadReport(w) ==
    /\ pc[w] = "append"
    /\ LET others == {v \in Workers \ {w} : pc[v] = "write"}
       IN  crossed' = IF others = {} THEN crossed
                      ELSE crossed \cup {result[v] : v \in others \cup {w}}
    /\ seen' = [seen EXCEPT ![w] = report]
    /\ Goto(w, "write")
    /\ UNCHANGED <<second, bucket, database, connection, result, key, stamp, returned, made>>

ReadFails(w) ==
    /\ pc[w] = "append"
    /\ Errs(w)
    /\ UNCHANGED <<second, bucket, database, connection, result, key, stamp, seen, crossed, made>>

\* Mutant of Appended: the entry instead of the report with the entry.
MutantAppended(w) == Put(Empty, key[result[w]], result[w])

Appended(w) == Put(seen[w], key[result[w]], result[w])

\* ... and replaces it by what it read and the entry.
WriteReport(w) ==
    /\ pc[w] = "write"
    /\ \/ report' = Appended(w) /\ Returns(w, "append")
       \/ report' \in {report, Appended(w)} /\ Errs(w)
    /\ seen' = [seen EXCEPT ![w] = Empty]
    /\ UNCHANGED <<second, objects, database, connection, result, key, stamp, crossed, made>>

-----------------------------------------------------------------------------
(***************************************************************************)
(* DatabasePool and BaseRepository                                         *)
(***************************************************************************)
Lent == {w \in Workers : conn[w] # "none"}

\* One for each thread, kept until it is given back; an exhausted pool raises.
get_connection(w) ==
    /\ conn[w] = "none"
    /\ Cardinality(Lent) < PoolSize
    /\ conn' = [conn EXCEPT ![w] = "idle"]
    /\ UNCHANGED <<second, bucket, database, pending, caller, history>>

\* putconn rolls back what is open, and closes what is broken.
return_connection(w) ==
    /\ pc[w] = "Idle" /\ conn[w] # "none"
    /\ conn' = [conn EXCEPT ![w] = "none"]
    /\ pending' = [pending EXCEPT ![w] = NoWrites]
    /\ UNCHANGED <<second, bucket, database, caller, history>>

Usable(w) == conn[w] \in {"idle", "open"}

execute(w, writes) ==
    /\ Usable(w)
    /\ conn' = [conn EXCEPT ![w] = "open"]
    /\ pending' = [pending EXCEPT ![w] = writes]

\* A statement fails by itself, with the connection, or because the one before
\* it did; without a connection nothing happens.
ExecuteFails(w) ==
    /\ pending' = [pending EXCEPT ![w] = NoWrites]
    /\ \/ Usable(w) /\ conn' = [conn EXCEPT ![w] = "aborted"]
       \/ Usable(w) /\ conn' = [conn EXCEPT ![w] = "lost"]
       \/ ~ Usable(w) /\ UNCHANGED conn

\* A failed transaction is usable again after a rollback, a lost connection
\* is not.
Rollback(c) == IF c \in {"none", "lost"} THEN c ELSE "idle"

Apply(w) ==
    /\ rows' = IF pending[w].row = None THEN rows
               ELSE Put(rows, key_string(result[w]), result[w])
    /\ log' = IF result[w] = None THEN log ELSE [log EXCEPT ![result[w]] = @ + pending[w].log]

commit(w) ==
    /\ Usable(w)
    /\ Apply(w)
    /\ conn' = [conn EXCEPT ![w] = "idle"]
    /\ pending' = [pending EXCEPT ![w] = NoWrites]

\* The connection is lost before or after the server has committed.
CommitFails(w) ==
    /\ Usable(w)
    /\ Apply(w) \/ UNCHANGED database
    /\ conn' = [conn EXCEPT ![w] = "lost"]
    /\ pending' = [pending EXCEPT ![w] = NoWrites]

-----------------------------------------------------------------------------
(***************************************************************************)
(* DatabaseRepository                                                      *)
(***************************************************************************)
\* fetch_one and fetch_all: nothing ends the transaction they begin, or the
\* one they fail in.
fetch(w) == execute(w, pending[w]) \/ ExecuteFails(w)

\* get_process_log, get_task_event
Query(w) ==
    /\ pc[w] = "Idle" /\ conn[w] # "none"
    /\ fetch(w)
    /\ UNCHANGED <<second, bucket, database, caller, history>>

\* The page is not checked: the offset of page 0 is negative, which the
\* server rejects.
get_test_results(w) ==
    /\ pc[w] = "Idle" /\ conn[w] # "none"
    /\ \E page \in {0, 1} : IF page > 0 THEN fetch(w) ELSE ExecuteFails(w)
    /\ UNCHANGED <<second, bucket, database, caller, history>>

\* INSERT ... ON CONFLICT (key_string) DO UPDATE; another transaction with the
\* same key_string makes it wait.
Waits(w) ==
    \E v \in Workers \ {w} :
        /\ pending[v].row # None
        /\ key[result[v]] = key[result[w]] /\ stamp[result[v]] = second

upsert_test_result(w) ==
    /\ pc[w] = "upsert"
    /\ ~ Waits(w)
    /\ execute(w, [pending[w] EXCEPT !.row = result[w]])
    /\ stamp' = [stamp EXCEPT ![result[w]] = second]
    /\ Goto(w, "commit")
    /\ UNCHANGED <<second, bucket, database, result, key, seen, history>>

\* Raises, without a rollback.
UpsertFails(w) ==
    /\ pc[w] = "upsert"
    /\ ExecuteFails(w)
    /\ Errs(w)
    /\ UNCHANGED <<second, bucket, database, result, key, stamp, seen, crossed, made>>

CommitRow(w) ==
    /\ pc[w] = "commit"
    /\ \/ commit(w) /\ Returns(w, "upsert")
       \/ CommitFails(w) /\ Errs(w)
    /\ UNCHANGED <<second, bucket, result, key, stamp, seen, crossed, made>>

\* execute_values sends one page after the other.
InsertPage(w) ==
    /\ pc[w] = "batch"
    /\ pending[w].log < Batch
    /\ execute(w, [pending[w] EXCEPT !.log = @ + 1])
    /\ UNCHANGED <<second, bucket, database, caller, history>>

\* Mutant of InsertFails: what was inserted is kept.
MutantInsertFails(w) ==
    /\ pc[w] = "batch"
    /\ Apply(w)
    /\ conn' = [conn EXCEPT ![w] = Rollback(@)]
    /\ pending' = [pending EXCEPT ![w] = NoWrites]
    /\ Errs(w)
    /\ UNCHANGED <<second, bucket, result, key, stamp, seen, crossed, made>>

\* Rolls back and raises; the rollback of a lost connection raises as well.
InsertFails(w) ==
    /\ pc[w] = "batch"
    /\ \E lost \in BOOLEAN :
          conn' = [conn EXCEPT ![w] = IF lost /\ @ # "none" THEN "lost" ELSE Rollback(@)]
    /\ pending' = [pending EXCEPT ![w] = NoWrites]
    /\ Errs(w)
    /\ UNCHANGED <<second, bucket, database, result, key, stamp, seen, crossed, made>>

CommitBatch(w) ==
    /\ pc[w] = "batch"
    /\ pending[w].log = Batch
    /\ \/ commit(w) /\ Returns(w, "batch")
       \/ CommitFails(w) /\ Errs(w)
    /\ UNCHANGED <<second, bucket, result, key, stamp, seen, crossed, made>>

-----------------------------------------------------------------------------
Save(w) ==
    \/ save_file(w) \/ ReadReport(w) \/ ReadFails(w) \/ WriteReport(w)
    \/ upsert_test_result(w) \/ UpsertFails(w) \/ CommitRow(w)
    \/ InsertPage(w) \/ InsertFails(w) \/ CommitBatch(w)

Next ==
    \/ Tick
    \/ \E w \in Workers :
          \/ \E r \in Results, p \in Parms : Begin(w, r, p)
          \/ Save(w)
          \/ get_connection(w) \/ return_connection(w)
          \/ Query(w) \/ get_test_results(w)

Spec == Init /\ [][Next]_vars

-----------------------------------------------------------------------------
(***************************************************************************)
(* Properties                                                              *)
(***************************************************************************)
\* Equal parameters in one second make the same key (data_savers/base.py:67).
\* The results that share it with no other:
Single == {r \in DOMAIN made : \A q \in DOMAIN made \ {r} : made[q] # made[r]}

\* What was saved under a key of its own stays: files and rows that an
\* operation returned normally for are there and nobody else's, whatever fails
\* later and whoever saves results of the same parameters at other times.
SavedIsKept ==
    \A r \in Single :
        /\ r \in returned["save"] => key[r] \in DOMAIN objects /\ objects[key[r]] = r
        /\ r \in returned["upsert"] =>
              key_string(r) \in DOMAIN rows /\ rows[key_string(r)] = r

\* The report is read, extended and written back without a lock: an entry that
\* was appended is lost only if two appends crossed, never by one that came
\* later or failed.
OnlyCrossingsLoseEntries ==
    \A r \in Single \ crossed :
        r \in returned["append"] => key[r] \in DOMAIN report /\ report[key[r]] = r

\* The pages of a batch are in the log all or none, also on a connection that
\* an upsert or a query before it has left in a failed or open transaction;
\* and all if the operation returned.
BatchIsWhole ==
    \A r \in Results :
        /\ log[r] \in {0, Batch}
        /\ r \in returned["batch"] => log[r] = Batch
=============================================================================
