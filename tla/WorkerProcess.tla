---------------------------- MODULE WorkerProcess ----------------------------
(***************************************************************************)
(* One worker process from its start to its end: what Application          *)
(* assembles, what it gives back, and the DuckDB connections in between    *)
(* (DuckDBManager), of which the sink keeps one for good and the merger    *)
(* replaces its own after every error that may have spoilt it.  Each       *)
(* connection carries a bearer token of its own, which expires and is      *)
(* renewed from the credentials that the environment names.                *)
(*                                                                         *)
(* A task writes once and merges once here; which message it came with and *)
(* what becomes of its row is the matter of TaskWorker, and of the bucket  *)
(* the matter of PriceStore.                                               *)
(***************************************************************************)
EXTENDS Naturals, FiniteSets

CONSTANTS
    Conns, NoConn,     \* DuckDB connections; a closed and forgotten one may
                       \* stand for a new one again
    PoolSize,          \* DUCKDB_POOL_SIZE
    MaxRetries,        \* _MAX_MERGE_RETRIES
    Disturbances       \* what may go wrong, any number of times

\* Making a connection (network, token), another step of the assembly, an
\* error of an operation that is worth a retry, any other error, a signal, a
\* token that expires, the file of the service account's key taken away or
\* put back, an error while the PostgreSQL pool is closed.
DisturbanceKinds ==
    {"setup", "assembly", "retriable", "other", "signal", "expiry", "key", "close"}

\* What the environment variables may say: nothing, the names in use, the
\* older names, a mode without its key, a mode that does not exist.
Unset == "unset"
ServiceAccount == "service_account_json"
Variables == {"GCP_AUTH_MODE", "GCP_PUBSUB_AUTH_MODE", "GCP_SA_KEY_FILE",
              "GOOGLE_APPLICATION_CREDENTIALS"}
Setting(given) == [v \in Variables |-> IF v \in DOMAIN given THEN given[v] ELSE Unset]
Environments ==
    {Setting(<<>>),
     Setting([GCP_AUTH_MODE |-> ServiceAccount, GCP_SA_KEY_FILE |-> "key"]),
     Setting([GCP_PUBSUB_AUTH_MODE |-> ServiceAccount,
              GOOGLE_APPLICATION_CREDENTIALS |-> "key"]),
     Setting([GCP_AUTH_MODE |-> ServiceAccount]),
     Setting([GCP_AUTH_MODE |-> "hmac"])}

ASSUME NoConnAssumption == NoConn \notin Conns
ASSUME SizeAssumption == PoolSize \in Nat /\ MaxRetries \in Nat
ASSUME EnoughConns == Cardinality(Conns) > PoolSize + 2
ASSUME DisturbancesAssumption == Disturbances \subseteq DisturbanceKinds

VARIABLES
    pc,         \* where the main thread is
    pool,       \* DuckDBManager._pool
    managed,    \* DuckDBManager._all_connections
    open,       \* the connections that were not closed: an error of a close is
                \* swallowed, and nobody tries again
    stale,      \* those whose token is not valid any more
    merger,     \* BlobParquetMerger.duckdb_con
    sink,       \* PandasTradePriceObjectStorageParquetSink.duckdb_conn
    cursor,     \* con of merge_single: the connection its cursor belongs to
    attempt,    \* the loop variable of merge_single
    postgres,   \* Application._pg_pool, and whether its connection is out
    consumer,   \* Application._consumer and its subscriber
    shutdown,   \* shutdown_event
    env,        \* os.environ
    keyFile     \* does the key's file exist?

duck == <<pool, managed, open, stale>>
world == <<env, keyFile>>
vars == <<pc, duck, merger, sink, cursor, attempt, postgres, consumer, shutdown, world>>

BootSteps == {"Boot", "FillPool", "OpenPostgres", "BuildMerger", "BuildSink",
              "BuildConsumer"}
TaskSteps == {"Serve", "Write", "WriteRefresh", "WriteAgain",
              "Attempt", "Merge", "MergeRefresh", "MergeAgain", "Renew"}
PCs == BootSteps \cup TaskSteps
       \cup {"CloseConsumer", "CloseDuck", "ClosePostgres", "Exited"}

TypeOK ==
    /\ pc \in PCs
    /\ pool \subseteq Conns /\ managed \subseteq Conns /\ open \subseteq Conns
    /\ stale \subseteq open
    /\ merger \in Conns \cup {NoConn}
    /\ sink \in Conns \cup {NoConn}
    /\ cursor \in Conns \cup {NoConn}
    /\ attempt \in 0 .. MaxRetries
    /\ postgres \in {"none", "lent"}
    /\ consumer \in {"none", "open"}
    /\ shutdown \in BOOLEAN
    /\ env \in Environments /\ keyFile \in BOOLEAN

Init ==
    /\ pc = "Boot"
    /\ pool = {} /\ managed = {} /\ open = {} /\ stale = {}
    /\ merger = NoConn /\ sink = NoConn /\ cursor = NoConn
    /\ attempt = 0
    /\ postgres = "none"
    /\ consumer = "none"
    /\ shutdown = FALSE
    /\ env \in Environments /\ keyFile \in BOOLEAN

Fails(kind) == kind \in Disturbances

-----------------------------------------------------------------------------
(***************************************************************************)
(* gcp_auth                                                                *)
(***************************************************************************)
AuthMode ==
    IF env["GCP_AUTH_MODE"] # Unset THEN env["GCP_AUTH_MODE"]
    ELSE IF env["GCP_PUBSUB_AUTH_MODE"] # Unset THEN env["GCP_PUBSUB_AUTH_MODE"]
    ELSE "adc"

ModeSupported == AuthMode \in {"adc", ServiceAccount}

\* The variable must be there and name a file.
KeyResolves ==
    /\ env["GCP_SA_KEY_FILE"] # Unset \/ env["GOOGLE_APPLICATION_CREDENTIALS"] # Unset
    /\ keyFile

\* What every from_env asks for.
ConfigLoads == ModeSupported /\ (AuthMode = ServiceAccount => KeyResolves)

\* load_gcp_credentials: the configuration names the file, which is read anew
\* for every token and every client.
CredentialsLoad == AuthMode = ServiceAccount => keyFile

\* refresh_gcp_access_token fails.
NoToken == ~CredentialsLoad \/ Fails("setup")

-----------------------------------------------------------------------------
(***************************************************************************)
(* DuckDBManager                                                           *)
(***************************************************************************)
\* A connection that nobody has any more.
Fresh == Conns \ (open \cup {merger, sink})

\* Mutant of Create: the manager does not remember the connection.
MutantCreate(c) ==
    /\ c \in Fresh
    /\ open' = open \cup {c}
    /\ managed' = IF pool = {} THEN managed ELSE managed \cup {c}
    /\ UNCHANGED stale

\* _create_new_connection, with the token setup_connection gets for it.
Create(c) ==
    /\ c \in Fresh
    /\ CredentialsLoad
    /\ open' = open \cup {c}
    /\ managed' = managed \cup {c}
    /\ UNCHANGED stale

\* get_conn: one of the pool, whatever its token, or a new one when the pool
\* is empty.  A new one is not put into the pool, then or later: nobody returns
\* a connection.
GetConn(c) ==
    \/ /\ c \in pool
       /\ pool' = pool \ {c}
       /\ UNCHANGED <<managed, open, stale>>
    \/ /\ pool = {}
       /\ Create(c)
       /\ UNCHANGED pool

GetConnFails == pool = {} /\ NoToken

\* Mutants of Discard: the connection is not closed; it is returned to the
\* pool instead.
MutantDiscardKeeps(c) ==
    /\ managed' = managed \ {c}
    /\ UNCHANGED <<pool, open, stale>>

MutantDiscardReturns(c) ==
    /\ pool' = pool \cup {c}
    /\ UNCHANGED <<managed, open, stale>>

\* return_and_delete
Discard(c) ==
    /\ managed' = managed \ {c}
    /\ open' = open \ {c}
    /\ stale' = stale \ {c}
    /\ UNCHANGED pool

\* refresh_gcs_auth: the connection's secret is replaced.
Refresh(c) == CredentialsLoad /\ stale' = stale \ {c}

\* An operation on a connection succeeds; or its error looks like one of
\* authentication, which with_gcs_auth_retry answers with a new token and one
\* repetition.  It looks for words and numbers in the text of any error, so
\* that others may look so too.  The operation runs on a cursor, which a closed
\* connection does not give, and which goes on when its connection is closed.
Succeeds(c) == c \in open \ stale
AuthError(c) == c \in stale \/ Fails("retriable") \/ Fails("other")

-----------------------------------------------------------------------------
(***************************************************************************)
(* Application._bootstrap                                                  *)
(***************************************************************************)
\* The configuration, then the handlers of signals: from here on a signal sets
\* shutdown_event.
Register ==
    /\ pc = "Boot"
    /\ ConfigLoads
    /\ pc' = "FillPool"
    /\ UNCHANGED <<duck, merger, sink, cursor, attempt, postgres, consumer, shutdown>>

FillPool ==
    /\ pc = "FillPool"
    /\ \/ /\ Cardinality(pool) < PoolSize
          /\ \E c \in Conns : Create(c) /\ pool' = pool \cup {c}
          /\ UNCHANGED pc
       \/ /\ Cardinality(pool) = PoolSize
          /\ pc' = "OpenPostgres"
          /\ UNCHANGED duck
    /\ UNCHANGED <<merger, sink, cursor, attempt, postgres, consumer, shutdown>>

\* The pool, and the one connection of the main thread.
OpenPostgres ==
    /\ pc = "OpenPostgres"
    /\ postgres' = "lent"
    /\ pc' = "BuildMerger"
    /\ UNCHANGED <<duck, merger, sink, cursor, attempt, consumer, shutdown>>

\* The file system needs credentials of its own.
BuildMerger ==
    /\ pc = "BuildMerger"
    /\ ConfigLoads
    /\ \E c \in Conns : GetConn(c) /\ merger' = c
    /\ pc' = "BuildSink"
    /\ UNCHANGED <<sink, cursor, attempt, postgres, consumer, shutdown>>

\* Mutant of BuildSink: the sink works on the merger's connection.
MutantBuildSink ==
    /\ pc = "BuildSink"
    /\ sink' = merger
    /\ pc' = "BuildConsumer"
    /\ UNCHANGED <<duck, merger, cursor, attempt, postgres, consumer, shutdown>>

BuildSink ==
    /\ pc = "BuildSink"
    /\ \E c \in Conns : GetConn(c) /\ sink' = c
    /\ pc' = "BuildConsumer"
    /\ UNCHANGED <<merger, cursor, attempt, postgres, consumer, shutdown>>

\* The handlers of the enabled task types, then the subscriber and its
\* credentials.
BuildConsumer ==
    /\ pc = "BuildConsumer"
    /\ CredentialsLoad
    /\ consumer' = "open"
    /\ pc' = "Serve"
    /\ UNCHANGED <<duck, merger, sink, cursor, attempt, postgres, shutdown>>

\* _bootstrap is outside of the try of run: its error ends the process with
\* whatever was opened.
BootFails ==
    /\ \/ pc \in {"Boot", "BuildMerger"} /\ ~ConfigLoads
       \/ pc \in {"BuildMerger", "BuildSink"} /\ GetConnFails
       \/ pc = "FillPool" /\ Cardinality(pool) < PoolSize /\ NoToken
       \/ pc = "BuildConsumer" /\ ~CredentialsLoad
       \/ pc \in BootSteps \ {"FillPool"} /\ Fails("assembly")
    /\ pc' = "Exited"
    /\ UNCHANGED <<duck, merger, sink, cursor, attempt, postgres, consumer, shutdown>>

-----------------------------------------------------------------------------
(***************************************************************************)
(* GCPMessageConsumer.start, as far as the connections are concerned       *)
(***************************************************************************)
\* Mutant of StartTask: the signal is only looked at when there is no work.
MutantStartTask ==
    /\ pc = "Serve"
    /\ pc' = "Write"
    /\ UNCHANGED <<duck, merger, sink, cursor, attempt, postgres, consumer, shutdown>>

StartTask ==
    /\ pc = "Serve"
    /\ ~shutdown
    /\ pc' = "Write"
    /\ UNCHANGED <<duck, merger, sink, cursor, attempt, postgres, consumer, shutdown>>

\* The signal, or an error of acknowledge or modify_ack_deadline.
LeaveLoop ==
    /\ pc = "Serve"
    /\ shutdown \/ Fails("other")
    /\ pc' = "CloseConsumer"
    /\ UNCHANGED <<duck, merger, sink, cursor, attempt, postgres, consumer, shutdown>>

\* The sink works with the connection it was built with, and asks the
\* environment for the object's address; an error ends the task and changes
\* nothing else.
Write ==
    /\ pc = "Write"
    /\ \/ pc' = "Attempt" /\ ConfigLoads /\ Succeeds(sink)
       \/ pc' = "WriteRefresh" /\ ConfigLoads /\ sink \in open /\ AuthError(sink)
       \/ pc' = "Serve" /\ (~ConfigLoads \/ sink \notin open
                           \/ Fails("retriable") \/ Fails("other"))
    /\ attempt' = 0
    /\ UNCHANGED <<duck, merger, sink, cursor, postgres, consumer, shutdown>>

WriteRefresh ==
    /\ pc = "WriteRefresh"
    /\ \/ pc' = "WriteAgain" /\ Refresh(sink)
       \/ pc' = "Serve" /\ NoToken /\ UNCHANGED stale
    /\ UNCHANGED <<pool, managed, open, merger, sink, cursor, attempt, postgres, consumer,
                   shutdown>>

\* Once and not again, whatever its error.
WriteAgain ==
    /\ pc = "WriteAgain"
    /\ \/ pc' = "Attempt" /\ ConfigLoads /\ Succeeds(sink)
       \/ pc' = "Serve" /\ (~ConfigLoads \/ sink \in stale
                           \/ Fails("retriable") \/ Fails("other"))
    /\ UNCHANGED <<duck, merger, sink, cursor, attempt, postgres, consumer, shutdown>>

\* Every attempt works on a cursor of its own.
StartAttempt ==
    /\ pc = "Attempt"
    /\ merger \in open
    /\ cursor' = merger
    /\ pc' = "Merge"
    /\ UNCHANGED <<duck, merger, sink, attempt, postgres, consumer, shutdown>>

\* A closed connection has no cursor, and the task fails.  Before the first
\* attempt the listing may fail, or find nothing to merge.
NoAttempt ==
    /\ pc = "Attempt"
    /\ merger \notin open \/ attempt = 0
    /\ pc' = "Serve"
    /\ UNCHANGED <<duck, merger, sink, cursor, attempt, postgres, consumer, shutdown>>

\* The merge succeeds or is skipped, at the first try or at the repetition; or
\* there is no new token for one.
MergeEnds ==
    /\ \/ pc \in {"Merge", "MergeAgain"}
       \/ pc = "MergeRefresh" /\ NoToken
    /\ cursor' = NoConn
    /\ pc' = "Serve"
    /\ UNCHANGED <<duck, merger, sink, attempt, postgres, consumer, shutdown>>

MergeUnauthorized ==
    /\ pc = "Merge"
    /\ AuthError(cursor)
    /\ pc' = "MergeRefresh"
    /\ UNCHANGED <<duck, merger, sink, cursor, attempt, postgres, consumer, shutdown>>

\* The operation is a closure over the cursor, the new token is asked for the
\* merger's connection.
MergeRefresh ==
    /\ pc = "MergeRefresh"
    /\ Refresh(merger)
    /\ pc' = "MergeAgain"
    /\ UNCHANGED <<pool, managed, open, merger, sink, cursor, attempt, postgres, consumer,
                   shutdown>>

\* Mutant of Drop: one retry too many.
MutantDrop ==
    /\ pc \in {"Merge", "MergeAgain", "MergeRefresh"}
    /\ attempt <= MaxRetries
    /\ Fails("retriable")
    /\ Discard(merger)
    /\ pc' = "Renew"
    /\ UNCHANGED <<merger, sink, cursor, attempt, postgres, consumer, shutdown>>

\* An error that is worth a retry: the connection is given up, and the next
\* attempt gets another.
Drop ==
    /\ pc \in {"Merge", "MergeAgain", "MergeRefresh"}
    /\ attempt < MaxRetries
    /\ Fails("retriable")
    /\ Discard(merger)
    /\ pc' = "Renew"
    /\ UNCHANGED <<merger, sink, cursor, attempt, postgres, consumer, shutdown>>

\* Mutant of Renew: the next attempt goes on with the cursor of the first.
MutantRenew ==
    /\ pc = "Renew"
    /\ \E c \in Conns : GetConn(c) /\ merger' = c
    /\ attempt' = attempt + 1
    /\ pc' = "Merge"
    /\ UNCHANGED <<sink, cursor, postgres, consumer, shutdown>>

\* A connection of the pool comes with the token it was made with.
Renew ==
    /\ pc = "Renew"
    /\ \E c \in Conns : GetConn(c) /\ merger' = c
    /\ cursor' = NoConn
    /\ attempt' = attempt + 1
    /\ pc' = "Attempt"
    /\ UNCHANGED <<sink, postgres, consumer, shutdown>>

\* The error of get_conn leaves the except clause, and the task fails; the
\* merger still refers to the connection it gave up.
RenewFails ==
    /\ pc = "Renew"
    /\ GetConnFails
    /\ cursor' = NoConn
    /\ pc' = "Serve"
    /\ UNCHANGED <<duck, merger, sink, attempt, postgres, consumer, shutdown>>

-----------------------------------------------------------------------------
(***************************************************************************)
(* Application._teardown, in the finally of run                            *)
(***************************************************************************)
\* The finally of start has closed the consumer already: a second close does
\* nothing.
CloseConsumer ==
    /\ pc = "CloseConsumer"
    /\ consumer' = "none"
    /\ pc' = "CloseDuck"
    /\ UNCHANGED <<duck, merger, sink, cursor, attempt, postgres, shutdown>>

\* close_all closes what the list knows, whoever uses it.
CloseDuck ==
    /\ pc = "CloseDuck"
    /\ pool' = {}
    /\ open' = open \ managed
    /\ stale' = stale \ managed
    /\ managed' = {}
    /\ pc' = "ClosePostgres"
    /\ UNCHANGED <<merger, sink, cursor, attempt, postgres, consumer, shutdown>>

\* An error is logged: of return_connection, so that the pool is not closed,
\* or of close.
ClosePostgres ==
    /\ pc = "ClosePostgres"
    /\ postgres' = "none" \/ (Fails("close") /\ UNCHANGED postgres)
    /\ pc' = "Exited"
    /\ UNCHANGED <<duck, merger, sink, cursor, attempt, consumer, shutdown>>

\* The Deployment starts a process that remembers nothing.
Restart ==
    /\ pc = "Exited"
    /\ pc' = "Boot"
    /\ pool' = {} /\ managed' = {} /\ open' = {} /\ stale' = {}
    /\ merger' = NoConn /\ sink' = NoConn /\ cursor' = NoConn
    /\ attempt' = 0
    /\ postgres' = "none" /\ consumer' = "none"
    /\ shutdown' = FALSE
    /\ UNCHANGED world

\* Before the handler is registered a signal ends the process at once.
Signal ==
    /\ pc # "Exited"
    /\ Fails("signal")
    /\ IF pc = "Boot"
       THEN pc' = "Exited" /\ UNCHANGED shutdown
       ELSE shutdown' = TRUE /\ UNCHANGED pc
    /\ UNCHANGED <<duck, merger, sink, cursor, attempt, postgres, consumer, world>>

\* A token may expire at any moment, also between the refresh and the
\* repetition.
Expire(c) ==
    /\ Fails("expiry")
    /\ c \in open \ stale
    /\ stale' = stale \cup {c}
    /\ UNCHANGED <<pc, pool, managed, open, merger, sink, cursor, attempt, postgres, consumer,
                   shutdown, world>>

\* The mounted secret is taken away, or put back.
KeyFileMoves ==
    /\ Fails("key")
    /\ keyFile' = ~keyFile
    /\ UNCHANGED <<pc, duck, merger, sink, cursor, attempt, postgres, consumer, shutdown, env>>

-----------------------------------------------------------------------------
Bootstrap ==
    /\ UNCHANGED world
    /\ \/ Register \/ FillPool \/ OpenPostgres \/ BuildMerger \/ BuildSink
       \/ BuildConsumer \/ BootFails

Work ==
    /\ UNCHANGED world
    /\ \/ StartTask \/ LeaveLoop
       \/ Write \/ WriteRefresh \/ WriteAgain
       \/ StartAttempt \/ NoAttempt
       \/ MergeEnds \/ MergeUnauthorized \/ MergeRefresh
       \/ Drop \/ Renew \/ RenewFails

Teardown == UNCHANGED world /\ (CloseConsumer \/ CloseDuck \/ ClosePostgres)

Next ==
    \/ Bootstrap \/ Work \/ Teardown \/ Restart \/ Signal
    \/ KeyFileMoves
    \/ \E c \in Conns : Expire(c)

\* The main thread runs on; the Deployment restarts what ended.
Fairness == WF_vars(Bootstrap \/ Work \/ Teardown) /\ WF_vars(Restart)

Spec == Init /\ [][Next]_vars /\ Fairness

-----------------------------------------------------------------------------
(***************************************************************************)
(* Properties                                                              *)
(***************************************************************************)
Serving == pc \in TaskSteps

\* The sink and the merger never use one connection together, nor one that
\* the pool could hand to somebody else: DuckDBManager keeps no record of who
\* has what.
NoneShared ==
    /\ merger # NoConn => merger # sink
    /\ {merger, sink} \cap pool = {}

\* However often the merger gives up its connection, the sink's stays open:
\* nothing would ever replace that one.
SinkStaysUsable == Serving => sink \in open

\* Replacing connections does not pile them up: never more are open than the
\* pool was filled with, or than the two users need.
ConnectionsBounded ==
    Cardinality(open) <= (IF PoolSize > 2 THEN PoolSize ELSE 2)

\* After an error of authorisation the connection that gets the new token is
\* the one that the repetition works on: the sink's, though nobody replaces it,
\* is still open, and the merger's is the one of the cursor in hand, also after
\* retries have exchanged connections (with_gcs_auth_retry is told of the
\* connection and of the operation separately).
RepetitionIsRenewed ==
    [][ /\ pc = "WriteRefresh" /\ pc' = "WriteAgain" => sink' \in open' \ stale'
        /\ pc = "MergeRefresh" /\ pc' = "MergeAgain" => cursor' \in open' \ stale' ]_vars

\* What ends in run's finally leaves no DuckDB connection open: close_all
\* reaches every one ever handed out, in the pool or not, whenever the signal
\* or the error came.
TeardownClosesAll ==
    [][pc = "ClosePostgres" /\ pc' = "Exited" => open' = {}]_vars

\* A signal ends the process, also one that comes during the assembly.
SignalEndsProcess == shutdown ~> pc = "Exited"
=============================================================================
