# A verification of the stock-analysis task worker

The repository is a worker that pulls messages from a Pub/Sub subscription, each
naming one row of the PostgreSQL table `task_event`; claims the row; runs the
handler of the row's `event_name` (today one handler: the preprocessing of stock
prices into parquet datasets in a bucket); writes a verdict into the row; and
acknowledges the message. Beside the worker the repository holds the code that tests
strategies on such prices, saves the results, and maintains the bucket by hand. This
directory models the worker fleet, the bucket with its maintenance, the process with its
connections and credentials, the locks, the backtest and its results in TLA+, checks
the models with TLC and proves their most important properties with TLAPS.

Paths below are relative to the repository, `src/`.

## 1. The parts of the system

| part | state | operations | interacts with |
|---|---|---|---|
| Message consumption `service/consumer/gcp_consumer.py`, `core/life_cycle/lifecycle.py` | `pending_ack_ids`, the message in hand, `_in_flight`, `_closed`, `shutdown_event` | `start` (pull, batch loop, return of a batch), `_process_message`, `_prepare_task_event`, `_execute_task_event`, `_ack_message`, `close`, `_signal_handler` | Pub/Sub; calls the claim, the coordinator and the error handler |
| Task coordination `service/task/task_coordinator.py`, `task_factory.py`, `handler.py` | loop variable of the retries, the verdict | `execute`, `_excute_with_retry`, dispatch by `event_name` | calls the handler and `update_task_event`; waits on `shutdown_event` |
| Task event store `service/taskevent/helper.py`, `infra/repo/pg_dao.py`, `models/task_event.py` | the table `task_event`; the transaction state of one connection | `db_claim_task`, `update_task_event`, `handle_error`, `TaskEvent.from_dict` | shared by all workers; the connection is shared by the consumer and the handler |
| Preprocessing pipeline `service/task/pandas_preprocesse_handler.py`, `service/pipline/*`, `infra/repo/data_loaders/sql_loader.py` | the loaded data frame | load, stages, sink, post actions | table `trade_price`, sink, merger |
| Parquet sink `infra/repo/pipline_model/pandas_trade_price_datasink.py` | folders of the bucket | one part and one `_SUCCESS` per (code, candle) | bucket; `FileLocker`; one DuckDB connection for good |
| Parquet merger `infra/repo/data_meger/blob_parquet_meger.py`, `infra/repo/duckdb/gcs_auth_retry.py` | folders of the bucket, `TEMP_` folders; attempt, `temp_path`, `moved` | `batch_merge`, `merge_single` with its retries, its repetition after an authorisation error, its `finally` | bucket; `DuckDBManager` |
| File locks `core/file_lock/file_lock_manager.py` | `_locks`, `_last_used` | `get_lock`, `_cleanup` | the sink's threads |
| DuckDB connections `infra/repo/duckdb_manager.py`, `infra/repo/duckdb/*` | `_pool`, `_all_connections`; the token of each connection | `initialize`, `get_conn`, `return_conn`, `return_and_delete`, `refresh_gcs_auth`, `close_all` | sink, merger, `Application` |
| Credentials `infra/repo/gcp/gcp_auth.py`, `infra/repo/gcp/pubsub_auth.py`, `infra/repo/object_storage.py` | none: the environment and the key file are read again every time | mode, key file, credentials, tokens, clients | DuckDB connections, file system, subscriber |
| Process `app/application.py`, `app/cloud/`, `app/task/` | what was assembled | `_bootstrap`, `run`, `_teardown` | all of the above; signals; the Kubernetes Deployment |
| PostgreSQL pool `infra/repo/pg_dao.py` (`DatabasePool`, `BaseRepository`) | one connection per thread, the state of its transaction | get, return, close; `execute`, `fetch_*`, `commit`, `rollback` | `Application`, handler, the DAOs |
| Backtest results `infra/repo/data_savers/*`, `DatabaseRepository` of `pg_dao.py` | objects, one shared JSON report, the tables `test_result` and `process_log` | `prepare_save_file_key`, `save_file`, `append_to_file`, `prepare_final_report`, `upsert_test_result`, `batch_insert_task_history_2_process_log`, `get_test_results` | bucket, PostgreSQL pool; called by no handler at this commit |
| Parquet maintenance `infra/repo/data_helper/blob_parquet_helper.py` | objects | `clean_invalid_columns`, `rename_columns`, object by object | bucket, beside the tasks; run by hand |
| Strategies and trades `strategy/`, `models/strategy/` | the prepared frame; a trade | `pre_process_data`, `excute_trade_mark`, `apply_take_profit`, `apply_stop_loss`; `Trade.update`, `close_trade`, `to_dataframe` | indicators; the testing loop is not in the repository |
| Indicators and patterns `technicals/` | none | EMA, MA, ATR, RSI, BIAS, Bollinger Bands, Keltner Channels, MACD, engulfing; candle patterns | strategies; the preprocessing |
| Work status `util/status_manager.py` | one status | `transition_to` | called by nothing at this commit |
| Configuration and command line, logging | environment | read at the start | - |

What is hard here:

* **Delivery.** Pub/Sub delivers at least once: a message may be delivered again
  while its task is still being executed (the acknowledgement deadline is never
  extended), after it was acknowledged, or because it was published twice. The only
  thing between two workers is the `WHERE ... status = 'pending'` of one UPDATE.
* **Death.** A process may be killed between any two calls; nothing looks for rows
  left `running`.
* **Partial failure of the database.** `update_task_event` does not roll back: a
  rejected statement leaves the connection's transaction aborted, and the next
  task's claim pays for it. A lost connection is never replaced. A commit whose
  answer is lost may have happened.
* **Error paths that write.** Three places write a failed verdict (the coordinator's
  `finally`, `_execute_task_event`, `_prepare_task_event`), none looks at the status
  it overwrites.
* **No transactions in the bucket.** A merge is about ten calls on single objects,
  under two nested retries, with a `finally` that depends on a flag.
* **Signals**, at every moment: during the assembly, a batch, a backoff.
* **Locks and connections thrown away** while somebody may still use them, and tokens
  that grow old in a pool nobody looks at.
* **Maintenance beside the tasks.** A rewrite removes an object before it puts the new
  one there, on folders that tasks write, merge and remove.
* **Read, change, replace without a lock.** All results share one JSON object.
* **Frames written in turn.** Every indicator adds columns to the frame the others left,
  some take a column they find by its name; shifts, windows and fills must not let a
  row know a later one.

The complete list, with lines and the properties that would catch each hazard going
wrong, is `hazards` in `PROJECT.json`.

## 2. The modules

    TaskLifecycle          what the fleet promises about one row (abstract)
      ^ refined by
    TaskWorker             the fleet: queue, rows, threads, connections
      MCTaskWorker         instances of it for TLC
      TaskWorkerProofs     theorems: whatever goes wrong, and for fleets whose
                           database or Pub/Sub answers
    PriceStore             what tasks do to the bucket
      PriceStoreProofs     theorems
      StoreUpkeep          the same bucket with the maintenance beside the tasks
        StoreUpkeepProofs  theorems, on the lemmas of PriceStoreProofs
    FileLocker             the in-process locks
      FileLockerProofs     theorems
    WorkerProcess          one process from assembly to end: DuckDB connections,
                           tokens, credentials
      WorkerProcessProofs  theorems
    Results                files, report and rows of backtest results
      MCResults            an instance of it for TLC
      ResultsProofs        theorems
    Technicals             numbers, columns, indicators, patterns (operators only)
      TechnicalsProofs     lemmas about them
      Backtest             preparing, marking and walking through a series
        MCBacktest         an instance of it for TLC
        BacktestProofs     theorems, on the lemmas of TechnicalsProofs

### TaskLifecycle

The statuses of a row and whether its handler has returned normally. `Start`,
`Process`, `Complete`, `GiveUp`: the row leaves `pending` once, becomes `completed`
only after its work was done, `failed` only if it was not, and a verdict is final.
That is `Spec`, which the fleet keeps while the database answers. `LenientSpec` adds
what error handlers can do when statements fail: `Overrule` any status with `failed`,
and still finish work that was overruled. What remains true even then is that
`completed` is only written after the work was done and that work is done once.

### TaskWorker

One worker is one process with one thread and one PostgreSQL connection, as in the
code. A worker's step lies between two calls that leave the process, so that
everything another process, the queue or a signal does may come between any two calls.

| state | code |
|---|---|
| `delivery`, `holder` | Pub/Sub (external): what became of a message, and whose `ack_id` is current |
| `row` | `task_event.status`, `event_stage` |
| `pc`, `job`, `pending` | the thread, the locals of `_process_message`, `pending_ack_ids` |
| `conn` | psycopg2's connection: usable, in an aborted transaction, dead |
| `shutdown` | `shutdown_event` |
| `owner`, `calls`, `processed` | history: who claimed, how often the handler was called, whether it returned |
| `budget` | how many disturbances are still to come |

`Pull`, `NextMessage`, `BatchDone`, `ReturnBatch`, `ReturnFails`, `LeaveLoop` are the
loop of `start`; `ClaimWins`, `ClaimLoses`, `ClaimRejected`, `ClaimDisconnected`,
`PrepareFailed` are `_prepare_task_event` with `db_claim_task` and `handle_error`;
`Dispatch`, `HandlerReturns`, `HandlerRaisesTransient`, `HandlerRaises`, `Backoff`,
`Finish`, `Report` are `_execute_task_event` with the coordinator; `Ack`, `AckFails`,
`Close`, `Crash`, `Restart`, `Signal` the ends. `UpdateTaskEvent` has the five outcomes
of an UPDATE with its commit. `Disturbances` chooses what may go wrong: a rejected
`statement`, a lost `connection`, a `commit` whose answer is lost, a failing `ack`, a
`crash`, a lease that `expire`s under a slow worker, a `signal`.

The handler is opaque here: it returns, raises `TransientError` or raises anything
else. No handler at this commit raises `TransientError`; the interface
(`service/task/handler.py`) and the coordinator allow it, so the model does. `close`
waits for tasks in flight; the one thread that could have one is the thread that
calls it, so there is nothing to wait for. Time is left out: a backoff may end at any
moment. A pull that finds nothing or fails changes nothing and is not a step.

### PriceStore

`data[c][s]` is the folder `<code>_<from>_<to>.parquet` of code `c` (with its candle)
and days `s`, `temp` the folder `TEMP_...` of the same name. A row stands for the
prices of one day, so that removing duplicates, whichever of them it keeps, is the
union of sets. `Load`, `WritePart`, `WriteMarker`, `SinkFails` are the pipeline;
`StartMerge` to `MergeDone` are `merge_single` call by call: read the range, copy to
`TEMP_`, mark, remove the target, copy `_SUCCESS`, copy the part, remove `TEMP_`, list
and remove the other folders. `CallFails` is the failure of any of these calls, with
its three consequences: the repetition of the whole operation after an authorisation
error with the locals as they are (`RefreshAndRepeat`), a new attempt
(`NewAttemptFollows`), giving up (`GivesUp`). `Sweep` is the `finally`. A failing call
has no effect. `Exclusive` says whether two tasks may work on one code at once: the
docstring of `BlobParquetMerger` asks its users to prevent it and nothing in `src/`
enforces it (the chart's default of one replica does).

### StoreUpkeep

Extends PriceStore by one more actor. `Glob` takes the list of parts, `Skip`,
`ReadSchema`, `CopyColumns`, `RemovePart`, `ReplacePart`, `DiscardSpare` are the loop body
of `clean_invalid_columns` and of `rename_columns`, which differ in the suffix of their
temporary object; `SwallowError` is the `except` of the loop, `Die` the end of the script.
`spare` holds the temporary objects. They lie in the folder of their part, so that the
tasks, which do not know them, remove and move them with the folder (`SparesFollow`).
`contended` remembers the codes two actors were at work on at once, and is what the
properties except.

### FileLocker

`Call` reads the time, `Get` is the body of `get_lock` under the global lock with
`_cleanup` inside it, `Acquire` and `Release` are the `with` statement of the sink. The
clock is an integer that never goes back; `Patience` bounds a use from the call of
`get_lock` to the release.

### WorkerProcess

`Register` to `BuildConsumer` are `_bootstrap` in order, `BootFails` its failure;
`StartTask`, `Write`, `WriteRefresh`, `WriteAgain`, `StartAttempt`, `NoAttempt`, `MergeEnds`,
`MergeUnauthorized`, `MergeRefresh`, `Drop`, `Renew`, `RenewFails` are the tasks as far as
connections are concerned; `CloseConsumer`, `CloseDuck`, `ClosePostgres` are `_teardown`. `GetConn`,
`Create`, `Discard`, `Refresh` are `DuckDBManager`. `AuthMode`, `KeyResolves`, `ConfigLoads`
and `CredentialsLoad` are `gcp_auth`: what the environment says is chosen at the start from
five settings, and the key file may come and go. `merger` is the merger's connection and
`cursor` the one that the cursor of the attempt in hand belongs to: `with_gcs_auth_retry` is
given both, asks for a new token for the first (`MergeRefresh`) and repeats an operation
that works on the second (`MergeEnds`, `Drop` at `MergeAgain`). A retry exchanges the first
(`Drop`, `Renew`), and the next attempt takes a cursor of it (`StartAttempt`). `stale` is the
set of connections whose token is not valid any more; `Expire` may add any of them at any
moment. `open` is the set of connections nobody has closed: an error of `close` is swallowed
(`duckdb_manager.py:70-74`, `:87-91`), and whether the connection then is closed nobody asks.
An error while the PostgreSQL pool is closed is swallowed too and leaves the pool as it was
(`ClosePostgres`). The error patterns of `with_gcs_auth_retry` are words and numbers in the
text of an error, so that other errors may look like one of authorisation (`AuthError`).

### Results

One thread saves one result after another: `Begin`, `save_file`, the two halves of
`append_to_file` (`ReadReport`, `WriteReport`), `upsert_test_result` with its commit, and
the pages of `batch_insert_task_history_2_process_log` (`execute_batch`). In between, any
thread queries on the same connection (`Query`, `get_test_results`), takes one from the pool
or gives it back. The connection is `idle`, in an `open` or an `aborted` transaction, or `lost`; `pending` is what the
transaction has written. That the operations come in this order, and that the caller goes on
after an error, is an assumption: no caller is in the repository. `stamp` is the second
time `prepare_final_report` reads the clock: `key_string` ends in two times.

### Technicals and Backtest

A number is a fraction `<<numerator, denominator>>` in lowest terms or `NaN`; a column is
a sequence of them, a frame a function from names to columns. `Technicals` has the pandas
operations the code uses (external: `shift`, `rolling`, `ewm`, `fillna`) and the
indicators and patterns made of them. Floats are exact fractions here, rounded to hundredths
where the code rounds (`Rounded`: `body_perc` and the RSI), the square root of the
Bollinger Bands is left out (the column is the variance, `BB_VAR`, which is missing
exactly where the band is), and the infinity of a division by zero is told apart from
`NaN` only where the code does.

In `Backtest` the price table grows day by day (`NewBar`), and `frame` is what the strategy
prepares from it; since the frame of a prefix is that of an earlier state, a property of
the last row of every prefix is one of every row.
When the series is complete a loop opens a trade at a BUY, shows it every later row and
closes by force what is open at the end (`OpenTrade`, `UpdateTrade`, `Idle`, `ForceClose`).
The strategy (buy after a rise, or after a fall) and the loop are external.

### How they fit together

The modules are views of one system, cut where the code's components meet in a few
outcomes. For TaskWorker the whole of PriceStore is one call of the handler that
returns or raises; PriceStore's `Leave` is that return. WorkerProcess refines neither:
it follows the process-local state both ignore (connections), and what TaskWorker has
as `Close` and `Restart` is there step by step. FileLocker's `with` block is the
`WritePart`/`WriteMarker` of PriceStore, where the lock is left out: it excludes
threads of one process, and today's worker has one. StoreUpkeep composes the tasks of
PriceStore with the maintenance on one bucket. Backtest reads what PriceStore keeps, as
rows, and Results keeps what Backtest reports, as names.

## 3. What is checked

`PROJECT.json` lists, for each property, a mutant: a plausible mistake in one
definition with which TLC finds the property violated.

| run | instance | shows |
|---|---|---|
| `delivery` | 2 workers, 2 tasks (one without a handler), batches of 2, 2 attempts, any 3 of early expiry and signals | `MutualExclusion`, `CallsBounded`, `VerdictMatchesOutcome`, `AckedIsSettled` (an acknowledged message is never the only trace of unfinished work), `NoLeaseLeftBehind` (a stopped worker keeps no message), `EventuallySettled`, `SignalEndsProcess` |
| `crashes` | one task published twice, one row that does not parse, one message that does not; a crash, a failing acknowledgement or an early expiry | the fleet implements `TaskLifecycle!Spec` (`KeepsPromise`) |
| `faults` | 2 workers, 2 tasks, any 2 of all seven kinds of disturbance | `CompletedMeansProcessed`, `KeepsLenientPromise`, `EventuallyAcked` |
| `store` | 1 code, 3 days, 3 tasks, every kind of error any number of times, crashes | `NoRowLost`: only an interrupted swap can take a saved row away; `NamesTellTheTruth`; `MergedIntoOne`: leftovers of earlier tasks do not hinder a merge |
| `store_live` | 2 tasks on one code at once, every kind of error, crashes | `EveryTaskEnds` |
| `upkeep` | 1 code, 2 days, 2 tasks beside 2 runs of the maintenance, deaths anywhere, objects taken away from one another | `OnlyOverlapsLoseRows`: what an interrupted pass leaves behind never hides or replaces a newer row; `OnlyOverlapsMislead`: a rewritten part has the rows its folder's name speaks of |
| `locks` | 2 threads, 2 paths, timeout 4, uses of at most 2 | `MutualExclusion`, `UsedLocksAreKept` |
| `process` | pool of 3, 2 retries per merge, 5 settings of the environment, a key file that comes and goes, expiring tokens, all disturbances, restarts | `NoneShared`, `SinkStaysUsable`, `ConnectionsBounded`, `RepetitionIsRenewed` (the connection that gets the new token is the one of the cursor the repetition runs on, after any exchange of connections), `TeardownClosesAll`, `SignalEndsProcess` |
| `results` | 2 threads, 2 results of equal parameters, 2 seconds, batches of 2 pages | `SavedIsKept`, `OnlyCrossingsLoseEntries` (an entry of the report is lost only if two appends cross), `BatchIsWhole` (also after an upsert or a query that left its transaction failed or open) |
| `backtest` | every series of up to 3 of 11 candles, 2 lists of indicators, both strategies, signals shifted or not | `NoLookAhead`, `EntryIsBlind`, `ColumnsAreTheirOwn` (an indicator that finds a column of its average takes the right one), `WarmUpIsExact`, `CandlesAreSound` (body, bottom and top agree up to the rounding of the body; neither rounding nor a missing range makes a pattern, and no row is two of hanging man, shooting star and spinning top), `EngulfingAgrees` (two implementations of one pattern), `TradesSettleAtALimit`, `ClosedIsFinal` |

Two runs show a disagreement between the code and its own words:

* `completed_overruled`: an error during the claim of a duplicate overwrites
  `completed` with `failed`; `core/error/task_error.py` calls a repeated delivery of a
  completed task no real failure, to be acknowledged only.
* `merge_skipped`: a merge logged as skipped may have destroyed the only copy of the
  rows, when the merged folder has the name of its only source.

More was seen while modelling, without a sentence in the repository to measure it by:

* a connection lost at the claim gets the message acknowledged while its task stays
  `pending` for ever, and the worker goes on with the dead connection;
* a task whose worker dies after the claim stays `running` for ever;
* with two tasks on one code at once (`Exclusive = FALSE`) `NoRowLost` fails without
  any error, as the docstring of `BlobParquetMerger` warns;
* with `Timeout = 3`, `Patience = 2`, `UsedLocksAreKept` fails: the time of a use is read
  before the global lock, so a slow thread moves `_last_used` back. The condition of the
  theorems, `2 * Patience <= Timeout`, cannot be weakened to `Patience <= Timeout`;
* when `get_conn` fails after `return_and_delete`, the merger keeps the connection it
  has closed (`RenewFails`), and all its later merges fail;
* after a signal in the backoff the coordinator logs that the retry is interrupted
  (`service/task/task_coordinator.py:81`) and retries (`Backoff`);
* `moved` survives an operation that is repeated after an authorisation error, so that
  the temporary folder stays although `docs/blob_parquet_merger.md:76` promises its
  removal (`Sweep`);
* `get_conn` hands out a connection of the pool whatever its token, while the docstring at
  `infra/repo/duckdb/gcs_config.py:55` has the pool refresh before a reuse; it is
  `with_gcs_auth_retry` that makes good for it;
* two results of equal parameters in one second share their key, files and row: the
  docstring of `prepare_save_file_key` (`infra/repo/data_savers/base.py:68`) speaks of
  microseconds, the format at `:81` ends in seconds. `SavedIsKept` excepts them;
* comments and docstrings with other numbers than the code: the spinning top
  (`technicals/pattern.py:45-51`), the limits of a trade (`strategy/base.py:47-66`);
* a trade that is closed by force is reported as `open`, and a return of exactly zero as
  missing (`close_trade`, `to_dataframe`).

### Bounds

Two workers and two tasks suffice for every conflict of the fleet: a conflict is about
one message or one row and two processes; the second task is there for what one task
leaves to the next on the same connection. `MaxDisturbances` is the only bound on what
goes wrong there. Three days give overlapping, nested and disjoint folders; three
tasks let one task meet what two others left. In PriceStore the kinds of failures are
restricted by the run and their number is not; `MaxTasks` bounds the tasks.
`LastMoment` lets the clock pass a timeout and a clean-up. In WorkerProcess nothing is
bounded but the number of names for connections, which exceeds what can be open.

The model of PriceStore has several codes in one task; the runs use one, because the
codes share nothing but the order in which a task visits them. `upkeep` has one thread of
tasks and the maintenance: with two days and two tasks a folder can be written, merged
and replaced while the maintenance holds a list that names it, and the second pass meets
what the first left behind. In `results` one set of parameters makes every two results
collide that fall into one second, and two seconds let them fall apart; threads and
results are alike (symmetry). In `backtest` three rows are one more than the period of
the indicators (two; three for the ATR and for the signal line of the MACD), so that the
warm-up ends inside the series; eight candles have every direction, a missing range,
missing shadows and each of the patterns; the two plans bring the indicators that share
a column name into both orders. The factors (+1/2, -1/2) are reached by these prices.
Three more candles lie where rounding matters: a body of 393/401 is 98.00499 percent, more
than the limit 98, and rounded is not; one of 151/1007 is 14.99503 percent, and rounded is
the limit 15; 1/32 lies in the middle between two hundredths. So the opposite of what
`CandlesAreSound` says is false: a pattern of the exact body may be lost by rounding.

### Fairness

* TaskWorker: each worker's thread runs on (`WF` of `Step`, which includes `Restart`,
  the Deployment's work), and Pub/Sub redelivers what nobody will acknowledge (`WF` of
  `Redeliver`). Signals, crashes and early expiry have no fairness. An acknowledgement,
  an update or a pull always returns or raises, since the clients have timeouts or the
  connection breaks. `WF` is enough: nothing but a disturbance disables a worker's step.
* PriceStore: the thread of a running task runs on; new tasks and new prices need not
  come.
* WorkerProcess: the main thread runs on, and the Deployment restarts what ended.
* FileLocker, StoreUpkeep, Results, Backtest: none; their properties are safety.

## 4. What is proved

The theorems hold for every value of the constants, that is for any number of workers,
messages, tasks, codes, days, threads, paths, connections and results, any batch size and
number of attempts, and without a bound on disturbances.

**TaskWorkerProofs**, whatever goes wrong: `TypeCorrect`, `MutualExclusionHolds`, `CallsBoundedHolds`,
`CompletedMeansProcessedHolds`, `KeepsLenientPromiseHolds`.

None of the safety properties is inductive. What makes them so is the conjunction
`Inv`: a worker inside a task is the task's `owner` and the task is not pending; a
pending task was never called nor processed; while a worker is inside, the number of
calls is tied to the attempt it is at; a worker with the verdict `completed` has
processed its task. `MutualExclusion` follows since a task has one owner and a claim
needs a pending row, which no worker is inside of. `InsideStep`, `OutsideStep`,
`ClaimStep`, `ConsumeStep`, `PrepareStep`, `ExecuteStep` and `LeaveStep` treat the actions in
groups, each by the conjuncts it can disturb. `LenientMapping` shows that every step is
a step of `TaskLifecycle!LenientNext` or a stutter under
`status <- [t \in Tasks |-> row[t].status]`; the five outcomes of an update are
treated once (`UpdateBecomes`).

The rest of the safety properties needs a quieter world, and the theorems say which: `DatabaseAnswers` (no `statement`, `connection`, `commit` among the
`Disturbances`), `NobodyIsKilled` (no `crash`), `PubSubAnswers` (no `ack`).
`VerdictMatchesOutcomeHolds` and `KeepsPromiseHolds` (the refinement of `TaskLifecycle!Spec`)
need the first, `AckedIsSettledHolds` the first two, `NoLeaseLeftBehindHolds` the last two.
`QuietInv` adds to `Inv` that every connection is usable, and what is known of a task in
hand, from the won claim to the last word about it (`InHand`): its row says `running`
(`HandIsRunning`), and it is not processed until the verdict is about to be written
(`HandIsOpen`). So an update in hand is the one abstract step it earned, or, when
`_execute_task_event` repeats the coordinator's `failed`, a stutter (`VerdictIsPromised`).
`SettledInv` adds that nobody left a row `running` behind (`RunningIsInHand`: this is what a
crash breaks) and that a message reaches its acknowledgement only when its row is not
pending (`AckIsLate`). `LeaseInv` says that a leased message is in its holder's `pending`.

**FileLockerProofs.** `TypeCorrect` holds without a condition; `MutualExclusionHolds` and
`UsedLocksAreKeptHolds` hold if `2 * Patience <= Timeout`. The inductive invariant `IInv` adds
to the types that a use is no older than `Patience` (`UsesAreShort`), and that the lock of
a use is in the table with a stamp at most `Patience` older than the use's own
(`UsesAreNoted`): a thread that called earlier may overwrite the stamp, but it called
at most `Patience` earlier. `UsedPathIsNotStale` is the arithmetic: the age of the
stamp is at most twice `Patience`.

**PriceStoreProofs.** `TypeCorrect` without a condition, by `TypeInv`: the types, that the
range read has ends, and that a task only has its own codes to do. `SavedRowsStay`,
`FoldersAreNamedRight` and `MergesEndInOneFolder` if no two tasks work on one code at once
(`Exclusive`), for any number of codes per task and of tasks at once. The invariant is one
for each code: `Inv` is `LocalInv` (the types, and that a task works on what it holds) and, for
every code `c`, `CodeInv(c)` and `RowsFound(c)`. `CodeInv(c)` says that one task at most holds
the code (`Alone`); that what is in the bucket came from the table (`FromTable`) and is named
for its days (`NamedRight`); and what each call of a task at work has left (`Progress`):
before it merges, a task has all rows the bucket has of its days (`FrameIsCurrent`), which is
why replacing a folder of the same name loses nothing; the part is what the frame says
(`PartIsWritten`), the range is that of all rows (`RangeIsRead`), the temporary folder and then
the final one hold them all (`TempIsWhole`, `FinalIsWhole`). `RowsFound(c)` has a saved row in a
folder or in the temporary one of a swap. A step of a task is only about what it holds
(`Sound`), and a step elsewhere leaves all that is said of `c` alone. `MergedInv` adds that
after the swap the new folder is the only one not in the list to remove. `SpanOfEnds`, that a
set of days has a first and a last, is the one place that needs that the naturals are
well-founded.

**StoreUpkeepProofs.** `UpkeepKeepsRows` (`OnlyOverlapsLoseRows`) and `UpkeepKeepsNames`
(`OnlyOverlapsMislead`), for every number of workers, codes, days and passes, and without
`Exclusive`: that is why the invariant of the tasks is kept code by code, since here it holds
of the codes only that were never `contended`. `UpkeepInv` adds to it that the history knows of
every overlap (`OverlapsKnown`), that the copy of a part is the part as long as it is to take
its place (`CopyIsPart`), and that while a part is nowhere its copy has rows of the table,
those that the folder's name speaks of (`SwapIsWhole`). A saved row is then in a folder, in a
temporary folder or in the copy in the script's hand (`SafeRows`). Rewriting and the tasks' own
steps are treated apart: nobody is at work on the code whose part is taken away
(`NobodyHolds`), unless the history has it.

**WorkerProcessProofs.** `TypeCorrect`, `NoneSharedHolds`, `SinkStaysUsableHolds`,
`RepetitionIsRenewedHolds`, `TeardownClosesAllHolds`, `ConnectionsBoundedHolds`, for every size
of the pool and number of retries. `Inv` adds what makes them inductive: the pool is open and the manager
knows all that is open (`PoolIsOpen`), the assembly has not yet given out what comes later
(`HandedOut`), what the teardown has closed is closed (`TornDown`), a connection is only
given up with an attempt left (`RetryLeft`), and the cursor of an attempt is that of the
merger's connection, which is open (`CursorIsMergers`): `RepetitionIsRenewed` follows from it,
and `Renew` is the step that would break it if it kept the cursor. `GetConnGivesOwn` is the heart: what `get_conn`
returns is open and nobody else's. `TeardownClosesAll` is an action property: `PoolIsOpen`
makes `close_all`, which only knows its list, close everything. `ConnectionsBounded` needs
more than `Inv`, and its bound is part of what is kept (`BoundInv`): every open connection is
in the pool or in the hand of the sink or of the merger (`AllAccountedFor`), so that `get_conn`
only makes a new one when the pool is empty and at most two are open.

**ResultsProofs.** `BatchIsWholeHolds`, `SavedIsKeptHolds`, `OnlyCrossingsLoseEntriesHolds`: all that the
run checks. `Inv` carries the log: rows of it wait for a commit only during a batch
(`PendingOnlyInBatch`), a result has one thread (`OneSaver`) and no rows before its batch
(`BeginsUnlogged`). `KeepInv`, on top of it, carries the rest: a thread has not returned
from what is still before it (`NotYet`), a commit has its row (`CommitHasRow`), two threads
between reading and replacing the report have crossed (`TogetherCross`), and an entry that
crossed no other is in the report and in all that was read of it (`EntriesAreSeen`). The last
one is what a write needs to bring the entry back; `TogetherCross` is why it holds
when the entry is new.

**TechnicalsProofs** is about the operators, for columns of every length and every period.
Induction is done with sets: a set of natural numbers that is not empty has a least one
(`LeastOf`), so that a set with 0 that is closed under successors has them all (`AllNumbers`).
From it come the recursions (`GcdStep`, `DecayedStep`, `SmoothedStep`: there is such a function,
and it is the one defined), the greatest common divisor (`GcdDivides`, `GcdScales`) and with it
the arithmetic of exact fractions (`SameFraction`, `SumOf`, `ProductOf`, `QuotientOf`,
`DifferenceOf`, `Comparison`). On these rest five groups of lemmas: what
rounding does, which is to stay within half a hundredth (`NearestInteger`, `RoundedIs`) and so
on its own side of a whole limit that it does not reach (`RoundedIsClose`); the parts of a candle
(`TallCandle`, `FlatCandle`, `CandleIsSound`); that two frames that are alike on their first rows
are alike there after any indicator (`Twin`, `Alike`, one lemma for each indicator); that an
indicator computes its columns from the prices even if it finds its average or its range in
the frame (`KeltnerIsOwn`, `BiasIsOwn`); and where a column begins (`Begins`): numbers stay
numbers under sums and products, and under quotients by what is positive, which the weights
of the means, the period and a positive price are.

**BacktestProofs** has all that the run checks, for series of every length. `ClosedIsFinalHolds`
needs no condition. `TradeInv` adds that nothing is closed at a row that was not seen, and that
a trade that is closed and still `running` was closed by force, when no row was left: the flag
alone, which `close_trade` leaves set, would let `update` close it again.
`CandlesAreSoundHolds` and `EngulfingAgreesHolds` need no condition either; `FrameInv` says that
the frame is always prepared from the rows there are. `NoLookAheadHolds` is the argument of the
alike frames carried through `pre_process_data` and `excute_trade_mark`; `EntryIsBlindHolds` is
the same for two series that differ in the last row, of which shifted signals do not show.
The remaining three have conditions, which say where the property is true of the code:

* `TradesSettleAtALimitHolds`: prices of entry are positive and the limits lie on their own
  side of it (`PricesArePositive`, `LimitsAreApart`). With a price of zero the return rate of a
  trade is a division by zero; with crossed limits both are reached at once.
* `ColumnsAreTheirOwnHolds`: no strategy has MACD, Bollinger Bands or Keltner Channels twice
  with different periods (`OnePeriod`), since their column names carry none and the later
  columns replace the earlier. `Written` is what an indicator writes, with the averages it
  leaves; `Shared` is kept by all of them.
* `WarmUpIsExactHolds`: in addition, closing prices are positive (`ClosesArePositive`: BIAS
  divides by their average) and Bollinger Bands, MACD and RSI have a period above one
  (`PeriodsAreLong`: of one row there is neither a variance nor a faster average, and a
  smoothing over one row forgets that the price ever moved). That an RSI has a number
  exactly when the price has moved is `StrengthBegins`: the smoothed rises and falls are
  positive from the first rise and fall on (`SmoothedSign`), and of two zeros there is no
  quotient, while a price that never fell has the infinite strength that becomes 100
  (`InfiniteStrength`).

The run's instance meets all of these conditions.

The assumptions are the named `ASSUME`s of the modules, which only say that
placeholders such as `NoWorker` are not members of the sets they are added to, that
bounds are natural numbers, and of which kind the parameters are.

**Only model-checked** are the liveness properties: `EventuallySettled`, `EventuallyAcked`,
`EveryTaskEnds` and both `SignalEndsProcess`. They rest on fairness, and fairness speaks of
`ENABLED`, which is out of TLAPS' reach. Every invariant, every action property and both
refinements of the passing runs are stated by a theorem.

## 5. What is not modelled

* `merge_all_available_data`, which a script calls; `return_conn`, which nobody calls.
* Tweezers and the morning star (patterns of several candles that repeat the shape of the
  engulfing), the cleaning of column types, the formatting of reports and dates.
* The concrete strategies and the loop that tests them: they are not in the repository.
  `models/strategy/` holds copies of `strategy/`, and the map names the latter.
* `util/status_manager.py`: a table of transitions under a lock, which nothing uses. A
  model would restate the table.
* Logging, the command line, settings other than those of the credentials, and the Helm
  chart beyond the restart.
* The last digits of floats: fractions are exact, and `.round(2)` rounds the exact number,
  a number in the middle between two hundredths to the even one. The product the code
  rounds may lie on either side of that middle.

Of the bucket: a recursive removal is one step, listings are current, and PriceStore
leaves out the authorisation retry of the sink (it writes the same objects again; what
it means for the connection is in WorkerProcess). SIGKILL is a step of TaskWorker and
PriceStore, and not of WorkerProcess, whose subject is what a process does with its
resources while it lives. The order of `_SUCCESS` and part is modelled, and no property is
stated about it: no code in `src/` reads the marker.

## 6. Plan

Done: every component of section 1 that is not excepted in section 5 is modelled and
checked, and every safety property of the runs is proved. In the order of their worth, what
is left:

1. what the liveness properties rest on and can be proved without fairness: that a step of
   a worker is enabled wherever it is not stopped is an invariant about guards;
2. the conditions under which `FoldersAreNamedRight` and `SavedRowsStay` hold without
   `Exclusive`, code by code, as in StoreUpkeepProofs;
3. the pure helpers (`util/task_util.py`, `util/generate_util.py`, `_parse_code_list`)
   against reference definitions, and the patterns that are left.

## 7. Running it

    tlc -workers 2 -config delivery.cfg MCTaskWorker.tla
    tlc -workers 2 -config store.cfg PriceStore.tla
    tlc -workers 2 -config locks.cfg FileLocker.tla
    tlc -workers 2 -config process.cfg WorkerProcess.tla
    tlc -workers 2 -config upkeep.cfg StoreUpkeep.tla
    tlc -workers 2 -config results.cfg MCResults.tla
    tlc -workers 2 -config backtest.cfg MCBacktest.tla
    tlapm TaskWorkerProofs.tla
    tlapm FileLockerProofs.tla
    tlapm WorkerProcessProofs.tla
    tlapm ResultsProofs.tla
    tlapm PriceStoreProofs.tla
    tlapm StoreUpkeepProofs.tla
    tlapm TechnicalsProofs.tla
    tlapm BacktestProofs.tla

Each configuration names the module it belongs to in `runs` of `PROJECT.json`.
