----------------------------- MODULE PriceStore -----------------------------
(***************************************************************************)
(* What one preprocessing task does to the bucket: load the prices of some *)
(* codes from PostgreSQL, write one dataset folder per code named after    *)
(* the days it spans (PandasTradePriceObjectStorageParquetSink), then      *)
(* merge all folders of each code into one (BlobParquetMerger).  The       *)
(* bucket has no transactions: a merge is a sequence of remote calls on    *)
(* single objects, any of which may fail, and the process may die between  *)
(* two of them.                                                            *)
(*                                                                         *)
(* A row stands for the prices of one day; the candle is part of the code. *)
(* Of a folder's objects the model keeps the part and the marker _SUCCESS. *)
(***************************************************************************)
EXTENDS Integers, FiniteSets

CONSTANTS
    Workers,
    Codes,
    LastDay,         \* days are 1..LastDay
    MaxRetries,      \* _MAX_MERGE_RETRIES
    Exclusive,       \* may two tasks work on one code at once?  The comment on
                     \* BlobParquetMerger asks its users to prevent it
    Disturbances,    \* what may go wrong, at any remote call and any number
                     \* of times
    MaxTasks         \* bound: how many tasks are run

\* Errors of a remote call, as the error handlers tell them apart by their
\* text, and the death of the process.
ErrorKinds == {"auth", "retriable", "other"}

ASSUME CodesAssumption == Codes # {}
ASSUME LastDayAssumption == LastDay \in Nat \ {0}
ASSUME RetriesAssumption == MaxRetries \in Nat
ASSUME ExclusiveAssumption == Exclusive \in BOOLEAN
ASSUME DisturbancesAssumption == Disturbances \subseteq ErrorKinds \cup {"crash"}
ASSUME BoundAssumption == MaxTasks \in Nat

VARIABLES
    table,      \* PostgreSQL: the days of each code in trade_price
    data,       \* bucket: the folders <code>_<from>_<to>
    temp,       \* bucket: the folders TEMP_<code>_<from>_<to>
    pc,         \* where a worker's task is
    frame,      \* the rows a worker's task loaded
    todo,       \* the codes of the frame still to be written, or merged
    job,        \* the locals of merge_single
    saved,      \* history: the rows of each code that a sink wrote completely
    torn,       \* history: the codes whose swap of folders was interrupted
    merged,     \* history: the codes that a worker's task merged
    tasks       \* tasks still to be run (bounds the model)

bucket == <<data, temp>>
history == <<saved, torn, merged>>
vars == <<table, data, temp, pc, frame, todo, job, history, tasks>>

Days == 1 .. LastDay
Spans == {s \in Days \X Days : s[1] <= s[2]}
NoSpan == <<0, 0>>

Folder == [rows : SUBSET Days, marked : BOOLEAN]
Absent == [rows |-> {}, marked |-> FALSE]

Job == [code : Codes, span : Spans \cup {NoSpan}, moved : BOOLEAN,
        refreshed : BOOLEAN, attempt : Nat, again : BOOLEAN,
        old : SUBSET Spans]

MergeSteps == {"Range", "Copy", "Mark", "RemoveFinal", "MoveMarker", "MovePart",
               "DropTemp", "ListOld", "RemoveOld"}
PCs == MergeSteps \cup {"Idle", "WritePart", "WriteMarker", "Merge", "Sweep",
                        "Returned"}

TypeOK ==
    /\ table \in [Codes -> SUBSET Days]
    /\ data \in [Codes -> [Spans -> Folder]]
    /\ temp \in [Codes -> [Spans -> Folder]]
    /\ pc \in [Workers -> PCs]
    /\ frame \in [Workers -> [Codes -> SUBSET Days]]
    /\ todo \in [Workers -> SUBSET Codes]
    /\ job \in [Workers -> Job]
    /\ saved \in [Codes -> SUBSET Days]
    /\ torn \subseteq Codes
    /\ merged \in [Workers -> SUBSET Codes]
    /\ tasks \in Nat

NoFolders == [c \in Codes |-> [s \in Spans |-> Absent]]
NoRows == [c \in Codes |-> {}]

\* The locals of a new attempt of merge_single for code c.
NewAttempt(c, n) ==
    [code |-> c, span |-> NoSpan, moved |-> FALSE, refreshed |-> FALSE,
     attempt |-> n, again |-> FALSE, old |-> {}]

Init ==
    /\ table = NoRows
    /\ data = NoFolders
    /\ temp = NoFolders
    /\ pc = [w \in Workers |-> "Idle"]
    /\ frame = [w \in Workers |-> NoRows]
    /\ todo = [w \in Workers |-> {}]
    /\ job = [w \in Workers |-> NewAttempt(CHOOSE c \in Codes : TRUE, 0)]
    /\ saved = NoRows
    /\ torn = {}
    /\ merged = [w \in Workers |-> {}]
    /\ tasks = MaxTasks

-----------------------------------------------------------------------------
(***************************************************************************)
(* Helpers                                                                 *)
(***************************************************************************)
Goto(w, to) == pc' = [pc EXCEPT ![w] = to]

Fails(kind) == kind \in Disturbances

\* Mutant of SpanOf: the day after the last, as in a half-open range.
MutantSpanOf(R) == <<CHOOSE d \in R : \A e \in R : d <= e,
                     1 + CHOOSE d \in R : \A e \in R : d >= e>>

\* The days from the first to the last of R, as the name of a folder.
SpanOf(R) == <<CHOOSE d \in R : \A e \in R : d <= e,
               CHOOSE d \in R : \A e \in R : d >= e>>

\* What read_parquet of a code's glob finds, and the folders it finds it in.
\* A TEMP_ folder does not match the glob.
Sources(c) == {s \in Spans : data[c][s].rows # {}}
SourceRows(c) == UNION {data[c][s].rows : s \in Spans}

\* Nobody else is at work on one of the codes.
Free(w, codes) ==
    \A v \in Workers \ {w} : \A c \in codes : frame[v][c] = {}

SetData(w, folder) ==
    data' = [data EXCEPT ![job[w].code][job[w].span] = folder]
SetTemp(w, folder) ==
    temp' = [temp EXCEPT ![job[w].code][job[w].span] = folder]
Final(w) == data[job[w].code][job[w].span]
Temp(w) == temp[job[w].code][job[w].span]

\* The task is over: handed back, failed or dead.
Leave(w) ==
    /\ Goto(w, "Idle")
    /\ frame' = [frame EXCEPT ![w] = NoRows]
    /\ todo' = [todo EXCEPT ![w] = {}]
    /\ merged' = [merged EXCEPT ![w] = {}]

-----------------------------------------------------------------------------
(***************************************************************************)
(* The pipeline: load, write                                               *)
(***************************************************************************)
\* The downloader adds the prices of a day.
Download(c, d) ==
    /\ d \notin table[c]
    /\ table' = [table EXCEPT ![c] = @ \cup {d}]
    /\ UNCHANGED <<bucket, pc, frame, todo, job, history, tasks>>

\* A task asks for some codes and a range of days.  Without rows it fails
\* before it touches the bucket.
Load(w) ==
    /\ pc[w] = "Idle"
    /\ tasks > 0
    /\ tasks' = tasks - 1
    /\ \E codes \in SUBSET Codes, s \in Spans :
          LET rows(c) == IF c \in codes THEN table[c] \cap (s[1] .. s[2]) ELSE {}
              found == {c \in Codes : rows(c) # {}}
          IN /\ found # {}
             /\ Exclusive => Free(w, found)
             /\ frame' = [frame EXCEPT ![w] = [c \in Codes |-> rows(c)]]
             /\ todo' = [todo EXCEPT ![w] = found]
    /\ Goto(w, "WritePart")
    /\ UNCHANGED <<table, bucket, job, history>>

\* COPY ... TO '<folder>/part-00000.snappy.parquet' replaces the part.
PartWritten(c, R) == [data EXCEPT ![c][SpanOf(R)].rows = R]

WritePart(w) ==
    /\ pc[w] = "WritePart"
    /\ \E c \in todo[w] :
          /\ data' = PartWritten(c, frame[w][c])
          /\ job' = [job EXCEPT ![w].code = c, ![w].span = SpanOf(frame[w][c])]
    /\ Goto(w, "WriteMarker")
    /\ UNCHANGED <<table, temp, frame, todo, history, tasks>>

\* The marker ends a group; after the last one the merges begin.
WriteMarker(w) ==
    /\ pc[w] = "WriteMarker"
    /\ SetData(w, [Final(w) EXCEPT !.marked = TRUE])
    /\ LET c == job[w].code
           rest == todo[w] \ {c}
       IN /\ saved' = [saved EXCEPT ![c] = @ \cup frame[w][c]]
          /\ \/ /\ rest # {}
                /\ todo' = [todo EXCEPT ![w] = rest]
                /\ Goto(w, "WritePart")
             \/ /\ rest = {}
                /\ todo' = [todo EXCEPT ![w] = {k \in Codes : frame[w][k] # {}}]
                /\ Goto(w, "Merge")
    /\ UNCHANGED <<table, temp, frame, job, torn, merged, tasks>>

\* An error that refreshing the token does not cure ends the task: no group
\* after this one is written, and nothing is merged.
SinkFails(w) ==
    /\ pc[w] \in {"WritePart", "WriteMarker"}
    /\ \E kind \in ErrorKinds : Fails(kind)
    /\ Leave(w)
    /\ UNCHANGED <<table, bucket, job, saved, torn, tasks>>

-----------------------------------------------------------------------------
(***************************************************************************)
(* BlobParquetMerger.batch_merge and merge_single                          *)
(***************************************************************************)
StartMerge(w) ==
    /\ pc[w] = "Merge"
    /\ \E c \in todo[w] :
          /\ job' = [job EXCEPT ![w] = NewAttempt(c, 0)]
          /\ todo' = [todo EXCEPT ![w] = @ \ {c}]
          /\ Goto(w, IF Sources(c) = {} THEN "Merge" ELSE "Range")
    /\ UNCHANGED <<table, bucket, frame, history, tasks>>

\* The listing of the sources is outside of every try.
ListingFails(w) ==
    /\ pc[w] = "Merge"
    /\ todo[w] # {}
    /\ \E kind \in ErrorKinds : Fails(kind)
    /\ Leave(w)
    /\ UNCHANGED <<table, bucket, job, saved, torn, tasks>>

\* A merge that gave up returns as one that succeeded: so does the handler.
BatchMerged(w) ==
    /\ pc[w] = "Merge"
    /\ todo[w] = {}
    /\ Goto(w, "Returned")
    /\ UNCHANGED <<table, bucket, frame, todo, job, history, tasks>>

TaskEnds(w) ==
    /\ pc[w] = "Returned"
    /\ Leave(w)
    /\ UNCHANGED <<table, bucket, job, saved, torn, tasks>>

\* A step of _merge_with_duckdb: one remote call.
Call(w, at, next) ==
    /\ pc[w] = at
    /\ Goto(w, next)
    /\ UNCHANGED <<table, frame, todo, history, tasks>>

\* Mutant of ReadRange: the target is named after the rows of the task.
MutantReadRange(w) ==
    /\ Call(w, "Range", "Copy")
    /\ SourceRows(job[w].code) # {}
    /\ job' = [job EXCEPT ![w].span = SpanOf(frame[w][job[w].code])]
    /\ UNCHANGED bucket

\* SELECT MIN, MAX: only now temp_path names a folder.
ReadRange(w) ==
    /\ Call(w, "Range", "Copy")
    /\ SourceRows(job[w].code) # {}
    /\ job' = [job EXCEPT ![w].span = SpanOf(SourceRows(job[w].code))]
    /\ UNCHANGED bucket

\* The glob is read a second time.
CopyToTemp(w) ==
    /\ Call(w, "Copy", "Mark")
    /\ SourceRows(job[w].code) # {}
    /\ SetTemp(w, [Temp(w) EXCEPT !.rows = SourceRows(job[w].code)])
    /\ UNCHANGED <<data, job>>

MarkTemp(w) ==
    /\ Call(w, "Mark", "RemoveFinal")
    /\ SetTemp(w, [Temp(w) EXCEPT !.marked = TRUE])
    /\ UNCHANGED <<data, job>>

\* The target may be one of the sources, and the only one.
RemoveFinal(w) ==
    /\ Call(w, "RemoveFinal", "MoveMarker")
    /\ SetData(w, Absent)
    /\ UNCHANGED <<temp, job>>

\* The children of the folder are copied in the order of their names:
\* _SUCCESS, then the part.
MoveMarker(w) ==
    /\ Call(w, "MoveMarker", "MovePart")
    /\ Temp(w) # Absent
    /\ SetData(w, [Final(w) EXCEPT !.marked = Temp(w).marked])
    /\ UNCHANGED <<temp, job>>

MovePart(w) ==
    /\ Call(w, "MovePart", "DropTemp")
    /\ Temp(w).rows # {}
    /\ SetData(w, [Final(w) EXCEPT !.rows = Temp(w).rows])
    /\ UNCHANGED <<temp, job>>

\* Mutant of DropTemp: the folder is copied, not moved.
MutantDropTemp(w) ==
    /\ Call(w, "DropTemp", "ListOld")
    /\ Temp(w) # Absent
    /\ job' = [job EXCEPT ![w].moved = TRUE]
    /\ UNCHANGED bucket

DropTemp(w) ==
    /\ Call(w, "DropTemp", "ListOld")
    /\ Temp(w) # Absent
    /\ SetTemp(w, Absent)
    /\ job' = [job EXCEPT ![w].moved = TRUE]
    /\ UNCHANGED data

\* Mutant of ListOld: the merged folder is not kept.
MutantListOld(w) ==
    /\ Call(w, "ListOld", "RemoveOld")
    /\ job' = [job EXCEPT ![w].old = Sources(job[w].code)]
    /\ UNCHANGED bucket

ListOld(w) ==
    /\ Call(w, "ListOld", "RemoveOld")
    /\ job' = [job EXCEPT ![w].old = Sources(job[w].code) \ {job[w].span}]
    /\ UNCHANGED bucket

RemoveOld(w) ==
    /\ Call(w, "RemoveOld", "RemoveOld")
    /\ \E s \in job[w].old :
          /\ data' = [data EXCEPT ![job[w].code][s] = Absent]
          /\ job' = [job EXCEPT ![w].old = @ \ {s}]
    /\ UNCHANGED temp

\* The finally has nothing to sweep: the folder was moved.
MergeDone(w) ==
    /\ pc[w] = "RemoveOld"
    /\ job[w].old = {}
    /\ merged' = [merged EXCEPT ![w] = @ \cup {job[w].code}]
    /\ Goto(w, "Merge")
    /\ UNCHANGED <<table, bucket, frame, todo, job, saved, torn, tasks>>

\* Between the removal of the old folder and the arrival of the new part the
\* rows of a code are in no place where a reader looks.
Swapping(w) == pc[w] \in {"MoveMarker", "MovePart"}

Interrupts(w) == torn' = IF Swapping(w) THEN torn \cup {job[w].code} ELSE torn

\* What another worker took away: reading no file, copying a missing object,
\* removing a missing folder.
Missing(w) ==
    \/ pc[w] \in {"Range", "Copy"} /\ SourceRows(job[w].code) = {}
    \/ pc[w] = "MovePart" /\ Temp(w).rows = {}
    \/ pc[w] \in {"MoveMarker", "DropTemp"} /\ Temp(w) = Absent

(***************************************************************************)
(* A call of merge_single fails.  The first time its text speaks of        *)
(* authorisation, the token is refreshed and the whole operation repeated, *)
(* with the locals as they are.  The texts of _RETRIABLE_MERGE_ERROR_...   *)
(* start a new attempt after the finally; everything else gives up.        *)
(***************************************************************************)
RefreshAndRepeat(w) ==
    /\ ~job[w].refreshed
    /\ Fails("auth")
    /\ job' = [job EXCEPT ![w].refreshed = TRUE]
    /\ Goto(w, "Range")

NewAttemptFollows(w) ==
    /\ job[w].attempt < MaxRetries
    /\ Fails("retriable")
    /\ job' = [job EXCEPT ![w].again = TRUE]
    /\ Goto(w, "Sweep")

\* An error of authorisation gets here after the token was refreshed once, or
\* because refreshing it failed.
GivesUp(w) ==
    /\ \/ Fails("other") \/ Fails("auth")
       \/ job[w].attempt = MaxRetries /\ Fails("retriable")
       \/ Missing(w)
    /\ Goto(w, "Sweep")
    /\ UNCHANGED job

CallFails(w) ==
    /\ pc[w] \in MergeSteps
    /\ RefreshAndRepeat(w) \/ NewAttemptFollows(w) \/ GivesUp(w)
    /\ Interrupts(w)
    /\ UNCHANGED <<table, bucket, frame, todo, saved, merged, tasks>>

\* The finally: the temporary folder goes, unless the flag says it was moved.
Sweeps(w) == job[w].span # NoSpan /\ ~job[w].moved

\* Mutant of Sweep: the attempts are not counted.
MutantSweep(w) ==
    /\ pc[w] = "Sweep"
    /\ IF Sweeps(w) THEN SetTemp(w, Absent) ELSE UNCHANGED temp
    /\ \/ /\ job[w].again
          /\ job' = [job EXCEPT ![w] = NewAttempt(@.code, @.attempt)]
          /\ Goto(w, "Range")
       \/ /\ ~job[w].again
          /\ UNCHANGED job
          /\ Goto(w, "Merge")
    /\ UNCHANGED <<table, data, frame, todo, history, tasks>>

Sweep(w) ==
    /\ pc[w] = "Sweep"
    /\ IF Sweeps(w) THEN SetTemp(w, Absent) ELSE UNCHANGED temp
    /\ \/ /\ job[w].again
          /\ job' = [job EXCEPT ![w] = NewAttempt(@.code, @.attempt + 1)]
          /\ Goto(w, "Range")
       \/ /\ ~job[w].again
          /\ UNCHANGED job
          /\ Goto(w, "Merge")
    /\ UNCHANGED <<table, data, frame, todo, history, tasks>>

\* An error of the finally leaves merge_single: the task fails.
SweepFails(w) ==
    /\ pc[w] = "Sweep"
    /\ Sweeps(w)
    /\ \E kind \in ErrorKinds : Fails(kind)
    /\ Leave(w)
    /\ UNCHANGED <<table, bucket, job, saved, torn, tasks>>

Crash(w) ==
    /\ pc[w] # "Idle"
    /\ Fails("crash")
    /\ Leave(w)
    /\ Interrupts(w)
    /\ UNCHANGED <<table, bucket, job, saved, tasks>>

-----------------------------------------------------------------------------
Write(w) == WritePart(w) \/ WriteMarker(w) \/ SinkFails(w)

Merge(w) ==
    \/ ReadRange(w) \/ CopyToTemp(w) \/ MarkTemp(w) \/ RemoveFinal(w)
    \/ MoveMarker(w) \/ MovePart(w) \/ DropTemp(w) \/ ListOld(w)
    \/ RemoveOld(w) \/ MergeDone(w) \/ CallFails(w) \/ Sweep(w) \/ SweepFails(w)

Batch(w) == StartMerge(w) \/ ListingFails(w) \/ BatchMerged(w) \/ TaskEnds(w)

Next ==
    \/ \E c \in Codes, d \in Days : Download(c, d)
    \/ \E w \in Workers : Load(w) \/ Write(w) \/ Merge(w) \/ Batch(w) \/ Crash(w)

\* The thread of a task runs on; new tasks and new prices may come or not.
Fairness == \A w \in Workers : WF_vars(Write(w) \/ Merge(w) \/ Batch(w))

Spec == Init /\ [][Next]_vars /\ Fairness
-----------------------------------------------------------------------------
(***************************************************************************)
(* Properties                                                              *)
(***************************************************************************)
\* Where the rows of a code can be found: in its folders, or in the temporary
\* folder that a merge is about to put in their place.
Readable(c) ==
    SourceRows(c) \cup
        UNION {Temp(w).rows : w \in {v \in Workers : Swapping(v) /\ job[v].code = c}}

\* The swap of folders is the only moment at which an error or a crash can
\* take a saved row from the readers: whatever goes wrong in any other step,
\* and whatever is repeated after it, every row ever saved can be read.
NoRowLost == \A c \in Codes \ torn : saved[c] \subseteq Readable(c)

\* A folder holds exactly the days its name speaks of: the first and the last
\* of its rows are those of the name, however merges are cut short.
NamesTellTheTruth ==
    \A c \in Codes : \A s \in Sources(c) : SpanOf(data[c][s].rows) = s

\* A merge that ends normally leaves one folder for its code, marked complete,
\* and no copy of it under the temporary name, whatever earlier attempts and
\* earlier tasks left behind; and so it stays until the task is over.
MergedIntoOne ==
    \A w \in Workers : \A c \in merged[w] :
        \E s \in Spans :
            /\ Sources(c) = {s}
            /\ data[c][s].marked
            /\ temp[c][s] = Absent

\* Every task comes to an end: the retries are bounded.
EveryTaskEnds == \A w \in Workers : (pc[w] # "Idle") ~> (pc[w] = "Idle")

(***************************************************************************)
(* What the docs and messages of the code say, and the code does not do    *)
(***************************************************************************)
\* blob_parquet_meger.py:210 logs "Merge failed, skip": a merge that is
\* skipped leaves the rows the task wrote where they were.
SkippedMergeKeepsRows ==
    \A w \in Workers : pc[w] = "Returned" =>
        \A c \in Codes : frame[w][c] \subseteq SourceRows(c)
=============================================================================
