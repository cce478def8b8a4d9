----------------------------- MODULE StoreUpkeep -----------------------------
(***************************************************************************)
(* The maintenance of the bucket beside the tasks: clean_invalid_columns   *)
(* and rename_columns of BlobParquetDataHelper rewrite one part after the  *)
(* other, each into a temporary object next to it that takes its place.    *)
(* Nothing coordinates this with the tasks.                                *)
(*                                                                         *)
(* Whether a part has one of the columns is left open; a rewritten part    *)
(* has the rows of the one it was made from.                               *)
(***************************************************************************)
EXTENDS PriceStore

CONSTANTS
    Suffixes,       \* of the temporary objects: .tmp_clean, .tmp_rename
    MaxPasses       \* bound: how often the bucket is maintained

ASSUME PassesAssumption == MaxPasses \in Nat

VARIABLES
    at,         \* where the maintenance is
    kind,       \* which of the two functions runs
    files,      \* the parts it has still to look at
    file,       \* the part it is rewriting
    spare,      \* bucket: the temporary objects <part>.tmp_clean, .tmp_rename
    contended,  \* history: codes two actors were at work on at once
    passes      \* runs of the maintenance still to come (bounds the model)

upkeep == <<at, kind, files, file, passes>>
upkeepVars == <<vars, upkeep, spare, contended>>

\* A part is in a folder of its code or in one under a temporary name; the
\* glob **/*.parquet finds both.
Files == {"data", "temp"} \X Codes \X Spans

Part(f) == IF f[1] = "data" THEN data[f[2]][f[3]].rows ELSE temp[f[2]][f[3]].rows

SetPart(f, R) ==
    /\ data' = IF f[1] = "data" THEN [data EXCEPT ![f[2]][f[3]].rows = R] ELSE data
    /\ temp' = IF f[1] = "temp" THEN [temp EXCEPT ![f[2]][f[3]].rows = R] ELSE temp

UpkeepInit ==
    /\ Init
    /\ at = "Idle"
    /\ kind = CHOOSE k \in Suffixes : TRUE
    /\ files = {}
    /\ file = CHOOSE f \in Files : TRUE
    /\ spare = [f \in Files |-> [k \in Suffixes |-> {}]]
    /\ contended = {}
    /\ passes = MaxPasses

\* Who is at work on a code: tasks that loaded its rows, and the maintenance
\* from the copy of one of its parts until the copy has replaced it.
Contended ==
    {c \in Codes :
        \/ \E v, w \in Workers : v # w /\ frame[v][c] # {} /\ frame[w][c] # {}
        \/ \E w \in Workers : frame[w][c] # {} /\ at \in {"Remove", "Replace"} /\ file[2] = c}

Watch == contended' = contended \cup Contended'

-----------------------------------------------------------------------------
\* A step of the maintenance that leaves the tasks and the parts alone.
Quiet ==
    /\ UNCHANGED <<table, pc, frame, todo, job, saved, merged, tasks>>
    /\ Watch

Glob ==
    /\ at = "Idle" /\ passes > 0
    /\ passes' = passes - 1
    /\ kind' \in Suffixes
    /\ files' = {f \in Files : Part(f) # {}}
    /\ at' = "Look"
    /\ UNCHANGED <<bucket, torn, file, spare>>
    /\ Quiet

\* The part does not exist any more, has none of the columns, or cannot be
\* read: it is skipped.
Skip(f) ==
    /\ at = "Look" /\ f \in files
    /\ files' = files \ {f}
    /\ UNCHANGED <<bucket, torn, at, kind, file, spare, passes>>
    /\ Quiet

ReadSchema(f) ==
    /\ at = "Look" /\ f \in files
    /\ Part(f) # {}
    /\ file' = f
    /\ files' = files \ {f}
    /\ at' = "Copy"
    /\ UNCHANGED <<bucket, torn, kind, spare, passes>>
    /\ Quiet

\* Mutant of CopyColumns: reads all parts of the code.
MutantCopyColumns ==
    /\ at = "Copy"
    /\ Part(file) # {}
    /\ spare' = [spare EXCEPT ![file][kind] = SourceRows(file[2])]
    /\ at' = "Remove"
    /\ UNCHANGED <<bucket, torn, kind, files, file, passes>>
    /\ Quiet

\* COPY (SELECT * EXCLUDE ... / SELECT "old" AS "new" ...) TO '<part>.<suffix>'
CopyColumns ==
    /\ at = "Copy"
    /\ Part(file) # {}
    /\ spare' = [spare EXCEPT ![file][kind] = Part(file)]
    /\ at' = "Remove"
    /\ UNCHANGED <<bucket, torn, kind, files, file, passes>>
    /\ Quiet

\* if fs.exists(part): fs.rm(part)
RemovePart ==
    /\ at = "Remove"
    /\ SetPart(file, {})
    /\ at' = "Replace"
    /\ UNCHANGED <<torn, kind, files, file, spare, passes>>
    /\ Quiet

\* fs.move copies, then removes.
ReplacePart ==
    /\ at = "Replace"
    /\ spare[file][kind] # {}
    /\ SetPart(file, spare[file][kind])
    /\ at' = "Discard"
    /\ UNCHANGED <<torn, kind, files, file, spare, passes>>
    /\ Quiet

\* Mutant of DiscardSpare: the part is removed instead of the object it was
\* replaced with.
MutantDiscardSpare ==
    /\ at = "Discard"
    /\ spare[file][kind] # {}
    /\ SetPart(file, {})
    /\ at' = "Look"
    /\ UNCHANGED <<torn, kind, files, file, spare, passes>>
    /\ Quiet

DiscardSpare ==
    /\ at = "Discard"
    /\ spare[file][kind] # {}
    /\ spare' = [spare EXCEPT ![file][kind] = {}]
    /\ at' = "Look"
    /\ UNCHANGED <<bucket, torn, kind, files, file, passes>>
    /\ Quiet

\* Until it has been replaced a part that is removed is nowhere.
Torn == torn' = IF at = "Replace" THEN torn \cup {file[2]} ELSE torn

\* An error is logged, and the next part is looked at.  What others took away
\* is an error as well.
SwallowError ==
    /\ at \in {"Copy", "Remove", "Replace", "Discard"}
    /\ \/ \E k \in ErrorKinds : Fails(k)
       \/ at \in {"Copy", "Remove"} /\ Part(file) = {}
       \/ at \in {"Replace", "Discard"} /\ spare[file][kind] = {}
    /\ at' = "Look"
    /\ Torn
    /\ UNCHANGED <<bucket, kind, files, file, spare, passes>>
    /\ Quiet

EndPass ==
    /\ at = "Look" /\ files = {}
    /\ at' = "Idle"
    /\ UNCHANGED <<bucket, torn, kind, files, file, spare, passes>>
    /\ Quiet

Die ==
    /\ at # "Idle" /\ Fails("crash")
    /\ at' = "Idle"
    /\ files' = {}
    /\ Torn
    /\ UNCHANGED <<bucket, kind, file, spare, passes>>
    /\ Quiet

Maintain ==
    \/ Glob \/ CopyColumns \/ RemovePart \/ ReplacePart \/ DiscardSpare
    \/ SwallowError \/ EndPass \/ Die
    \/ \E f \in Files : Skip(f) \/ ReadSchema(f)

-----------------------------------------------------------------------------
\* The tasks do not know the spare objects, but remove and move whole folders.
Removed(f) ==
    \E w \in Workers :
        /\ f[2] = job[w].code
        /\ \/ /\ f[1] = "data" /\ f[3] = job[w].span
              /\ pc[w] = "RemoveFinal" /\ pc'[w] = "MoveMarker"
           \/ /\ f[1] = "data" /\ f[3] \in job[w].old
              /\ pc[w] = "RemoveOld" /\ pc'[w] = "RemoveOld" /\ f[3] \notin job'[w].old
           \/ /\ f[1] = "temp" /\ f[3] = job[w].span
              /\ pc[w] = "DropTemp" /\ pc'[w] = "ListOld"
           \/ /\ f[1] = "temp" /\ f[3] = job[w].span
              /\ pc[w] = "Sweep" /\ pc'[w] \in {"Range", "Merge"} /\ ~job[w].moved

\* The children of the folder a merge moves into this place.
Arriving(f) ==
    \E w \in Workers :
        /\ f = <<"data", job[w].code, job[w].span>>
        /\ pc[w] = "MovePart" /\ pc'[w] = "DropTemp"

SparesFollow ==
    spare' = [f \in Files |->
                 IF Removed(f)
                 THEN [k \in Suffixes |-> {}]
                 ELSE [k \in Suffixes |->
                          IF Arriving(f) /\ spare[<<"temp", f[2], f[3]>>][k] # {}
                          THEN spare[<<"temp", f[2], f[3]>>][k]
                          ELSE spare[f][k]]]

Work == Next /\ SparesFollow /\ UNCHANGED upkeep /\ Watch

UpkeepNext == Work \/ Maintain

UpkeepSpec == UpkeepInit /\ [][UpkeepNext]_upkeepVars

-----------------------------------------------------------------------------
\* Where a part is while the maintenance swaps it.
InTransit(c) == IF at = "Replace" /\ file[2] = c THEN spare[file][kind] ELSE {}

\* Maintenance beside the tasks, with deaths anywhere and calls that fail for
\* what the other took away: a saved row
\* leaves the readers' sight only if a swap was interrupted, or if two actors
\* were at work on one code at once; what an interrupted pass left behind
\* never takes the place of anything newer (blob_parquet_helper.py:67-69).
OnlyOverlapsLoseRows ==
    \A c \in Codes \ (torn \cup contended) :
        saved[c] \subseteq Readable(c) \cup InTransit(c)

\* A folder that is found without overlapping work has the rows its name
\* speaks of, before, during and after a rewrite: a rewritten part never has
\* rows of another folder, or of an earlier time.
OnlyOverlapsMislead ==
    \A c \in Codes \ contended : \A s \in Sources(c) : SpanOf(data[c][s].rows) = s

=============================================================================
