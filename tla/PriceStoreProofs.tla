--------------------------- MODULE PriceStoreProofs ---------------------------
(***************************************************************************)
(* The bucket, proved for every number of workers, codes, days and         *)
(* retries, whatever fails: under the condition that no two tasks work on  *)
(* one code at once, the rows that were saved stay readable but for an     *)
(* interrupted swap, and the names of folders speak of what is in them.    *)
(***************************************************************************)
EXTENDS PriceStore, WellFoundedInduction, TLAPS

-----------------------------------------------------------------------------
(***************************************************************************)
(* Days and folders                                                        *)
(***************************************************************************)
\* Every set of days has a first and a last one.
LEMMA FirstDay ==
    ASSUME NEW R \in SUBSET Nat, R # {}
    PROVE  \E d \in R : \A e \in R : d <= e
  <1>1. PICK d \in R : \A e \in R : ~ (<<e, d>> \in OpToRel(<, Nat))
    BY NatLessThanWellFounded, WFMin
  <1>2. \A e \in R : ~ (e < d)
    BY <1>1 DEF OpToRel
  <1>3. d \in R
    BY <1>1
  <1> QED
    BY <1>2, <1>3

LEMMA LastDayOf ==
    ASSUME NEW R \in SUBSET Days, R # {}
    PROVE  \E d \in R : \A e \in R : d >= e
  <1> DEFINE B == {LastDay - d : d \in R}
  <1>1. \A d \in R : LastDay - d \in Nat
    BY LastDayAssumption DEF Days
  <1>2. B \in SUBSET Nat /\ B # {}
    BY <1>1
  <1>3. PICK b \in B : \A x \in B : b <= x
    BY <1>2, FirstDay
  <1>4. PICK d \in R : b = LastDay - d
    BY <1>3
  <1>5. \A e \in R : LastDay - d <= LastDay - e
    BY <1>3, <1>4
  <1> QED
    BY <1>4, <1>5, LastDayAssumption DEF Days

LEMMA SpanOfEnds ==
    ASSUME NEW R \in SUBSET Days, R # {}
    PROVE  /\ SpanOf(R) \in Spans
           /\ SpanOf(R)[1] \in R /\ SpanOf(R)[2] \in R
           /\ \A e \in R : SpanOf(R)[1] <= e /\ e <= SpanOf(R)[2]
  <1> DEFINE first == CHOOSE d \in R : \A e \in R : d <= e
             last == CHOOSE d \in R : \A e \in R : d >= e
  <1>1. first \in R /\ \A e \in R : first <= e
    <2>1. \E d \in R : \A e \in R : d <= e
      BY FirstDay DEF Days
    <2> QED
      BY <2>1
  <1>2. last \in R /\ \A e \in R : last >= e
    BY LastDayOf
  <1>3. SpanOf(R) = <<first, last>>
    BY DEF SpanOf
  <1> HIDE DEF first, last
  <1> QED
    BY <1>1, <1>2, <1>3, LastDayAssumption DEF Spans, Days

\* The two levels of a bucket, folder by folder.
LEMMA PutFolder ==
    ASSUME NEW f \in [Codes -> [Spans -> Folder]], NEW c \in Codes, NEW s \in Spans,
           NEW x \in Folder
    PROVE  /\ [f EXCEPT ![c][s] = x] \in [Codes -> [Spans -> Folder]]
           /\ \A k \in Codes, u \in Spans :
                 [f EXCEPT ![c][s] = x][k][u] = IF k = c /\ u = s THEN x ELSE f[k][u]
  OBVIOUS

LEMMA AbsentIsFolder == Absent \in Folder /\ Absent.rows = {}
  BY DEF Absent, Folder

LEMMA FolderFields ==
    ASSUME NEW x \in Folder, NEW R \in SUBSET Days, NEW m \in BOOLEAN
    PROVE  /\ x.rows \in SUBSET Days /\ x.marked \in BOOLEAN
           /\ [x EXCEPT !.rows = R] \in Folder /\ [x EXCEPT !.rows = R].rows = R
           /\ [x EXCEPT !.marked = m] \in Folder /\ [x EXCEPT !.marked = m].rows = x.rows
  BY DEF Folder

LEMMA InSources == \A c, d : d \in SourceRows(c) <=> \E s \in Spans : d \in data[c][s].rows
  BY DEF SourceRows

LEMMA InSourcesNext ==
    \A c, d : d \in SourceRows(c)' <=> \E s \in Spans : d \in data'[c][s].rows
  BY DEF SourceRows

-----------------------------------------------------------------------------
(***************************************************************************)
(* The inductive invariant.  It is a conjunction over the codes, so that   *)
(* it can be used of one code where others are worked on by two tasks.     *)
(***************************************************************************)
Held(w) == {c \in Codes : frame[w][c] # {}}

Copied == {"Mark", "RemoveFinal", "MoveMarker", "MovePart"}
Moved == {"DropTemp", "ListOld", "RemoveOld"}
AtWork == MergeSteps \cup {"Sweep", "WriteMarker"}

SpanIsRead(w) ==
    pc[w] \in Copied \cup Moved \cup {"Copy", "WriteMarker"} => job[w].span \in Spans

TypeInv ==
    /\ TypeOK
    /\ \A w \in Workers : SpanIsRead(w) /\ todo[w] \subseteq Held(w)

\* A task works on what it holds.
AtItsCode(w) == pc[w] \in AtWork => job[w].code \in Held(w)

LocalInv == TypeInv /\ \A w \in Workers : AtItsCode(w)

\* A code is one task's, from its loading to its end.
Alone(c) == \A v, w \in Workers : c \in Held(v) /\ c \in Held(w) => v = w

\* Everything in the bucket, and in a task, came from the table.
FromTable(c) ==
    /\ \A s \in Spans : data[c][s].rows \subseteq table[c]
    /\ \A w \in Workers : frame[w][c] \subseteq table[c]

NamedRight(c) == \A s \in Sources(c) : SpanOf(data[c][s].rows) = s

Within(R, d) == SpanOf(R)[1] <= d /\ d <= SpanOf(R)[2]

\* Before it merges, a task has all rows that the bucket has of its days.
FrameIsCurrent(w, c) ==
    pc[w] \in {"WritePart", "WriteMarker"} /\ c \in Held(w) =>
        \A d \in SourceRows(c) : Within(frame[w][c], d) => d \in frame[w][c]

PartIsWritten(w, c) ==
    pc[w] = "WriteMarker" /\ job[w].code = c => Final(w).rows = frame[w][c]

RangeIsRead(w, c) ==
    pc[w] = "Copy" /\ job[w].code = c => job[w].span = SpanOf(SourceRows(c))

\* The temporary folder holds all there is, until it has replaced it.
TempIsWhole(w, c) ==
    pc[w] \in Copied /\ job[w].code = c =>
        /\ Temp(w).rows # {} /\ SpanOf(Temp(w).rows) = job[w].span
        /\ SourceRows(c) \subseteq Temp(w).rows
        /\ Temp(w).rows \subseteq table[c]

FinalIsWhole(w, c) ==
    /\ pc[w] \in Moved /\ job[w].code = c => SourceRows(c) \subseteq Final(w).rows
    /\ pc[w] = "RemoveOld" /\ job[w].code = c => job[w].span \notin job[w].old

Progress(w, c) ==
    /\ FrameIsCurrent(w, c) /\ PartIsWritten(w, c) /\ RangeIsRead(w, c)
    /\ TempIsWhole(w, c) /\ FinalIsWhole(w, c)

CodeInv(c) ==
    /\ Alone(c) /\ FromTable(c) /\ NamedRight(c)
    /\ \A w \in Workers : Progress(w, c)

\* Where a row of code c can be found because of w: NoRowLost, row by row.
Found(w, c, d) ==
    d \in SourceRows(c) \/ (Swapping(w) /\ job[w].code = c /\ d \in Temp(w).rows)

Findable(c, d) == d \in SourceRows(c) \/ \E w \in Workers : Found(w, c, d)

RowsFound(c) == c \notin torn => \A d \in saved[c] : Findable(c, d)

Inv == LocalInv /\ \A c \in Codes : CodeInv(c) /\ RowsFound(c)

\* What a step of w must do to a code.
Sound(w, c) ==
    /\ Progress(w, c)'
    /\ c \notin torn' => \A d : Found(w, c, d) => Found(w, c, d)'
    /\ saved'[c] \subseteq saved[c] \cup SourceRows(c)'
    /\ \A s \in Spans :
          \/ data'[c][s].rows = data[c][s].rows
          \/ /\ data'[c][s].rows \subseteq table[c]
             /\ data'[c][s].rows # {} => SpanOf(data'[c][s].rows) = s

Step(w) == Load(w) \/ Write(w) \/ Merge(w) \/ Batch(w) \/ Crash(w)

-----------------------------------------------------------------------------
(***************************************************************************)
(* Types                                                                   *)
(***************************************************************************)
LEMMA InitType == Init => TypeInv
  <1> SUFFICES ASSUME Init PROVE TypeInv
    OBVIOUS
  <1>1. data \in [Codes -> [Spans -> Folder]] /\ temp \in [Codes -> [Spans -> Folder]]
    BY AbsentIsFolder DEF Init, NoFolders
  <1>2. job \in [Workers -> Job]
    <2>1. (CHOOSE c \in Codes : TRUE) \in Codes
      BY CodesAssumption
    <2> QED
      BY <2>1 DEF Init, NewAttempt, Job
  <1>3. TypeOK
    BY <1>1, <1>2, BoundAssumption DEF Init, TypeOK, NoRows, PCs
  <1>4. \A w \in Workers : SpanIsRead(w) /\ todo[w] \subseteq Held(w)
    BY DEF Init, SpanIsRead, Copied, Moved
  <1> QED
    BY <1>3, <1>4 DEF TypeInv

\* A worker changes its own locals only.
Others(w) ==
    \A v \in Workers \ {w} :
        pc'[v] = pc[v] /\ frame'[v] = frame[v] /\ todo'[v] = todo[v] /\ job'[v] = job[v]

LEMMA OthersUnmoved ==
    ASSUME TypeOK, NEW w \in Workers, Step(w)
    PROVE  Others(w) /\ table' = table
  <1> USE DEF TypeOK, Others, Leave, Goto
  <1>1. CASE Load(w)
    BY <1>1 DEF Load
  <1>2. CASE Write(w)
    BY <1>2 DEF Write, WritePart, WriteMarker, SinkFails
  <1>3. CASE Merge(w)
    <2>1. CASE ReadRange(w) \/ CopyToTemp(w) \/ MarkTemp(w) \/ RemoveFinal(w) \/ MoveMarker(w)
               \/ MovePart(w) \/ DropTemp(w) \/ ListOld(w) \/ RemoveOld(w)
      BY <2>1 DEF ReadRange, CopyToTemp, MarkTemp, RemoveFinal, MoveMarker, MovePart, DropTemp,
                  ListOld, RemoveOld, Call
    <2>2. CASE CallFails(w)
      BY <2>2 DEF CallFails, RefreshAndRepeat, NewAttemptFollows, GivesUp
    <2>3. CASE MergeDone(w) \/ Sweep(w) \/ SweepFails(w)
      BY <2>3 DEF MergeDone, Sweep, SweepFails
    <2> QED
      BY <1>3, <2>1, <2>2, <2>3 DEF Merge
  <1>4. CASE Batch(w)
    BY <1>4 DEF Batch, StartMerge, ListingFails, BatchMerged, TaskEnds
  <1>5. CASE Crash(w)
    BY <1>5 DEF Crash
  <1> QED
    BY <1>1, <1>2, <1>3, <1>4, <1>5 DEF Step

\* So its step keeps the types if it keeps its own.
LEMMA TypeOfOthers ==
    ASSUME TypeInv, NEW w \in Workers, Step(w), TypeOK', SpanIsRead(w)',
           todo'[w] \subseteq Held(w)'
    PROVE  TypeInv'
  BY OthersUnmoved DEF TypeInv, Others, SpanIsRead, Held

LEMMA LeaveType ==
    ASSUME TypeOK, NEW w \in Workers, Leave(w)
    PROVE  /\ pc' \in [Workers -> PCs] /\ frame' \in [Workers -> [Codes -> SUBSET Days]]
           /\ todo' \in [Workers -> SUBSET Codes] /\ merged' \in [Workers -> SUBSET Codes]
           /\ pc'[w] = "Idle" /\ todo'[w] = {} /\ frame'[w] = NoRows
  BY DEF TypeOK, Leave, Goto, NoRows, PCs

LEMMA FolderTypes ==
    ASSUME TypeOK, NEW w \in Workers, job[w].span \in Spans
    PROVE  /\ Final(w) \in Folder /\ Temp(w) \in Folder
           /\ job[w].code \in Codes
           /\ \A x \in Folder :
                 /\ [data EXCEPT ![job[w].code][job[w].span] = x] \in [Codes -> [Spans -> Folder]]
                 /\ [temp EXCEPT ![job[w].code][job[w].span] = x] \in [Codes -> [Spans -> Folder]]
  <1>1. job[w].code \in Codes
    BY DEF TypeOK, Job
  <1>2. data \in [Codes -> [Spans -> Folder]] /\ temp \in [Codes -> [Spans -> Folder]]
    BY DEF TypeOK
  <1>3. Final(w) \in Folder /\ Temp(w) \in Folder
    BY <1>1, <1>2 DEF Final, Temp
  <1> QED
    BY <1>1, <1>2, <1>3, PutFolder

LEMMA SourceRowsType == ASSUME TypeOK, NEW c \in Codes PROVE SourceRows(c) \in SUBSET Days
  BY DEF TypeOK, SourceRows, Folder

LEMMA LoadType ==
    ASSUME TypeInv, NEW w \in Workers, Load(w)
    PROVE  TypeInv'
  <1>1. PICK codes \in SUBSET Codes, s \in Spans :
           LET rows(c) == IF c \in codes THEN table[c] \cap (s[1] .. s[2]) ELSE {}
               found == {c \in Codes : rows(c) # {}}
           IN frame' = [frame EXCEPT ![w] = [c \in Codes |-> rows(c)]]
              /\ todo' = [todo EXCEPT ![w] = found]
    BY DEF Load
  <1>2. frame' \in [Workers -> [Codes -> SUBSET Days]] /\ todo' \in [Workers -> SUBSET Codes]
    BY <1>1 DEF TypeInv, TypeOK
  <1>3. todo'[w] \subseteq Held(w)'
    BY <1>1 DEF TypeInv, TypeOK, Held
  <1>4. pc' \in [Workers -> PCs] /\ pc'[w] = "WritePart"
    BY DEF Load, TypeInv, TypeOK, Goto, PCs
  <1>5. tasks' \in Nat
    BY DEF Load, TypeInv, TypeOK
  <1>6. TypeOK'
    BY <1>2, <1>4, <1>5 DEF Load, TypeInv, TypeOK, bucket, history
  <1>7. SpanIsRead(w)'
    BY <1>4 DEF SpanIsRead, Copied, Moved
  <1> QED
    BY <1>3, <1>6, <1>7, TypeOfOthers DEF Step

LEMMA WriteType ==
    ASSUME TypeInv, NEW w \in Workers, Write(w)
    PROVE  TypeInv'
  <1>1. CASE WritePart(w)
    <2>1. PICK c \in todo[w] : /\ data' = PartWritten(c, frame[w][c])
                               /\ job' = [job EXCEPT ![w].code = c,
                                                     ![w].span = SpanOf(frame[w][c])]
      BY <1>1 DEF WritePart
    <2> DEFINE s == SpanOf(frame[w][c])
    <2>2. c \in Codes /\ s \in Spans /\ frame[w][c] \in SUBSET Days
      <3>1. c \in Codes /\ frame[w][c] \in SUBSET Days /\ frame[w][c] # {}
        BY <2>1 DEF TypeInv, TypeOK, Held
      <3> QED
        BY <3>1, SpanOfEnds
    <2>3. data' \in [Codes -> [Spans -> Folder]]
      <3>1. data' = [data EXCEPT ![c][s] = [data[c][s] EXCEPT !.rows = frame[w][c]]]
        BY <2>1, <2>2 DEF PartWritten, TypeInv, TypeOK
      <3>2. [data[c][s] EXCEPT !.rows = frame[w][c]] \in Folder
        <4> DEFINE f == data[c][s]
                   R == frame[w][c]
        <4>1. f \in Folder /\ R \in SUBSET Days /\ TRUE \in BOOLEAN
          BY <2>2 DEF TypeInv, TypeOK
        <4> HIDE DEF f, R
        <4>2. [f EXCEPT !.rows = R] \in Folder
          BY <4>1, FolderFields
        <4> QED
          BY <4>2 DEF f, R
      <3> QED
        BY <2>2, <3>1, <3>2, PutFolder DEF TypeInv, TypeOK
    <2>4. job' \in [Workers -> Job] /\ job'[w].span = s
      <3>1. job' = [job EXCEPT ![w] = [[job[w] EXCEPT !.code = c] EXCEPT !.span = s]]
        BY <2>1 DEF TypeInv, TypeOK
      <3>2. job[w] \in Job
        BY DEF TypeInv, TypeOK
      <3> HIDE DEF s
      <3>3. [[job[w] EXCEPT !.code = c] EXCEPT !.span = s] \in Job
        BY <2>2, <3>2 DEF Job
      <3> QED
        BY <2>2, <3>1, <3>2, <3>3 DEF TypeInv, TypeOK, Job
    <2>5. pc' \in [Workers -> PCs]
      BY <1>1 DEF WritePart, TypeInv, TypeOK, Goto, PCs
    <2>6. TypeOK'
      BY <1>1, <2>3, <2>4, <2>5 DEF WritePart, TypeInv, TypeOK, history
    <2>7. SpanIsRead(w)' /\ todo'[w] \subseteq Held(w)'
      BY <1>1, <2>2, <2>4 DEF WritePart, TypeInv, Held, SpanIsRead
    <2> QED
      BY <1>1, <2>6, <2>7, TypeOfOthers DEF Step, Write
  <1>2. CASE WriteMarker(w)
    <2>1. job[w].span \in Spans
      BY <1>2 DEF WriteMarker, TypeInv, SpanIsRead
    <2>2. data' \in [Codes -> [Spans -> Folder]]
      <3> DEFINE x == [Final(w) EXCEPT !.marked = TRUE]
      <3>1. x \in Folder
        BY <2>1, FolderTypes, FolderFields DEF TypeInv
      <3>2. SetData(w, x)
        BY <1>2 DEF WriteMarker
      <3> HIDE DEF x
      <3> QED
        BY <2>1, <3>1, <3>2, FolderTypes DEF TypeInv, SetData
    <2>3. saved' \in [Codes -> SUBSET Days]
      BY <1>2 DEF WriteMarker, TypeInv, TypeOK, Job
    <2>4. todo' \in [Workers -> SUBSET Codes] /\ todo'[w] \subseteq Held(w)'
      <3>1. todo'[w] \subseteq todo[w] \/ todo'[w] = Held(w)
        BY <1>2 DEF WriteMarker, TypeInv, TypeOK, Held
      <3>2. todo' = [todo EXCEPT ![w] = todo'[w]]
        BY <1>2 DEF WriteMarker, TypeInv, TypeOK
      <3> QED
        BY <1>2, <3>1, <3>2 DEF WriteMarker, TypeInv, TypeOK, Held
    <2>5. pc' \in [Workers -> PCs] /\ pc'[w] \in {"WritePart", "Merge"}
      BY <1>2 DEF WriteMarker, TypeInv, TypeOK, Goto, PCs
    <2>6. TypeOK'
      BY <1>2, <2>2, <2>3, <2>4, <2>5 DEF WriteMarker, TypeInv, TypeOK
    <2>7. SpanIsRead(w)'
      BY <2>5 DEF SpanIsRead, Copied, Moved
    <2> QED
      BY <1>2, <2>4, <2>6, <2>7, TypeOfOthers DEF Step, Write
  <1>3. CASE SinkFails(w)
    <2>1. TypeOK'
      BY <1>3, LeaveType DEF SinkFails, TypeInv, TypeOK, bucket
    <2>2. SpanIsRead(w)' /\ todo'[w] \subseteq Held(w)'
      BY <1>3, LeaveType DEF SinkFails, TypeInv, SpanIsRead, Copied, Moved
    <2> QED
      BY <1>3, <2>1, <2>2, TypeOfOthers DEF Step, Write
  <1> QED
    BY <1>1, <1>2, <1>3 DEF Write

\* The local variables of merge_single, one field at a time.
LEMMA JobTypes ==
    ASSUME TypeOK, NEW w \in Workers
    PROVE  /\ job[w].code \in Codes /\ job[w].old \in SUBSET Spans /\ job[w].attempt \in Nat
           /\ job[w].span \in Spans \cup {NoSpan}
           /\ \A s \in Spans : [job EXCEPT ![w].span = s] \in [Workers -> Job]
           /\ [job EXCEPT ![w].moved = TRUE] \in [Workers -> Job]
           /\ [job EXCEPT ![w].refreshed = TRUE] \in [Workers -> Job]
           /\ [job EXCEPT ![w].again = TRUE] \in [Workers -> Job]
           /\ \A O \in SUBSET Spans : [job EXCEPT ![w].old = O] \in [Workers -> Job]
           /\ \A c \in Codes, n \in Nat :
                 [job EXCEPT ![w] = NewAttempt(c, n)] \in [Workers -> Job]
  <1>1. job \in [Workers -> Job] /\ job[w] \in Job
    BY DEF TypeOK
  <1>2. /\ \A s \in Spans : [job[w] EXCEPT !.span = s] \in Job
        /\ [job[w] EXCEPT !.moved = TRUE] \in Job
        /\ [job[w] EXCEPT !.refreshed = TRUE] \in Job
        /\ [job[w] EXCEPT !.again = TRUE] \in Job
        /\ \A O \in SUBSET Spans : [job[w] EXCEPT !.old = O] \in Job
    BY <1>1 DEF Job
  <1>3. \A c \in Codes, n \in Nat : NewAttempt(c, n) \in Job
    BY DEF Job, NewAttempt
  <1>4. \A j \in Job : [job EXCEPT ![w] = j] \in [Workers -> Job]
    BY <1>1
  <1>5. /\ job[w].code \in Codes /\ job[w].old \in SUBSET Spans /\ job[w].attempt \in Nat
        /\ job[w].span \in Spans \cup {NoSpan}
    BY <1>1 DEF Job
  <1> QED
    BY <1>1, <1>2, <1>3, <1>4, <1>5

LEMMA SpanSet ==
    ASSUME TypeOK, NEW w \in Workers, NEW s
    PROVE  [job EXCEPT ![w].span = s][w].span = s
  BY DEF TypeOK, Job

LEMMA SpanKept ==
    ASSUME TypeOK, NEW w \in Workers
    PROVE  /\ [job EXCEPT ![w].moved = TRUE][w].span = job[w].span
           /\ \A O : [job EXCEPT ![w].old = O][w].span = job[w].span
  BY DEF TypeOK, Job

\* The calls of _merge_with_duckdb.
CallsOf(w) ==
    \/ ReadRange(w) \/ CopyToTemp(w) \/ MarkTemp(w) \/ RemoveFinal(w) \/ MoveMarker(w)
    \/ MovePart(w) \/ DropTemp(w) \/ ListOld(w) \/ RemoveOld(w)

LEMMA CallType ==
    ASSUME TypeInv, NEW w \in Workers, CallsOf(w)
    PROVE  TypeInv'
  <1>1. /\ pc' \in [Workers -> PCs] /\ pc'[w] \in MergeSteps /\ todo'[w] \subseteq Held(w)'
        /\ UNCHANGED <<table, frame, todo, history, tasks>>
    BY DEF CallsOf, ReadRange, CopyToTemp, MarkTemp, RemoveFinal, MoveMarker, MovePart, DropTemp,
           ListOld, RemoveOld, Call, Goto, TypeInv, TypeOK, MergeSteps, PCs, Held
  <1>2. ASSUME data' \in [Codes -> [Spans -> Folder]], temp' \in [Codes -> [Spans -> Folder]],
               job' \in [Workers -> Job], SpanIsRead(w)'
        PROVE  TypeInv'
    <2>1. TypeOK'
      BY <1>1, <1>2 DEF TypeInv, TypeOK, history
    <2> QED
      BY <1>1, <1>2, <2>1, TypeOfOthers DEF CallsOf, Step, Merge
  <1> USE DEF Call, Goto, SpanIsRead, Copied, Moved, bucket
  <1>3. CASE ReadRange(w)
    <2>1. SpanOf(SourceRows(job[w].code)) \in Spans
      BY <1>3, SourceRowsType, SpanOfEnds DEF ReadRange, TypeInv, TypeOK, Job
    <2> DEFINE s == SpanOf(SourceRows(job[w].code))
    <2>2. job' \in [Workers -> Job] /\ job'[w].span \in Spans
      <3>1. job' = [job EXCEPT ![w].span = s]
        BY <1>3 DEF ReadRange
      <3> HIDE DEF s
      <3>2. s \in Spans
        BY <2>1 DEF s
      <3> QED
        BY <3>1, <3>2, JobTypes, SpanSet DEF TypeInv
    <2> QED
      BY <1>2, <1>3, <2>2 DEF ReadRange, TypeInv, TypeOK
  <1>4. CASE CopyToTemp(w)
    <2>1. job[w].span \in Spans /\ job[w].code \in Codes
      BY <1>4 DEF CopyToTemp, TypeInv, TypeOK, Job
    <2> DEFINE x == [Temp(w) EXCEPT !.rows = SourceRows(job[w].code)]
    <2>2. x \in Folder
      BY <2>1, SourceRowsType, FolderTypes, FolderFields DEF TypeInv
    <2>3. temp' = [temp EXCEPT ![job[w].code][job[w].span] = x]
      BY <1>4 DEF CopyToTemp, SetTemp
    <2> HIDE DEF x
    <2>4. temp' \in [Codes -> [Spans -> Folder]]
      BY <2>1, <2>2, <2>3, FolderTypes DEF TypeInv
    <2> QED
      BY <1>2, <1>4, <2>1, <2>4 DEF CopyToTemp, TypeInv, TypeOK
  <1>5. CASE MarkTemp(w)
    <2>1. job[w].span \in Spans
      BY <1>5 DEF MarkTemp, TypeInv
    <2> DEFINE x == [Temp(w) EXCEPT !.marked = TRUE]
    <2>2. x \in Folder
      BY <2>1, FolderTypes, FolderFields DEF TypeInv
    <2>3. temp' = [temp EXCEPT ![job[w].code][job[w].span] = x]
      BY <1>5 DEF MarkTemp, SetTemp
    <2> HIDE DEF x
    <2>4. temp' \in [Codes -> [Spans -> Folder]]
      BY <2>1, <2>2, <2>3, FolderTypes DEF TypeInv
    <2> QED
      BY <1>2, <1>5, <2>1, <2>4 DEF MarkTemp, TypeInv, TypeOK
  <1>6. CASE RemoveFinal(w)
    <2>1. job[w].span \in Spans
      BY <1>6 DEF RemoveFinal, TypeInv
    <2>2. data' \in [Codes -> [Spans -> Folder]]
      BY <1>6, <2>1, AbsentIsFolder, FolderTypes DEF RemoveFinal, SetData, TypeInv
    <2> QED
      BY <1>2, <1>6, <2>1, <2>2 DEF RemoveFinal, TypeInv, TypeOK
  <1>7. CASE MoveMarker(w)
    <2>1. job[w].span \in Spans
      BY <1>7 DEF MoveMarker, TypeInv
    <2> DEFINE x == [Final(w) EXCEPT !.marked = Temp(w).marked]
    <2>2. x \in Folder
      BY <2>1, FolderTypes, FolderFields DEF TypeInv
    <2>3. data' = [data EXCEPT ![job[w].code][job[w].span] = x]
      BY <1>7 DEF MoveMarker, SetData
    <2> HIDE DEF x
    <2>4. data' \in [Codes -> [Spans -> Folder]]
      BY <2>1, <2>2, <2>3, FolderTypes DEF TypeInv
    <2> QED
      BY <1>2, <1>7, <2>1, <2>4 DEF MoveMarker, TypeInv, TypeOK
  <1>8. CASE MovePart(w)
    <2>1. job[w].span \in Spans
      BY <1>8 DEF MovePart, TypeInv
    <2> DEFINE x == [Final(w) EXCEPT !.rows = Temp(w).rows]
    <2>2. x \in Folder
      BY <2>1, FolderTypes, FolderFields DEF TypeInv
    <2>3. data' = [data EXCEPT ![job[w].code][job[w].span] = x]
      BY <1>8 DEF MovePart, SetData
    <2> HIDE DEF x
    <2>4. data' \in [Codes -> [Spans -> Folder]]
      BY <2>1, <2>2, <2>3, FolderTypes DEF TypeInv
    <2> QED
      BY <1>2, <1>8, <2>1, <2>4 DEF MovePart, TypeInv, TypeOK
  <1>9. CASE DropTemp(w)
    <2>1. job[w].span \in Spans
      BY <1>9 DEF DropTemp, TypeInv
    <2>2. temp' \in [Codes -> [Spans -> Folder]]
      BY <1>9, <2>1, AbsentIsFolder, FolderTypes DEF DropTemp, SetTemp, TypeInv
    <2>3. job' \in [Workers -> Job] /\ job'[w].span = job[w].span
      BY <1>9, <2>1, JobTypes, SpanKept DEF DropTemp, TypeInv
    <2> QED
      BY <1>2, <1>9, <2>1, <2>2, <2>3 DEF DropTemp, TypeInv, TypeOK
  <1>10. CASE ListOld(w)
    <2>1. job[w].span \in Spans
      BY <1>10 DEF ListOld, TypeInv
    <2>2. Sources(job[w].code) \ {job[w].span} \in SUBSET Spans
      BY DEF Sources
    <2>3. job' \in [Workers -> Job] /\ job'[w].span = job[w].span
      BY <1>10, <2>1, <2>2, JobTypes, SpanKept DEF ListOld, TypeInv
    <2> QED
      BY <1>2, <1>10, <2>1, <2>3 DEF ListOld, TypeInv, TypeOK
  <1>11. CASE RemoveOld(w)
    <2>1. job[w].span \in Spans /\ job[w].code \in Codes /\ job[w].old \in SUBSET Spans
      BY <1>11 DEF RemoveOld, TypeInv, TypeOK, Job
    <2>2. PICK s \in job[w].old : /\ data' = [data EXCEPT ![job[w].code][s] = Absent]
                                  /\ job' = [job EXCEPT ![w].old = @ \ {s}]
      BY <1>11 DEF RemoveOld
    <2>3. data' \in [Codes -> [Spans -> Folder]]
      BY <2>1, <2>2, AbsentIsFolder, PutFolder DEF TypeInv, TypeOK
    <2>4. job' \in [Workers -> Job] /\ job'[w].span = job[w].span
      <3> DEFINE O == job[w].old \ {s}
      <3>1. O \in SUBSET Spans /\ job' = [job EXCEPT ![w].old = O]
        BY <2>1, <2>2
      <3> HIDE DEF O
      <3> QED
        BY <3>1, JobTypes, SpanKept DEF TypeInv
    <2> QED
      BY <1>2, <1>11, <2>1, <2>3, <2>4 DEF RemoveOld, TypeInv, TypeOK
  <1> QED
    BY <1>3, <1>4, <1>5, <1>6, <1>7, <1>8, <1>9, <1>10, <1>11 DEF CallsOf

LEMMA RestType ==
    ASSUME TypeInv, NEW w \in Workers,
           MergeDone(w) \/ CallFails(w) \/ Sweep(w) \/ SweepFails(w) \/ Batch(w) \/ Crash(w)
    PROVE  TypeInv'
  <1>1. Step(w)
    BY DEF Step, Merge
  <1> USE DEF Goto, SpanIsRead, Copied, Moved, bucket, history
  <1>2. CASE MergeDone(w)
    <2>1. TypeOK'
      BY <1>2 DEF MergeDone, TypeInv, TypeOK, Job, PCs
    <2> QED
      BY <1>1, <1>2, <2>1, TypeOfOthers DEF MergeDone, TypeInv, TypeOK, Held
  <1>3. CASE CallFails(w)
    <2>1. job' \in [Workers -> Job]
      <3>1. \/ job' = job
            \/ job' = [job EXCEPT ![w].refreshed = TRUE]
            \/ job' = [job EXCEPT ![w].again = TRUE]
        BY <1>3 DEF CallFails, RefreshAndRepeat, NewAttemptFollows, GivesUp
      <3>2. job \in [Workers -> Job]
        BY DEF TypeInv, TypeOK
      <3> QED
        BY <3>1, <3>2, JobTypes DEF TypeInv
    <2>2. pc' \in [Workers -> PCs] /\ pc'[w] \in {"Range", "Sweep"}
      BY <1>3 DEF CallFails, RefreshAndRepeat, NewAttemptFollows, GivesUp, TypeInv, TypeOK,
                  PCs, MergeSteps
    <2>3. torn' \subseteq Codes
      BY <1>3, JobTypes DEF CallFails, Interrupts, TypeInv, TypeOK
    <2>4. TypeOK'
      BY <1>3, <2>1, <2>2, <2>3 DEF CallFails, TypeInv, TypeOK
    <2> QED
      BY <1>1, <1>3, <2>2, <2>4, TypeOfOthers DEF CallFails, TypeInv, Held
  <1>4. CASE Sweep(w)
    <2>1. job' \in [Workers -> Job]
      <3> DEFINE n == job[w].attempt + 1
      <3>1. job' = job \/ job' = [job EXCEPT ![w] = NewAttempt(job[w].code, n)]
        BY <1>4 DEF Sweep
      <3>2. job[w].code \in Codes /\ n \in Nat
        <4>1. job[w].code \in Codes /\ job[w].attempt \in Nat
          BY JobTypes DEF TypeInv
        <4> QED
          BY <4>1
      <3> HIDE DEF n
      <3>3. job \in [Workers -> Job]
        BY DEF TypeInv, TypeOK
      <3>4. [job EXCEPT ![w] = NewAttempt(job[w].code, n)] \in [Workers -> Job]
        BY <3>2, JobTypes DEF TypeInv
      <3> QED
        BY <3>1, <3>3, <3>4
    <2>2. temp' \in [Codes -> [Spans -> Folder]]
      <3>1. CASE Sweeps(w)
        <4>1. job[w].span \in Spans
          BY <3>1 DEF Sweeps, TypeInv, TypeOK, Job
        <4> QED
          BY <1>4, <3>1, <4>1, AbsentIsFolder, FolderTypes DEF Sweep, SetTemp, TypeInv
      <3> QED
        BY <1>4, <3>1 DEF Sweep, TypeInv, TypeOK
    <2>3. pc' \in [Workers -> PCs] /\ pc'[w] \in {"Range", "Merge"}
      BY <1>4 DEF Sweep, TypeInv, TypeOK, PCs, MergeSteps
    <2>4. TypeOK'
      BY <1>4, <2>1, <2>2, <2>3 DEF Sweep, TypeInv, TypeOK
    <2> QED
      BY <1>1, <1>4, <2>3, <2>4, TypeOfOthers DEF Sweep, TypeInv, Held
  <1>5. CASE SweepFails(w) \/ ListingFails(w) \/ TaskEnds(w)
    <2>1. TypeOK'
      BY <1>5, LeaveType DEF SweepFails, ListingFails, TaskEnds, TypeInv, TypeOK
    <2> QED
      BY <1>1, <1>5, <2>1, LeaveType, TypeOfOthers DEF SweepFails, ListingFails, TaskEnds, TypeInv
  <1>6. CASE StartMerge(w)
    <2>1. job' \in [Workers -> Job]
      <3>1. PICK c \in todo[w] : job' = [job EXCEPT ![w] = NewAttempt(c, 0)]
        BY <1>6 DEF StartMerge
      <3>2. c \in Codes
        BY DEF TypeInv, TypeOK
      <3> QED
        BY <3>1, <3>2, JobTypes DEF TypeInv
    <2>2. pc' \in [Workers -> PCs] /\ pc'[w] \in {"Range", "Merge"}
      BY <1>6 DEF StartMerge, TypeInv, TypeOK, PCs, MergeSteps
    <2>3. todo' \in [Workers -> SUBSET Codes] /\ todo'[w] \subseteq todo[w]
      BY <1>6 DEF StartMerge, TypeInv, TypeOK
    <2>4. TypeOK'
      BY <1>6, <2>1, <2>2, <2>3 DEF StartMerge, TypeInv, TypeOK
    <2> QED
      BY <1>1, <1>6, <2>2, <2>3, <2>4, TypeOfOthers DEF StartMerge, TypeInv, Held
  <1>7. CASE BatchMerged(w)
    <2>1. TypeOK'
      BY <1>7 DEF BatchMerged, TypeInv, TypeOK, PCs
    <2> QED
      BY <1>1, <1>7, <2>1, TypeOfOthers DEF BatchMerged, TypeInv, TypeOK, Held
  <1>8. CASE Crash(w)
    <2>1. torn' \subseteq Codes
      BY <1>8, JobTypes DEF Crash, Interrupts, TypeInv, TypeOK
    <2>2. TypeOK'
      BY <1>8, <2>1, LeaveType DEF Crash, TypeInv, TypeOK
    <2> QED
      BY <1>1, <1>8, <2>2, LeaveType, TypeOfOthers DEF Crash, TypeInv
  <1> QED
    BY <1>2, <1>3, <1>4, <1>5, <1>6, <1>7, <1>8 DEF Batch

LEMMA StepType ==
    ASSUME TypeInv, NEW w \in Workers, Step(w)
    PROVE  TypeInv'
  BY LoadType, WriteType, CallType, RestType DEF Step, Merge, CallsOf

LEMMA NextType == TypeInv /\ [Next]_vars => TypeInv'
  <1> SUFFICES ASSUME TypeInv, [Next]_vars PROVE TypeInv'
    OBVIOUS
  <1>1. CASE UNCHANGED vars
    BY <1>1 DEF vars, bucket, history, TypeInv, TypeOK, SpanIsRead, Held
  <1>2. ASSUME NEW c \in Codes, NEW d \in Days, Download(c, d)
        PROVE  TypeInv'
    BY <1>2 DEF Download, bucket, history, TypeInv, TypeOK, SpanIsRead, Held
  <1> QED
    BY <1>1, <1>2, StepType DEF Next, Step

LEMMA TypeInvHolds == Spec => []TypeInv
  BY InitType, NextType, PTL DEF Spec

\* The types, whatever fails and however many tasks share a code.
THEOREM TypeCorrect == Spec => []TypeOK
  <1>1. TypeInv => TypeOK
    BY DEF TypeInv
  <1> QED
    BY <1>1, TypeInvHolds, PTL

-----------------------------------------------------------------------------
(***************************************************************************)
(* Who touches what                                                        *)
(***************************************************************************)
\* A step of w leaves the folders of all codes alone that w does not hold.
LEMMA OnlyHeld ==
    ASSUME LocalInv, NEW w \in Workers, Step(w), NEW c \in Codes, c \notin Held(w)
    PROVE  data'[c] = data[c] /\ temp'[c] = temp[c] /\ saved'[c] = saved[c]
  <1>1. /\ todo[w] \subseteq Held(w)
        /\ pc[w] \in AtWork => job[w].code \in Held(w)
    BY DEF LocalInv, TypeInv, AtItsCode
  <1>2. /\ data \in [Codes -> [Spans -> Folder]] /\ temp \in [Codes -> [Spans -> Folder]]
        /\ saved \in [Codes -> SUBSET Days]
    BY DEF LocalInv, TypeInv, TypeOK
  <1> USE DEF bucket, history, AtWork, MergeSteps
  <1>3. CASE Load(w) \/ Batch(w)
    BY <1>3 DEF Load, Batch, StartMerge, ListingFails, BatchMerged, TaskEnds
  <1>4. CASE Write(w)
    <2>1. CASE WritePart(w)
      BY <2>1, <1>1, <1>2 DEF WritePart, PartWritten
    <2>2. CASE WriteMarker(w)
      BY <2>2, <1>1, <1>2 DEF WriteMarker, SetData
    <2> QED
      BY <1>4, <2>1, <2>2 DEF Write, SinkFails
  <1>5. CASE Merge(w)
    <2>1. CASE CallsOf(w)
      BY <2>1, <1>1, <1>2 DEF CallsOf, ReadRange, CopyToTemp, MarkTemp, RemoveFinal, MoveMarker,
         MovePart, DropTemp, ListOld, RemoveOld, Call, SetData, SetTemp
    <2>2. CASE CallFails(w)
      BY <2>2 DEF CallFails, Interrupts
    <2>3. CASE MergeDone(w) \/ SweepFails(w)
      BY <2>3 DEF MergeDone, SweepFails
    <2>4. CASE Sweep(w)
      BY <2>4, <1>1, <1>2 DEF Sweep, SetTemp
    <2> QED
      BY <1>5, <2>1, <2>2, <2>3, <2>4 DEF Merge, CallsOf
  <1>6. CASE Crash(w)
    BY <1>6 DEF Crash, Interrupts
  <1> QED
    BY <1>3, <1>4, <1>5, <1>6 DEF Step


\* What a worker holds, it keeps to the end of its task.
LEMMA HeldOf ==
    ASSUME LocalInv, NEW w \in Workers, Step(w), ~ Load(w)
    PROVE  /\ frame'[w] \in {frame[w], NoRows}
           /\ AtItsCode(w)'
  <1>0. SUFFICES /\ frame'[w] \in {frame[w], NoRows}
                 /\ pc'[w] \in AtWork => job'[w].code \in Held(w)'
    BY DEF AtItsCode
  <1>1. /\ todo[w] \subseteq Held(w)
        /\ pc[w] \in AtWork => job[w].code \in Held(w)
    BY DEF LocalInv, TypeInv, AtItsCode
  <1>2. /\ pc \in [Workers -> PCs] /\ frame \in [Workers -> [Codes -> SUBSET Days]]
        /\ job \in [Workers -> Job] /\ job[w] \in Job
    BY DEF LocalInv, TypeInv, TypeOK
  <1>3. ASSUME Leave(w)
        PROVE  frame'[w] = NoRows /\ pc'[w] \notin AtWork
    BY <1>2, <1>3 DEF Leave, Goto, NoRows, Held, AtWork, MergeSteps
  <1>4. ASSUME UNCHANGED frame
        PROVE  Held(w)' = Held(w)
    BY <1>4 DEF Held
  <1>5. ASSUME UNCHANGED frame, pc[w] \in AtWork, job'[w].code = job[w].code
        PROVE  Held(w)' = Held(w) /\ job'[w].code \in Held(w)'
    BY <1>1, <1>4, <1>5
  <1>6. CASE Write(w)
    <2>1. CASE WritePart(w)
      BY <2>1, <1>1, <1>2, <1>4 DEF WritePart, Job
    <2>2. CASE WriteMarker(w)
      BY <2>2, <1>2, <1>4, <1>5 DEF WriteMarker, AtWork
    <2>3. CASE SinkFails(w)
      BY <2>3, <1>3 DEF SinkFails
    <2> QED
      BY <1>6, <2>1, <2>2, <2>3 DEF Write
  <1>7. CASE Merge(w)
    <2>1. CASE CallsOf(w)
      <3>1. pc[w] \in AtWork /\ UNCHANGED frame
        BY <2>1 DEF CallsOf, ReadRange, CopyToTemp, MarkTemp, RemoveFinal, MoveMarker,
           MovePart, DropTemp, ListOld, RemoveOld, Call, AtWork, MergeSteps
      <3>2. job'[w].code = job[w].code
        BY <2>1, <1>2 DEF CallsOf, ReadRange, CopyToTemp, MarkTemp, RemoveFinal, MoveMarker,
           MovePart, DropTemp, ListOld, RemoveOld, Job
      <3> QED
        BY <3>1, <3>2, <1>5
    <2>2. CASE CallFails(w)
      <3>1. job'[w].code = job[w].code
        BY <2>2, <1>2 DEF CallFails, RefreshAndRepeat, NewAttemptFollows, GivesUp, Job
      <3> QED
        BY <2>2, <3>1, <1>5 DEF CallFails, AtWork
    <2>3. CASE MergeDone(w)
      BY <2>3, <1>5 DEF MergeDone, AtWork, MergeSteps
    <2>4. CASE Sweep(w)
      <3>1. job'[w].code = job[w].code
        BY <2>4, <1>2 DEF Sweep, NewAttempt, Job
      <3> QED
        BY <2>4, <3>1, <1>5 DEF Sweep, AtWork
    <2>5. CASE SweepFails(w)
      BY <2>5, <1>3 DEF SweepFails
    <2> QED
      BY <1>7, <2>1, <2>2, <2>3, <2>4, <2>5 DEF Merge, CallsOf
  <1>8. CASE Batch(w)
    <2>1. CASE StartMerge(w)
      BY <2>1, <1>1, <1>2, <1>4 DEF StartMerge, NewAttempt
    <2>2. CASE BatchMerged(w)
      BY <2>2, <1>2, <1>4 DEF BatchMerged, Goto, AtWork, MergeSteps
    <2>3. CASE ListingFails(w) \/ TaskEnds(w)
      BY <2>3, <1>3 DEF ListingFails, TaskEnds
    <2> QED
      BY <1>8, <2>1, <2>2, <2>3 DEF Batch
  <1>9. CASE Crash(w)
    BY <1>9, <1>3 DEF Crash
  <1> QED
    BY <1>6, <1>7, <1>8, <1>9 DEF Step

LEMMA StepLocal ==
    ASSUME LocalInv, NEW w \in Workers, Step(w)
    PROVE  LocalInv'
  <1>1. TypeInv'
    BY StepType DEF LocalInv
  <1>2. ASSUME NEW v \in Workers
        PROVE  AtItsCode(v)'
    <2>1. CASE v # w
      <3>1. Held(v)' = Held(v) /\ pc'[v] = pc[v] /\ job'[v] = job[v]
        BY <2>1, OthersUnmoved DEF Others, Held, LocalInv, TypeInv
      <3> QED
        BY <3>1 DEF LocalInv, AtItsCode
    <2>2. CASE v = w /\ Load(w)
      <3>1. pc'[w] = "WritePart"
        BY <2>2 DEF Load, Goto, LocalInv, TypeInv, TypeOK
      <3> QED
        BY <2>2, <3>1 DEF AtItsCode, AtWork, MergeSteps
    <2> QED
      BY <2>1, <2>2, HeldOf
  <1> QED
    BY <1>1, <1>2 DEF LocalInv

\* The users of the merger keep two tasks off one code.
LEMMA AloneStep ==
    ASSUME Exclusive, LocalInv, NEW w \in Workers, Step(w), NEW c \in Codes, Alone(c)
    PROVE  Alone(c)'
  <1>1. \A v \in Workers \ {w} : c \in Held(v)' <=> c \in Held(v)
    BY OthersUnmoved DEF Others, Held, LocalInv, TypeInv
  <1>2. CASE Load(w)
    <2>1. PICK codes \in SUBSET Codes, s \in Spans :
             LET rows(k) == IF k \in codes THEN table[k] \cap (s[1] .. s[2]) ELSE {}
                 found == {k \in Codes : rows(k) # {}}
             IN Free(w, found) /\ frame' = [frame EXCEPT ![w] = [k \in Codes |-> rows(k)]]
      BY <1>2 DEF Load
    <2>2. c \in Held(w)' => \A v \in Workers \ {w} : c \notin Held(v)
      BY <2>1 DEF Free, Held, LocalInv, TypeInv, TypeOK
    <2> QED
      BY <1>1, <2>2 DEF Alone
  <1>3. CASE ~ Load(w)
    <2>1. c \in Held(w)' => c \in Held(w)
      BY <1>3, HeldOf DEF Held, NoRows
    <2> QED
      BY <1>1, <2>1 DEF Alone
  <1> QED
    BY <1>2, <1>3

\* In its merges a task touches the code it is at.
LEMMA OnlyItsCode ==
    ASSUME TypeInv, NEW w \in Workers, Merge(w) \/ Batch(w) \/ Crash(w) \/ SinkFails(w),
           NEW c \in Codes, c # job[w].code
    PROVE  data'[c] = data[c] /\ temp'[c] = temp[c]
  <1>1. /\ data \in [Codes -> [Spans -> Folder]] /\ temp \in [Codes -> [Spans -> Folder]]
    BY DEF TypeInv, TypeOK
  <1> QED
    BY <1>1 DEF bucket, Batch, StartMerge, ListingFails, BatchMerged, TaskEnds, Crash, SinkFails,
       Merge, ReadRange, CopyToTemp, MarkTemp, RemoveFinal, MoveMarker, MovePart, DropTemp, ListOld,
       RemoveOld, SetData, SetTemp, MergeDone, CallFails, Sweep, SweepFails

-----------------------------------------------------------------------------
(***************************************************************************)
(* What a step does to the rows of a code                                  *)
(***************************************************************************)
LEMMA PutRows ==
    ASSUME TypeInv, NEW c \in Codes, NEW s \in Spans, NEW x \in Folder
    PROVE  \A k \in Codes, u \in Spans :
              [data EXCEPT ![c][s] = x][k][u].rows =
                  IF k = c /\ u = s THEN x.rows ELSE data[k][u].rows
  BY PutFolder DEF TypeInv, TypeOK

\* A folder that is removed.
LEMMA RemovedRows ==
    ASSUME TypeInv, NEW c \in Codes, NEW s \in Spans, data' = [data EXCEPT ![c][s] = Absent]
    PROVE  \A k \in Codes, u \in Spans :
              data'[k][u].rows = IF k = c /\ u = s THEN Absent.rows ELSE data[k][u].rows
  <1>1. PICK x \in Folder : x = Absent
    BY AbsentIsFolder
  <1>2. \A k \in Codes, u \in Spans :
           [data EXCEPT ![c][s] = x][k][u].rows = IF k = c /\ u = s THEN x.rows ELSE data[k][u].rows
    BY PutRows
  <1> QED
    BY <1>1, <1>2

\* Steps that change no rows of a code.
SameRows(c) == \A s \in Spans : data'[c][s].rows = data[c][s].rows

LEMMA SameSources == ASSUME NEW c, SameRows(c) PROVE SourceRows(c)' = SourceRows(c)
  BY DEF SameRows, SourceRows

LEMMA NoProgress ==
    ASSUME NEW w, NEW c, pc'[w] \in {"Idle", "Merge", "Range", "Sweep", "Returned"}
    PROVE  Progress(w, c)'
  BY DEF Progress, FrameIsCurrent, PartIsWritten, RangeIsRead, TempIsWhole, FinalIsWhole,
         Copied, Moved

\* Nothing is asked of a task at another code, once it has left the sink.
LEMMA ElsewhereProgress ==
    ASSUME NEW w, NEW c, pc'[w] \notin {"WritePart", "WriteMarker"}, job'[w].code # c
    PROVE  Progress(w, c)'
  BY DEF Progress, FrameIsCurrent, PartIsWritten, RangeIsRead, TempIsWhole, FinalIsWhole

\* Nor of one that does not hold the code.
LEMMA FreeProgress ==
    ASSUME NEW w, NEW c, c \notin Held(w)', AtItsCode(w)'
    PROVE  Progress(w, c)'
  BY DEF AtItsCode, AtWork, MergeSteps, Progress, FrameIsCurrent, PartIsWritten, RangeIsRead,
         TempIsWhole, FinalIsWhole, Copied, Moved

\* A step that changes no rows loses none, if it does not cut a swap short.
LEMMA SoundIfSame ==
    ASSUME NEW w, NEW c, SameRows(c), Progress(w, c)', saved'[c] = saved[c],
           Swapping(w) /\ job[w].code = c => c \in torn'
    PROVE  Sound(w, c)
  <1>1. c \notin torn' => \A d : Found(w, c, d) => Found(w, c, d)'
    BY SameSources DEF Found
  <1>2. \A s \in Spans : data'[c][s].rows = data[c][s].rows
    BY DEF SameRows
  <1> QED
    BY <1>1, <1>2 DEF Sound

LEMMA LoadSound ==
    ASSUME LocalInv, NEW w \in Workers, NEW c \in Codes, CodeInv(c), Load(w)
    PROVE  Sound(w, c)
  <1>1. PICK codes \in SUBSET Codes, s \in Spans :
           LET rows(k) == IF k \in codes THEN table[k] \cap (s[1] .. s[2]) ELSE {}
           IN frame' = [frame EXCEPT ![w] = [k \in Codes |-> rows(k)]]
    BY DEF Load
  <1>2. SameRows(c) /\ UNCHANGED <<saved, data, table>> /\ ~ Swapping(w)
    BY DEF Load, SameRows, Swapping, bucket, history
  <1>3. pc'[w] = "WritePart"
    BY DEF Load, Goto, LocalInv, TypeInv, TypeOK
  <1>4. FrameIsCurrent(w, c)'
    <2> SUFFICES ASSUME frame'[w][c] # {}, NEW d \in SourceRows(c), Within(frame'[w][c], d)
                 PROVE  d \in frame'[w][c]
      BY <1>2, SameSources DEF FrameIsCurrent, Held, Within, SpanOf
    <2>1. frame'[w][c] = table[c] \cap (s[1] .. s[2])
      BY <1>1 DEF LocalInv, TypeInv, TypeOK
    <2>2. frame'[w][c] \in SUBSET Days
      BY <2>1 DEF LocalInv, TypeInv, TypeOK
    <2>3. d \in table[c] /\ d \in Days
      BY InSources DEF CodeInv, FromTable, LocalInv, TypeInv, TypeOK
    <2>4. d \in s[1] .. s[2]
      <3>1. SpanOf(frame'[w][c])[1] \in s[1] .. s[2] /\ SpanOf(frame'[w][c])[2] \in s[1] .. s[2]
        BY <2>1, <2>2, SpanOfEnds
      <3>2. s[1] \in Int /\ s[2] \in Int /\ d \in Int
        BY <2>3, LastDayAssumption DEF Spans, Days
      <3> QED
        BY <3>1, <3>2 DEF Within
    <2> QED
      BY <2>1, <2>3, <2>4
  <1>5. Progress(w, c)'
    BY <1>3, <1>4 DEF Progress, PartIsWritten, RangeIsRead, TempIsWhole, FinalIsWhole, Copied, Moved
  <1> QED
    BY <1>2, <1>5, SoundIfSame

LEMMA WritePartSound ==
    ASSUME LocalInv, NEW w \in Workers, NEW c \in Codes, CodeInv(c), WritePart(w)
    PROVE  Sound(w, c)
  <1>1. PICK k \in todo[w] : /\ data' = PartWritten(k, frame[w][k])
                             /\ job' = [job EXCEPT ![w].code = k, ![w].span = SpanOf(frame[w][k])]
    BY DEF WritePart
  <1> DEFINE R == frame[w][k]
             s == SpanOf(R)
  <1>2. k \in Held(w) /\ k \in Codes /\ R \in SUBSET Days /\ R # {}
    BY DEF LocalInv, TypeInv, TypeOK, Held
  <1>3. s \in Spans
    BY <1>2, SpanOfEnds
  <1>4. \A u \in Spans :
           data'[c][u].rows = IF k = c /\ u = s THEN R ELSE data[c][u].rows
    <2> DEFINE x == [data[k][s] EXCEPT !.rows = R]
    <2>1. data' = [data EXCEPT ![k][s] = x]
      BY <1>1, <1>3 DEF PartWritten, LocalInv, TypeInv, TypeOK
    <2>2. x \in Folder /\ x.rows = R
      <3>1. data[k][s] \in Folder
        BY <1>2, <1>3 DEF LocalInv, TypeInv, TypeOK
      <3> HIDE DEF s, R
      <3> QED
        BY <1>2, <3>1, FolderFields
    <2> HIDE DEF x, s, R
    <2> QED
      BY <1>2, <1>3, <2>1, <2>2, PutRows DEF LocalInv
  <1>5. pc[w] = "WritePart" /\ pc'[w] = "WriteMarker" /\ UNCHANGED <<table, frame, saved>>
    BY DEF WritePart, Goto, history, LocalInv, TypeInv, TypeOK
  <1>6. job'[w].code = k /\ job'[w].span = s
    BY <1>1 DEF LocalInv, TypeInv, TypeOK, Job
  <1>7. CASE k # c
    <2>1. SameRows(c)
      BY <1>4, <1>7 DEF SameRows
    <2>2. FrameIsCurrent(w, c)'
      BY <1>5, <2>1, SameSources DEF FrameIsCurrent, CodeInv, Progress, Held, Within, SpanOf
    <2>3. Progress(w, c)'
      BY <1>5, <1>6, <1>7, <2>2
      DEF Progress, PartIsWritten, RangeIsRead, TempIsWhole, FinalIsWhole, Copied, Moved
    <2> QED
      BY <1>5, <2>1, <2>3, SoundIfSame DEF Swapping
  <1>8. CASE k = c
    <2>1. \A d \in SourceRows(c)' : d \in SourceRows(c) \/ d \in R
      <3> HIDE DEF R, s
      <3> QED
        BY <1>4, InSources, InSourcesNext
    <2>2. SourceRows(c) \subseteq SourceRows(c)'
      <3> SUFFICES ASSUME NEW u \in Spans, NEW d \in data[c][u].rows
                   PROVE  d \in SourceRows(c)'
        BY InSources
      <3>1. CASE u = s
        <4>1. data[c][u].rows # {} /\ data[c][u].rows \in SUBSET Days
          BY DEF LocalInv, TypeInv, TypeOK, Folder
        <4>2. SpanOf(data[c][u].rows) = s
          BY <3>1, <4>1 DEF CodeInv, NamedRight, Sources
        <4>3. Within(R, d)
          BY <4>1, <4>2, SpanOfEnds DEF Within
        <4>4. d \in SourceRows(c)
          BY InSources
        <4>5. FrameIsCurrent(w, c)
          BY DEF CodeInv, Progress
        <4>6. d \in R
          BY <1>2, <1>5, <1>8, <4>3, <4>4, <4>5 DEF FrameIsCurrent
        <4> QED
          BY <1>3, <1>4, <1>8, <3>1, <4>6, InSourcesNext
      <3>2. CASE u # s
        BY <1>4, <3>2, InSourcesNext
      <3> QED
        BY <3>1, <3>2
    <2>3. Progress(w, c)'
      <3>1. FrameIsCurrent(w, c)'
        BY <1>5, <1>8, <2>1 DEF FrameIsCurrent, CodeInv, Progress, Held, Within, SpanOf
      <3>2. PartIsWritten(w, c)'
        BY <1>2, <1>3, <1>4, <1>5, <1>6, <1>8 DEF PartIsWritten, Final
      <3> QED
        BY <1>5, <3>1, <3>2
        DEF Progress, RangeIsRead, TempIsWhole, FinalIsWhole, Copied, Moved
    <2>4. \A d : Found(w, c, d) => Found(w, c, d)'
      BY <1>5, <2>2 DEF Found, Swapping
    <2>5. R \subseteq table[c]
      BY <1>8 DEF CodeInv, FromTable
    <2>6. \A u \in Spans :
             \/ data'[c][u].rows = data[c][u].rows
             \/ /\ data'[c][u].rows \subseteq table[c]
                /\ data'[c][u].rows # {} => SpanOf(data'[c][u].rows) = u
      BY <1>4, <2>5
    <2> QED
      BY <1>5, <2>3, <2>4, <2>6 DEF Sound
  <1> QED
    BY <1>7, <1>8

\* The steps of a merge leave the task's frame alone, and go where they say.
LEMMA CallGoes ==
    ASSUME TypeInv, NEW w \in Workers, NEW from, NEW to, Call(w, from, to)
    PROVE  pc[w] = from /\ pc'[w] = to /\ UNCHANGED <<table, frame, saved, torn>>
  BY DEF Call, Goto, history, TypeInv, TypeOK

LEMMA WriteMarkerSound ==
    ASSUME LocalInv, NEW w \in Workers, NEW c \in Codes, CodeInv(c), WriteMarker(w)
    PROVE  Sound(w, c)
  <1>0. PICK k, s : k = job[w].code /\ s = job[w].span
    OBVIOUS
  <1>1. /\ pc[w] = "WriteMarker" /\ pc'[w] \in {"WritePart", "Merge"}
        /\ UNCHANGED <<table, frame, job, torn>>
    BY DEF WriteMarker, Goto, LocalInv, TypeInv, TypeOK
  <1>2. k \in Codes /\ s \in Spans
    BY <1>0, <1>1, JobTypes DEF LocalInv, TypeInv, SpanIsRead
  <1>3. SameRows(c)
    <2> DEFINE x == [Final(w) EXCEPT !.marked = TRUE]
    <2>1. data' = [data EXCEPT ![k][s] = x]
      BY <1>0 DEF WriteMarker, SetData
    <2>2. x \in Folder /\ x.rows = data[k][s].rows
      <3>1. Final(w) \in Folder /\ Final(w) = data[k][s]
        BY <1>0, <1>1, <1>2, FolderTypes DEF LocalInv, TypeInv, Final
      <3> QED
        BY <3>1, FolderFields
    <2> HIDE DEF x
    <2> QED
      BY <1>2, <2>1, <2>2, PutRows DEF LocalInv, SameRows
  <1>4. saved' = [saved EXCEPT ![k] = saved[k] \cup frame[w][k]]
    BY <1>0 DEF WriteMarker
  <1>5. k = c => frame[w][c] \subseteq SourceRows(c)'
    <2> SUFFICES ASSUME k = c PROVE frame[w][c] \subseteq SourceRows(c)'
      OBVIOUS
    <2>1. frame[w][c] = data[c][s].rows
      BY <1>0, <1>1 DEF CodeInv, Progress, PartIsWritten, Final
    <2> QED
      BY <1>2, <1>3, <2>1, InSources, SameSources
  <1>6. Progress(w, c)'
    <2>1. FrameIsCurrent(w, c)'
      BY <1>1, <1>3, SameSources DEF FrameIsCurrent, CodeInv, Progress, Held, Within, SpanOf
    <2> QED
      BY <1>1, <2>1 DEF Progress, PartIsWritten, RangeIsRead, TempIsWhole, FinalIsWhole,
                        Copied, Moved
  <1>7. saved'[c] \subseteq saved[c] \cup SourceRows(c)'
    <2>1. saved \in [Codes -> SUBSET Days]
      BY DEF LocalInv, TypeInv, TypeOK
    <2> QED
      BY <1>2, <1>4, <1>5, <2>1
  <1>8. \A d : Found(w, c, d) => Found(w, c, d)'
    BY <1>1, <1>3, SameSources DEF Found, Swapping
  <1> QED
    BY <1>3, <1>6, <1>7, <1>8 DEF Sound, SameRows

\* A call of a merge is sound for the codes it is not about.
LEMMA ElsewhereSound ==
    ASSUME LocalInv, NEW w \in Workers, NEW c \in Codes, CallsOf(w), c # job[w].code
    PROVE  Sound(w, c)
  <1>1. job[w] \in Job /\ job \in [Workers -> Job]
    BY DEF LocalInv, TypeInv, TypeOK
  <1>2. SameRows(c)
    BY OnlyItsCode DEF LocalInv, CallsOf, Merge, SameRows
  <1>3. pc'[w] \in MergeSteps /\ UNCHANGED saved
    BY CallGoes DEF CallsOf, ReadRange, CopyToTemp, MarkTemp, RemoveFinal, MoveMarker, MovePart,
       DropTemp, ListOld, RemoveOld, MergeSteps, LocalInv
  <1>4. job'[w].code # c
    BY <1>1 DEF CallsOf, ReadRange, CopyToTemp, MarkTemp, RemoveFinal, MoveMarker, MovePart,
       DropTemp, ListOld, RemoveOld, Job
  <1>5. Progress(w, c)'
    BY <1>3, <1>4, ElsewhereProgress DEF MergeSteps
  <1> QED
    BY <1>2, <1>3, <1>5, SoundIfSame

\* What the calls have in common that are about code c.
CallOn(w, c) == LocalInv /\ CodeInv(c) /\ c = job[w].code

\* The steps of a merge before the swap and after it change no rows.
LEMMA QuietCallSound ==
    ASSUME NEW w \in Workers, NEW c \in Codes, CallOn(w, c),
           ReadRange(w) \/ CopyToTemp(w) \/ MarkTemp(w) \/ DropTemp(w) \/ ListOld(w)
    PROVE  Sound(w, c)
  <1> USE DEF CallOn
  <1>1. SameRows(c) /\ ~ Swapping(w) /\ UNCHANGED <<data, table, frame, saved, torn>>
    BY CallGoes DEF ReadRange, CopyToTemp, MarkTemp, DropTemp, ListOld, bucket, SameRows,
                    Swapping, Call, history
  <1>2. SourceRows(c)' = SourceRows(c)
    BY <1>1, SameSources
  <1>3. job[w] \in Job /\ job \in [Workers -> Job] /\ TypeInv /\ Progress(w, c)
    BY DEF LocalInv, TypeInv, TypeOK, CodeInv
  <1>4. CASE ReadRange(w)
    <2>1. pc'[w] = "Copy"
      BY <1>3, <1>4, CallGoes DEF ReadRange
    <2>2. job'[w].code = c /\ job'[w].span = SpanOf(SourceRows(c))
      BY <1>3, <1>4 DEF ReadRange, Job
    <2>3. RangeIsRead(w, c)'
      BY <1>2, <2>2 DEF RangeIsRead, SpanOf
    <2>4. Progress(w, c)'
      BY <2>1, <2>3 DEF Progress, FrameIsCurrent, PartIsWritten, TempIsWhole, FinalIsWhole,
                        Copied, Moved
    <2> QED
      BY <1>1, <2>4, SoundIfSame
  <1>5. ASSUME pc'[w] \in {"Mark", "RemoveFinal"}, UNCHANGED job,
               \/ /\ TempIsWhole(w, c) /\ pc[w] \in Copied
                  /\ Temp(w)'.rows = Temp(w).rows
               \/ /\ SourceRows(c) # {}
                  /\ SpanOf(SourceRows(c)) = job[w].span
                  /\ Temp(w)'.rows = SourceRows(c)
        PROVE  Sound(w, c)
    <2>1. SourceRows(c) \subseteq table[c]
      BY InSources DEF CodeInv, FromTable
    <2>2. TempIsWhole(w, c)'
      BY <1>1, <1>2, <1>5, <2>1 DEF TempIsWhole, SpanOf
    <2>3. Progress(w, c)'
      BY <1>5, <2>2 DEF Progress, FrameIsCurrent, PartIsWritten, RangeIsRead, FinalIsWhole, Moved
    <2> QED
      BY <1>1, <2>3, SoundIfSame
  <1>6. CASE CopyToTemp(w) \/ MarkTemp(w)
    <2>1. job[w].span \in Spans /\ UNCHANGED job
      BY <1>3, <1>6, CallGoes DEF CopyToTemp, MarkTemp, TypeInv, SpanIsRead, Copied
    <2>2. temp[c][job[w].span] \in Folder /\ temp \in [Codes -> [Spans -> Folder]]
      BY <1>3, <2>1 DEF TypeInv, TypeOK
    <2>3. CASE CopyToTemp(w)
      <3>1. pc[w] = "Copy" /\ pc'[w] = "Mark"
        BY <1>3, <2>3, CallGoes DEF CopyToTemp
      <3>2. Temp(w)'.rows = SourceRows(c)
        BY <2>3, <2>1, <2>2 DEF CopyToTemp, SetTemp, Temp, Folder
      <3>3. SourceRows(c) # {} /\ SpanOf(SourceRows(c)) = job[w].span
        BY <1>3, <2>3, <3>1 DEF CopyToTemp, Progress, RangeIsRead
      <3> QED
        BY <1>5, <2>1, <3>1, <3>2, <3>3
    <2>4. CASE MarkTemp(w)
      <3>1. pc[w] = "Mark" /\ pc'[w] = "RemoveFinal"
        BY <1>3, <2>4, CallGoes DEF MarkTemp
      <3>2. Temp(w)'.rows = Temp(w).rows
        BY <2>4, <2>1, <2>2 DEF MarkTemp, SetTemp, Temp, Folder
      <3>3. TempIsWhole(w, c) /\ pc[w] \in Copied
        BY <1>3, <3>1 DEF Progress, Copied
      <3> QED
        BY <1>5, <2>1, <3>1, <3>2, <3>3
    <2> QED
      BY <1>6, <2>3, <2>4
  <1>7. CASE DropTemp(w) \/ ListOld(w)
    <2>1. /\ pc[w] \in {"DropTemp", "ListOld"} /\ pc'[w] \in {"ListOld", "RemoveOld"}
          /\ job'[w].code = c /\ job'[w].span = job[w].span
      BY <1>3, <1>7, CallGoes DEF DropTemp, ListOld, Job
    <2>2. pc'[w] = "RemoveOld" => job'[w].span \notin job'[w].old
      BY <1>3, <1>7, <2>1, CallGoes DEF DropTemp, ListOld, Job
    <2>3. FinalIsWhole(w, c)'
      BY <1>1, <1>2, <1>3, <2>1, <2>2 DEF FinalIsWhole, Progress, Moved, Final
    <2>4. Progress(w, c)'
      BY <2>1, <2>3 DEF Progress, FrameIsCurrent, PartIsWritten, RangeIsRead, TempIsWhole, Copied
    <2> QED
      BY <1>1, <2>4, SoundIfSame
  <1> QED
    BY <1>4, <1>6, <1>7

\* The steps after which a task starts over, or ends.
NoCall(w) ==
    \/ SinkFails(w) \/ MergeDone(w) \/ CallFails(w) \/ Sweep(w) \/ SweepFails(w)
    \/ Batch(w) \/ Crash(w)

LEMMA RestSound ==
    ASSUME TypeInv, NEW w \in Workers, NEW c \in Codes, NoCall(w)
    PROVE  Sound(w, c)
  <1>1. UNCHANGED <<data, saved>>
    BY DEF NoCall, SinkFails, MergeDone, CallFails, Sweep, SweepFails, Batch, StartMerge,
           ListingFails, BatchMerged, TaskEnds, Crash, bucket, history
  <1>2. Swapping(w) => job[w].code \in torn'
    BY DEF NoCall, SinkFails, MergeDone, CallFails, Sweep, SweepFails, Batch, StartMerge,
           ListingFails, BatchMerged, TaskEnds, Crash, Interrupts, Swapping
  <1>3. pc'[w] \in {"Idle", "Merge", "Range", "Sweep", "Returned"}
    BY DEF NoCall, SinkFails, MergeDone, CallFails, RefreshAndRepeat, NewAttemptFollows, GivesUp,
           Sweep, SweepFails, Batch, StartMerge, ListingFails, BatchMerged, TaskEnds, Crash, Leave,
           Goto, TypeInv, TypeOK
  <1> QED
    BY <1>1, <1>2, <1>3, NoProgress, SoundIfSame DEF SameRows

LEMMA MoveMarkerSound ==
    ASSUME NEW w \in Workers, NEW c \in Codes, CallOn(w, c), MoveMarker(w)
    PROVE  Sound(w, c)
  <1> USE DEF CallOn
  <1>1. PICK s : s = job[w].span
    OBVIOUS
  <1>2. /\ pc[w] = "MoveMarker" /\ pc'[w] = "MovePart"
        /\ UNCHANGED <<table, frame, saved, torn, temp, job>>
    BY CallGoes DEF MoveMarker, LocalInv
  <1>3. s \in Spans
    BY <1>1, <1>2 DEF LocalInv, TypeInv, SpanIsRead, Copied
  <1>4. SameRows(c)
    <2> DEFINE x == [Final(w) EXCEPT !.marked = Temp(w).marked]
    <2>1. data' = [data EXCEPT ![c][s] = x]
      BY <1>1 DEF MoveMarker, SetData
    <2>2. x \in Folder /\ x.rows = data[c][s].rows
      <3>1. Final(w) \in Folder /\ Temp(w) \in Folder /\ Final(w) = data[c][s]
        BY <1>1, <1>3, FolderTypes DEF LocalInv, TypeInv, Final
      <3> QED
        BY <3>1, FolderFields
    <2> HIDE DEF x
    <2> QED
      BY <1>3, <2>1, <2>2, PutRows DEF LocalInv, SameRows
  <1>5. Progress(w, c)'
    <2>1. TempIsWhole(w, c)'
      BY <1>2, <1>4, SameSources DEF TempIsWhole, CodeInv, Progress, Copied, Temp, SpanOf
    <2> QED
      BY <1>2, <2>1 DEF Progress, FrameIsCurrent, PartIsWritten, RangeIsRead, FinalIsWhole, Moved
  <1>6. \A d : Found(w, c, d) => Found(w, c, d)'
    BY <1>2, <1>4, SameSources DEF Found, Swapping, Temp
  <1> QED
    BY <1>2, <1>4, <1>5, <1>6 DEF Sound, SameRows

LEMMA RemoveFinalSound ==
    ASSUME NEW w \in Workers, NEW c \in Codes, CallOn(w, c), RemoveFinal(w)
    PROVE  Sound(w, c)
  <1> USE DEF CallOn
  <1>1. PICK s : s = job[w].span
    OBVIOUS
  <1>2. /\ pc[w] = "RemoveFinal" /\ pc'[w] = "MoveMarker"
        /\ UNCHANGED <<table, frame, saved, torn, temp, job>>
    BY CallGoes DEF RemoveFinal, LocalInv
  <1>3. s \in Spans
    BY <1>1, <1>2 DEF LocalInv, TypeInv, SpanIsRead, Copied
  <1>4. \A u \in Spans : data'[c][u].rows = IF u = s THEN {} ELSE data[c][u].rows
    <2>1. data' = [data EXCEPT ![c][s] = Absent]
      BY <1>1 DEF RemoveFinal, SetData
    <2>2. \A k \in Codes, u \in Spans :
             data'[k][u].rows = IF k = c /\ u = s THEN Absent.rows ELSE data[k][u].rows
      <3>1. TypeInv
        BY DEF LocalInv
      <3> QED
        BY <2>1, <1>3, <3>1, RemovedRows
    <2> QED
      BY <2>2, AbsentIsFolder
  <1>5. SourceRows(c)' \subseteq SourceRows(c)
    BY <1>3, <1>4 DEF SourceRows
  <1>6. /\ Temp(w)' = Temp(w) /\ Temp(w).rows # {} /\ SpanOf(Temp(w).rows) = s
        /\ SourceRows(c) \subseteq Temp(w).rows /\ Temp(w).rows \subseteq table[c]
    BY <1>1, <1>2 DEF CodeInv, Progress, TempIsWhole, Copied, Temp
  <1>7. Progress(w, c)'
    <2>1. TempIsWhole(w, c)'
      BY <1>1, <1>2, <1>5, <1>6 DEF TempIsWhole, SpanOf
    <2> QED
      BY <1>2, <2>1 DEF Progress, FrameIsCurrent, PartIsWritten, RangeIsRead, FinalIsWhole, Moved
  <1>8. \A d : Found(w, c, d) => Found(w, c, d)'
    BY <1>2, <1>6 DEF Found, Swapping
  <1>9. \A u \in Spans : data'[c][u].rows = data[c][u].rows \/ data'[c][u].rows = {}
    BY <1>4
  <1> QED
    BY <1>2, <1>7, <1>8, <1>9 DEF Sound

LEMMA MovePartSound ==
    ASSUME NEW w \in Workers, NEW c \in Codes, CallOn(w, c), MovePart(w)
    PROVE  Sound(w, c)
  <1> USE DEF CallOn
  <1>1. PICK s, R : s = job[w].span /\ R = Temp(w).rows
    OBVIOUS
  <1>2. /\ pc[w] = "MovePart" /\ pc'[w] = "DropTemp"
        /\ UNCHANGED <<table, frame, saved, torn, temp, job>>
    BY CallGoes DEF MovePart, LocalInv
  <1>3. s \in Spans
    BY <1>1, <1>2 DEF LocalInv, TypeInv, SpanIsRead, Copied
  <1>4. \A u \in Spans : data'[c][u].rows = IF u = s THEN R ELSE data[c][u].rows
    <2> DEFINE x == [Final(w) EXCEPT !.rows = R]
    <2>1. data' = [data EXCEPT ![c][s] = x]
      BY <1>1 DEF MovePart, SetData
    <2>2. x \in Folder /\ x.rows = R
      <3>1. Final(w) \in Folder /\ Temp(w) \in Folder
        BY <1>1, <1>3, FolderTypes DEF LocalInv, TypeInv
      <3>2. R \in SUBSET Days
        BY <1>1, <3>1 DEF Folder
      <3> QED
        BY <3>1, <3>2, FolderFields
    <2> HIDE DEF x
    <2> QED
      BY <1>3, <2>1, <2>2, PutRows DEF LocalInv
  <1>5. /\ R # {} /\ SpanOf(R) = s /\ SourceRows(c) \subseteq R /\ R \subseteq table[c]
    BY <1>1, <1>2 DEF CodeInv, Progress, TempIsWhole, Copied
  <1>6. SourceRows(c)' = R /\ Final(w)'.rows = R
    <2>1. \A d : d \in SourceRows(c)' <=> d \in R
      BY <1>3, <1>4, <1>5, InSources, InSourcesNext
    <2> QED
      BY <1>1, <1>2, <1>3, <1>4, <2>1 DEF Final
  <1>7. Progress(w, c)'
    <2>1. FinalIsWhole(w, c)'
      BY <1>2, <1>6 DEF FinalIsWhole
    <2> QED
      BY <1>2, <2>1 DEF Progress, FrameIsCurrent, PartIsWritten, RangeIsRead, TempIsWhole, Copied
  <1>8. \A d : Found(w, c, d) => Found(w, c, d)'
    BY <1>1, <1>5, <1>6 DEF Found
  <1>9. \A u \in Spans :
           data'[c][u].rows = data[c][u].rows \/ (u = s /\ data'[c][u].rows = R)
    BY <1>4
  <1> QED
    BY <1>2, <1>5, <1>7, <1>8, <1>9 DEF Sound

LEMMA RemoveOldSound ==
    ASSUME NEW w \in Workers, NEW c \in Codes, CallOn(w, c), RemoveOld(w)
    PROVE  Sound(w, c)
  <1> USE DEF CallOn
  <1>1. PICK s, u : /\ s = job[w].span /\ u \in job[w].old
                    /\ data' = [data EXCEPT ![c][u] = Absent]
                    /\ job' = [job EXCEPT ![w].old = @ \ {u}]
    BY DEF RemoveOld
  <1>2. /\ pc[w] = "RemoveOld" /\ pc'[w] = "RemoveOld"
        /\ UNCHANGED <<table, frame, saved, torn, temp>>
    BY CallGoes DEF RemoveOld, LocalInv
  <1>3. /\ s \in Spans /\ u \in Spans /\ u # s
        /\ SourceRows(c) \subseteq data[c][s].rows
    BY <1>1, <1>2, JobTypes
    DEF LocalInv, TypeInv, SpanIsRead, Moved, CodeInv, Progress, FinalIsWhole, Final
  <1>4. \A v \in Spans : data'[c][v].rows = IF v = u THEN {} ELSE data[c][v].rows
    <2>1. \A k \in Codes, v \in Spans :
             data'[k][v].rows = IF k = c /\ v = u THEN Absent.rows ELSE data[k][v].rows
      <3>1. TypeInv
        BY DEF LocalInv
      <3> QED
        BY <1>1, <1>3, <3>1, RemovedRows
    <2> QED
      BY <2>1, AbsentIsFolder
  <1>5. SourceRows(c)' \subseteq data'[c][s].rows /\ SourceRows(c) \subseteq SourceRows(c)'
    <2>1. data'[c][s].rows = data[c][s].rows
      BY <1>3, <1>4
    <2>2. \A d : d \in SourceRows(c)' => d \in SourceRows(c)
      BY <1>3, <1>4, InSources, InSourcesNext
    <2>3. \A d \in SourceRows(c) : d \in SourceRows(c)'
      BY <1>3, <2>1, InSourcesNext
    <2> QED
      BY <1>3, <2>1, <2>2, <2>3
  <1>6. job'[w].code = c /\ job'[w].span = s /\ s \notin job'[w].old
    <2>1. s \notin job[w].old
      BY <1>1, <1>2 DEF CodeInv, Progress, FinalIsWhole
    <2>2. job[w] \in Job /\ job \in [Workers -> Job]
      BY DEF LocalInv, TypeInv, TypeOK
    <2> QED
      BY <1>1, <2>1, <2>2 DEF Job
  <1>7. Progress(w, c)'
    <2>1. FinalIsWhole(w, c)'
      BY <1>5, <1>6 DEF FinalIsWhole, Final
    <2> QED
      BY <1>2, <2>1 DEF Progress, FrameIsCurrent, PartIsWritten, RangeIsRead, TempIsWhole, Copied
  <1>8. \A d : Found(w, c, d) => Found(w, c, d)'
    BY <1>2, <1>5 DEF Found, Swapping
  <1>9. \A v \in Spans : data'[c][v].rows = data[c][v].rows \/ data'[c][v].rows = {}
    BY <1>4
  <1> QED
    BY <1>2, <1>7, <1>8, <1>9 DEF Sound

LEMMA StepSound ==
    ASSUME LocalInv, NEW w \in Workers, NEW c \in Codes, CodeInv(c), Step(w)
    PROVE  Sound(w, c)
  <1>1. CASE CallsOf(w)
    <2>1. CASE c # job[w].code
      BY <1>1, <2>1, ElsewhereSound
    <2>2. CASE c = job[w].code
      BY <1>1, <2>2, QuietCallSound, RemoveFinalSound, MoveMarkerSound, MovePartSound,
         RemoveOldSound DEF CallsOf, CallOn
    <2> QED
      BY <2>1, <2>2
  <1>2. CASE NoCall(w)
    BY <1>2, RestSound DEF LocalInv
  <1>3. CASE Load(w) \/ WritePart(w) \/ WriteMarker(w)
    BY <1>3, LoadSound, WritePartSound, WriteMarkerSound
  <1> QED
    BY <1>1, <1>2, <1>3 DEF Step, Write, Merge, CallsOf, NoCall

\* The others hold other codes, or w leaves the folders of this one alone.
LEMMA OthersProgress ==
    ASSUME LocalInv, NEW w \in Workers, Step(w), NEW v \in Workers, v # w,
           NEW c \in Codes, CodeInv(c)
    PROVE  Progress(v, c)'
  <1>1. pc'[v] = pc[v] /\ frame'[v] = frame[v] /\ job'[v] = job[v] /\ table' = table
    BY OthersUnmoved DEF Others, LocalInv, TypeInv
  <1>2. CASE c \in Held(w)
    <2>1. c \notin Held(v)
      BY <1>2 DEF CodeInv, Alone
    <2>2. c \notin Held(v)'
      BY <1>1, <2>1 DEF Held
    <2>3. AtItsCode(v)'
      BY StepLocal DEF LocalInv
    <2> QED
      BY <2>2, <2>3, FreeProgress
  <1>3. CASE c \notin Held(w)
    <2>1. data'[c] = data[c] /\ temp'[c] = temp[c]
      BY <1>3, OnlyHeld
    <2>2. SourceRows(c)' = SourceRows(c)
      BY <2>1 DEF SourceRows
    <2>3. Progress(v, c)
      BY DEF CodeInv
    <2>4. FrameIsCurrent(v, c)'
      BY <1>1, <2>2, <2>3 DEF FrameIsCurrent, Progress, Held, Within, SpanOf
    <2>5. job[v].code = c => Final(v)' = Final(v) /\ Temp(v)' = Temp(v)
      BY <1>1, <2>1 DEF Final, Temp
    <2>6. PartIsWritten(v, c)' /\ RangeIsRead(v, c)' /\ FinalIsWhole(v, c)'
      BY <1>1, <2>2, <2>3, <2>5 DEF PartIsWritten, RangeIsRead, FinalIsWhole, SpanOf, Progress
    <2>7. TempIsWhole(v, c)'
      BY <1>1, <2>2, <2>3, <2>5 DEF TempIsWhole, SpanOf, Progress
    <2> QED
      BY <2>4, <2>6, <2>7 DEF Progress
  <1> QED
    BY <1>2, <1>3

LEMMA TornGrows == ASSUME NEW w \in Workers, Step(w) PROVE torn \subseteq torn'
  BY DEF Step, Load, Write, WritePart, WriteMarker, SinkFails, Merge, ReadRange, CopyToTemp, MarkTemp,
         RemoveFinal, MoveMarker, MovePart, DropTemp, ListOld, RemoveOld, Call, MergeDone, CallFails,
         Sweep, SweepFails, Batch, StartMerge, ListingFails, BatchMerged, TaskEnds, Crash, Interrupts,
         history

\* What a task's step leaves of the invariant of a code, if nobody joins it.
LEMMA StepCode ==
    ASSUME LocalInv, NEW w \in Workers, Step(w), NEW c \in Codes, CodeInv(c), Alone(c)'
    PROVE  CodeInv(c)'
  <1>1. Sound(w, c)
    BY StepSound
  <1>2. Others(w) /\ table' = table
    BY OthersUnmoved DEF LocalInv, TypeInv
  <1>3. \A v \in Workers : Progress(v, c)'
    BY <1>1, OthersProgress DEF Sound
  <1>4. FromTable(c)'
    <2>1. \A s \in Spans : data'[c][s].rows \subseteq table[c]
      BY <1>1 DEF Sound, CodeInv, FromTable
    <2>2. frame'[w][c] \subseteq table[c]
      <3>1. CASE Load(w)
        BY <3>1 DEF Load, LocalInv, TypeInv, TypeOK
      <3>2. CASE ~ Load(w)
        BY <3>2, HeldOf DEF CodeInv, FromTable, NoRows
      <3> QED
        BY <3>1, <3>2
    <2> QED
      BY <1>2, <2>1, <2>2 DEF Others, CodeInv, FromTable
  <1>5. NamedRight(c)'
    <2> SUFFICES ASSUME NEW s \in Spans, data'[c][s].rows # {}
                 PROVE  SpanOf(data'[c][s].rows) = s
      BY DEF NamedRight, Sources, SpanOf
    <2> QED
      BY <1>1 DEF Sound, CodeInv, NamedRight, Sources
  <1> QED
    BY <1>3, <1>4, <1>5 DEF CodeInv

\* A row that can be found can be found after the step, unless a swap of the
\* code's folders was cut short.
LEMMA StepFinds ==
    ASSUME LocalInv, NEW w \in Workers, Step(w), NEW c \in Codes, CodeInv(c), c \notin torn',
           NEW d, Findable(c, d)
    PROVE  Findable(c, d)'
  <1>1. CASE c \in Held(w)
    <2>1. ASSUME NEW v \in Workers \ {w}, Found(v, c, d)
          PROVE  d \in SourceRows(c)
      <3>1. Swapping(v) /\ job[v].code = c => c \in Held(v)
        BY DEF Swapping, LocalInv, AtItsCode, AtWork, MergeSteps
      <3> QED
        BY <1>1, <2>1, <3>1 DEF Found, CodeInv, Alone
    <2>2. Found(w, c, d)
      BY <2>1 DEF Found, Findable
    <2> QED
      BY <2>2, StepSound DEF Sound, Findable
  <1>2. CASE c \notin Held(w)
    <2>1. data'[c] = data[c] /\ temp'[c] = temp[c]
      BY <1>2, OnlyHeld
    <2>2. SourceRows(c)' = SourceRows(c)
      BY <2>1 DEF SourceRows
    <2>3. ASSUME Found(w, c, d)
          PROVE  d \in SourceRows(c)
      BY <1>2, <2>3 DEF Found, Swapping, LocalInv, AtItsCode, AtWork, MergeSteps
    <2>4. ASSUME NEW v \in Workers \ {w}, Found(v, c, d)
          PROVE  Found(v, c, d)'
      <3>1. pc'[v] = pc[v] /\ job'[v] = job[v]
        BY OthersUnmoved DEF Others, LocalInv, TypeInv
      <3> QED
        BY <2>1, <2>2, <2>4, <3>1 DEF Found, Swapping, Temp
    <2> QED
      BY <2>2, <2>3, <2>4 DEF Findable
  <1> QED
    BY <1>1, <1>2

\* What a step saves can be found.
LEMMA StepSaves ==
    ASSUME LocalInv, NEW w \in Workers, Step(w), NEW c \in Codes, CodeInv(c),
           NEW d \in saved'[c], d \notin saved[c]
    PROVE  Findable(c, d)'
  BY StepSound DEF Sound, Findable

\* The table may grow beside the tasks, and other codes may change.
LEMMA TableCode ==
    ASSUME UNCHANGED <<pc, frame, job>>, NEW c \in Codes, CodeInv(c),
           data'[c] = data[c], temp'[c] = temp[c], table[c] \subseteq table'[c]
    PROVE  CodeInv(c)'
  <1>1. Alone(c)' /\ NamedRight(c)'
    BY DEF CodeInv, Alone, Held, NamedRight, Sources
  <1>2. FromTable(c)'
    BY DEF CodeInv, FromTable
  <1>3. ASSUME NEW w \in Workers
        PROVE  Progress(w, c)'
    <2>1. SourceRows(c)' = SourceRows(c)
      BY DEF SourceRows
    <2>2. job[w].code = c => Final(w)' = Final(w) /\ Temp(w)' = Temp(w)
      BY DEF Final, Temp
    <2>3. TempIsWhole(w, c)'
      BY <2>1, <2>2 DEF CodeInv, Progress, TempIsWhole, SpanOf
    <2>4. FrameIsCurrent(w, c)' /\ PartIsWritten(w, c)'
      BY <2>1, <2>2 DEF CodeInv, Progress, FrameIsCurrent, PartIsWritten, Held, Within, SpanOf
    <2>5. RangeIsRead(w, c)' /\ FinalIsWhole(w, c)'
      BY <2>1, <2>2 DEF CodeInv, Progress, RangeIsRead, FinalIsWhole, SpanOf
    <2> QED
      BY <2>3, <2>4, <2>5 DEF Progress
  <1> QED
    BY <1>1, <1>2, <1>3 DEF CodeInv

LEMMA SameFindable ==
    ASSUME UNCHANGED <<pc, job>>, NEW c, data'[c] = data[c], temp'[c] = temp[c],
           NEW d, Findable(c, d)
    PROVE  Findable(c, d)'
  <1>1. SourceRows(c)' = SourceRows(c)
    BY DEF SourceRows
  <1>2. \A w \in Workers : job[w].code = c => Temp(w)' = Temp(w)
    BY DEF Temp
  <1> QED
    BY <1>1, <1>2 DEF Findable, Found, Swapping

LEMMA SameLocal == ASSUME LocalInv, TypeInv', UNCHANGED <<pc, frame, job>> PROVE LocalInv'
  BY DEF LocalInv, AtItsCode, Held

-----------------------------------------------------------------------------
(***************************************************************************)
(* The theorems                                                            *)
(***************************************************************************)
LEMMA InitLocal == Init => LocalInv
  BY InitType DEF Init, LocalInv, AtItsCode, AtWork, MergeSteps

LEMMA InitCode == ASSUME Init, NEW c \in Codes PROVE CodeInv(c) /\ RowsFound(c)
  <1>1. \A s \in Spans : data[c][s].rows = {}
    BY DEF Init, NoFolders, Absent
  <1>2. \A w \in Workers : Held(w) = {} /\ pc[w] = "Idle" /\ frame[w][c] = {}
    BY DEF Init, Held, NoRows
  <1>3. Alone(c) /\ FromTable(c)
    BY <1>1, <1>2 DEF Alone, FromTable
  <1>4. NamedRight(c)
    BY <1>1 DEF NamedRight, Sources
  <1>5. \A w \in Workers : Progress(w, c)
    BY <1>2 DEF Progress, FrameIsCurrent, PartIsWritten, RangeIsRead, TempIsWhole, FinalIsWhole,
                Copied, Moved
  <1>6. RowsFound(c)
    BY DEF RowsFound, Init, NoRows
  <1> QED
    BY <1>3, <1>4, <1>5, <1>6 DEF CodeInv

LEMMA NextInv == Exclusive /\ Inv /\ [Next]_vars => Inv'
  <1> SUFFICES ASSUME Exclusive, Inv, [Next]_vars PROVE Inv'
    OBVIOUS
  <1>1. ASSUME UNCHANGED <<data, temp, pc, frame, todo, job, saved, torn>>,
               \A c \in Codes : table[c] \subseteq table'[c]
        PROVE  Inv'
    <2>1. LocalInv'
      BY <1>1, NextType, SameLocal DEF Inv, LocalInv
    <2>2. ASSUME NEW c \in Codes
          PROVE  CodeInv(c)' /\ RowsFound(c)'
      BY <1>1, TableCode, SameFindable DEF Inv, RowsFound
    <2> QED
      BY <2>1, <2>2 DEF Inv
  <1>2. CASE UNCHANGED vars
    BY <1>1, <1>2 DEF vars, bucket, history
  <1>3. ASSUME NEW c \in Codes, NEW d \in Days, Download(c, d)
        PROVE  Inv'
    <2>1. \A k \in Codes : table[k] \subseteq table'[k]
      BY <1>3 DEF Download, Inv, LocalInv, TypeInv, TypeOK
    <2> QED
      BY <1>1, <1>3, <2>1 DEF Download, bucket, history
  <1>4. ASSUME NEW w \in Workers, Step(w)
        PROVE  Inv'
    <2>1. LocalInv'
      BY <1>4, StepLocal DEF Inv
    <2>2. ASSUME NEW c \in Codes
          PROVE  CodeInv(c)' /\ RowsFound(c)'
      <3>1. LocalInv /\ CodeInv(c) /\ RowsFound(c)
        BY DEF Inv
      <3>2. CodeInv(c)'
        BY <1>4, <3>1, AloneStep, StepCode DEF CodeInv
      <3>3. torn \subseteq torn'
        BY <1>4, TornGrows
      <3>4. RowsFound(c)'
        BY <1>4, <3>1, <3>3, StepFinds, StepSaves DEF RowsFound
      <3> QED
        BY <3>2, <3>4
    <2> QED
      BY <2>1, <2>2 DEF Inv
  <1> QED
    BY <1>2, <1>3, <1>4 DEF Next, Step

LEMMA InvHolds == Exclusive => (Spec => []Inv)
  <1>1. ASSUME Exclusive
        PROVE  Spec => []Inv
    <2>1. Inv /\ [Next]_vars => Inv'
      BY <1>1, NextInv
    <2>2. Init => Inv
      BY InitLocal, InitCode DEF Inv
    <2> QED
      BY <2>1, <2>2, PTL DEF Spec
  <1> QED
    BY <1>1

\* If no two tasks work on one code at once, the swap of folders is the only
\* moment at which a failure takes a saved row from the readers.
THEOREM SavedRowsStay == Exclusive => (Spec => []NoRowLost)
  <1>1. Inv => NoRowLost
    <2> SUFFICES ASSUME Inv, NEW c \in Codes \ torn, NEW d \in saved[c]
                 PROVE  d \in Readable(c)
      BY DEF NoRowLost
    <2>1. \/ d \in SourceRows(c)
          \/ \E w \in Workers : Swapping(w) /\ job[w].code = c /\ d \in Temp(w).rows
      BY DEF Inv, RowsFound, Findable, Found
    <2> QED
      BY <2>1 DEF Readable
  <1> QED
    BY <1>1, InvHolds, PTL

\* And no folder's name speaks of days it does not have.
THEOREM FoldersAreNamedRight == Exclusive => (Spec => []NamesTellTheTruth)
  <1>1. Inv => NamesTellTheTruth
    BY DEF Inv, CodeInv, NamedRight, NamesTellTheTruth
  <1> QED
    BY <1>1, InvHolds, PTL

-----------------------------------------------------------------------------
(***************************************************************************)
(* One folder per merged code                                              *)
(***************************************************************************)
\* What the steps of a merge have achieved so far.
MergeIsWhole(w) ==
    /\ pc[w] \in {"RemoveFinal", "MoveMarker"} => Temp(w).marked
    /\ pc[w] \in {"MovePart", "DropTemp", "ListOld", "RemoveOld"} => Final(w).marked
    /\ pc[w] \in {"DropTemp", "ListOld", "RemoveOld"} => Final(w).rows # {}
    /\ pc[w] \in {"ListOld", "RemoveOld"} => Temp(w) = Absent
    /\ pc[w] = "RemoveOld" => Sources(job[w].code) \subseteq {job[w].span} \cup job[w].old

\* A task merges each of its codes once.
Once(w) ==
    /\ merged[w] \subseteq Held(w) /\ merged[w] \cap todo[w] = {}
    /\ pc[w] \in {"Idle", "WritePart", "WriteMarker"} => merged[w] = {}
    /\ pc[w] \in MergeSteps \cup {"Sweep"} => job[w].code \notin merged[w] \cup todo[w]

Single(c) == \E s \in Spans : Sources(c) = {s} /\ data[c][s].marked /\ temp[c][s] = Absent

MergedInv ==
    /\ Inv
    /\ \A w \in Workers : MergeIsWhole(w) /\ Once(w) /\ \A c \in merged[w] : Single(c)

LEMMA SameFolders ==
    ASSUME NEW c \in Codes, data'[c] = data[c], temp'[c] = temp[c]
    PROVE  Sources(c)' = Sources(c) /\ (Single(c) => Single(c)')
  BY DEF Single, Sources

LEMMA MergedOfOthers ==
    ASSUME merged \in [Workers -> SUBSET Codes], NEW w \in Workers, Step(w),
           NEW v \in Workers, v # w
    PROVE  merged'[v] = merged[v]
  BY DEF Step, Load, Write, WritePart, WriteMarker, SinkFails, Merge, ReadRange, CopyToTemp,
     MarkTemp, RemoveFinal, MoveMarker, MovePart, DropTemp, ListOld, RemoveOld, Call, MergeDone,
     CallFails, Sweep, SweepFails, Batch, StartMerge, ListingFails, BatchMerged, TaskEnds, Crash,
     Leave, history

LEMMA OthersMerged ==
    ASSUME MergedInv, NEW w \in Workers, Step(w), NEW v \in Workers, v # w
    PROVE  MergeIsWhole(v)' /\ Once(v)' /\ \A c \in merged'[v] : Single(c)'
  <1>1. pc'[v] = pc[v] /\ frame'[v] = frame[v] /\ todo'[v] = todo[v] /\ job'[v] = job[v]
    BY OthersUnmoved DEF Others, MergedInv, Inv, LocalInv, TypeInv
  <1>2. merged'[v] = merged[v]
    <2>1. merged \in [Workers -> SUBSET Codes]
      BY DEF MergedInv, Inv, LocalInv, TypeInv, TypeOK
    <2> QED
      BY <2>1, MergedOfOthers
  <1>3. \A c \in Held(v) : c \in Codes /\ data'[c] = data[c] /\ temp'[c] = temp[c]
    <2>1. \A c \in Held(v) : c \in Codes /\ c \notin Held(w)
      BY DEF MergedInv, Inv, CodeInv, Alone, Held
    <2> QED
      BY <2>1, OnlyHeld DEF MergedInv, Inv
  <1>4. Once(v)'
    BY <1>1, <1>2 DEF MergedInv, Once, Held
  <1>5. \A c \in merged'[v] : Single(c)'
    BY <1>2, <1>3, SameFolders DEF MergedInv, Once
  <1>6. MergeIsWhole(v)'
    <2>1. PICK c : c = job[v].code
      OBVIOUS
    <2>2. CASE pc[v] \in AtWork
      <3>1. c \in Held(v) /\ c = job'[v].code
        BY <1>1, <2>1, <2>2 DEF MergedInv, Inv, LocalInv, AtItsCode
      <3>2. Final(v)' = Final(v) /\ Temp(v)' = Temp(v) /\ Sources(c)' = Sources(c)
        BY <1>1, <1>3, <2>1, <3>1, SameFolders DEF Final, Temp
      <3>3. MergeIsWhole(v) /\ pc'[v] = pc[v] /\ job'[v] = job[v]
        BY <1>1 DEF MergedInv
      <3>4. Sources(job[v].code)' = Sources(job[v].code)
        BY <2>1, <3>1, <3>2, <3>3 DEF Sources
      <3> QED
        BY <3>2, <3>3, <3>4 DEF MergeIsWhole
    <2>3. CASE pc[v] \notin AtWork
      BY <1>1, <2>3 DEF MergeIsWhole, AtWork, MergeSteps
    <2> QED
      BY <2>2, <2>3
  <1> QED
    BY <1>4, <1>5, <1>6

LEMMA OnceStep ==
    ASSUME MergedInv, NEW w \in Workers, Step(w)
    PROVE  Once(w)'
  <1>1. /\ pc \in [Workers -> PCs] /\ frame \in [Workers -> [Codes -> SUBSET Days]]
        /\ job \in [Workers -> Job] /\ job[w] \in Job /\ todo \in [Workers -> SUBSET Codes]
        /\ merged \in [Workers -> SUBSET Codes]
    BY DEF MergedInv, Inv, LocalInv, TypeInv, TypeOK
  <1>2. Once(w)
    BY DEF MergedInv
  <1>3. ASSUME Leave(w)
        PROVE  Once(w)'
    BY <1>1, <1>3 DEF Leave, Goto, Once, MergeSteps
  <1>4. ASSUME UNCHANGED <<frame, todo, merged>>, pc[w] \in MergeSteps \cup {"Sweep"},
               job'[w].code = job[w].code, pc'[w] \in MergeSteps \cup {"Sweep", "Merge"}
        PROVE  Once(w)'
    BY <1>2, <1>4 DEF Once, Held, MergeSteps
  <1>5. CASE Load(w) \/ WritePart(w) \/ WriteMarker(w)
    <2>1. /\ pc[w] \in {"Idle", "WritePart", "WriteMarker"} /\ UNCHANGED merged
          /\ pc'[w] \in {"WritePart", "WriteMarker", "Merge"}
      BY <1>1, <1>5 DEF Load, WritePart, WriteMarker, Goto, history
    <2> QED
      BY <1>2, <2>1 DEF Once, MergeSteps
  <1>6. CASE CallsOf(w)
    <2>1. /\ pc[w] \in MergeSteps /\ pc'[w] \in MergeSteps /\ UNCHANGED <<frame, todo, merged>>
      BY <1>1, <1>6 DEF CallsOf, ReadRange, CopyToTemp, MarkTemp, RemoveFinal, MoveMarker,
         MovePart, DropTemp, ListOld, RemoveOld, Call, Goto, MergeSteps, history
    <2>2. job'[w].code = job[w].code
      BY <1>1, <1>6 DEF CallsOf, ReadRange, CopyToTemp, MarkTemp, RemoveFinal, MoveMarker,
         MovePart, DropTemp, ListOld, RemoveOld, Job
    <2> QED
      BY <1>4, <2>1, <2>2
  <1>7. CASE CallFails(w)
    <2>1. job'[w].code = job[w].code /\ pc'[w] \in {"Range", "Sweep"}
      BY <1>1, <1>7 DEF CallFails, RefreshAndRepeat, NewAttemptFollows, GivesUp, Goto, Job
    <2> QED
      BY <1>4, <1>7, <2>1 DEF CallFails, MergeSteps
  <1>8. CASE Sweep(w)
    <2>1. job'[w].code = job[w].code /\ pc'[w] \in {"Range", "Merge"}
      BY <1>1, <1>8 DEF Sweep, Goto, NewAttempt
    <2> QED
      BY <1>4, <1>8, <2>1 DEF Sweep, MergeSteps, history
  <1>9. CASE MergeDone(w)
    <2>1. job[w].code \in Held(w)
      BY <1>9 DEF MergeDone, MergedInv, Inv, LocalInv, AtItsCode, AtWork, MergeSteps
    <2>2. /\ pc[w] = "RemoveOld" /\ pc'[w] = "Merge" /\ UNCHANGED <<frame, todo>>
          /\ merged'[w] = merged[w] \cup {job[w].code}
      BY <1>1, <1>9 DEF MergeDone, Goto
    <2> QED
      BY <1>2, <2>1, <2>2 DEF Once, Held, MergeSteps
  <1>10. CASE StartMerge(w)
    <2>1. PICK c \in todo[w] : job'[w].code = c /\ todo'[w] = todo[w] \ {c}
      BY <1>1, <1>10 DEF StartMerge, NewAttempt
    <2>2. pc'[w] \in {"Merge", "Range"} /\ UNCHANGED <<frame, merged>>
      BY <1>1, <1>10 DEF StartMerge, Goto, history
    <2> QED
      BY <1>2, <2>1, <2>2 DEF Once, Held, MergeSteps
  <1>11. CASE BatchMerged(w)
    <2>1. pc'[w] = "Returned" /\ UNCHANGED <<frame, todo, merged>>
      BY <1>1, <1>11 DEF BatchMerged, Goto, history
    <2> QED
      BY <1>2, <2>1 DEF Once, Held, MergeSteps
  <1>12. CASE SinkFails(w) \/ SweepFails(w) \/ ListingFails(w) \/ TaskEnds(w) \/ Crash(w)
    BY <1>3, <1>12 DEF SinkFails, SweepFails, ListingFails, TaskEnds, Crash
  <1> QED
    BY <1>5, <1>6, <1>7, <1>8, <1>9, <1>10, <1>11, <1>12 DEF Step, Write, Merge, CallsOf, Batch

\* Each step of a merge does its share.
LEMMA WholeStep ==
    ASSUME MergedInv, NEW w \in Workers, Step(w)
    PROVE  MergeIsWhole(w)'
  <1> DEFINE Late == {"RemoveFinal", "MoveMarker", "MovePart", "DropTemp", "ListOld", "RemoveOld"}
  <1>1. ASSUME pc'[w] \notin Late
        PROVE  MergeIsWhole(w)'
    BY <1>1 DEF MergeIsWhole
  <1>2. /\ pc \in [Workers -> PCs] /\ job \in [Workers -> Job] /\ job[w] \in Job
        /\ data \in [Codes -> [Spans -> Folder]] /\ temp \in [Codes -> [Spans -> Folder]]
    BY DEF MergedInv, Inv, LocalInv, TypeInv, TypeOK
  <1>3. PICK c, s : c = job[w].code /\ s = job[w].span
    OBVIOUS
  <1>4. MergeIsWhole(w) /\ c \in Codes /\ Progress(w, c)
    BY <1>3, JobTypes DEF MergedInv, Inv, LocalInv, TypeInv, CodeInv
  <1>5. pc[w] \in Copied \cup Moved => s \in Spans /\ data[c][s] \in Folder /\ temp[c][s] \in Folder
    BY <1>2, <1>3, <1>4 DEF MergedInv, Inv, LocalInv, TypeInv, SpanIsRead
  <1> HIDE DEF Late
  <1>6. CASE MarkTemp(w)
    <2>1. pc[w] = "Mark" /\ pc'[w] = "RemoveFinal" /\ UNCHANGED job
      BY <1>6, CallGoes DEF MarkTemp, MergedInv, Inv, LocalInv
    <2>2. Temp(w)'.marked
      BY <1>2, <1>3, <1>4, <1>5, <1>6, <2>1 DEF MarkTemp, SetTemp, Temp, Copied, Folder
    <2> QED
      BY <2>1, <2>2 DEF MergeIsWhole
  <1>7. CASE RemoveFinal(w)
    <2>1. pc[w] = "RemoveFinal" /\ pc'[w] = "MoveMarker" /\ UNCHANGED <<job, temp>>
      BY <1>7, CallGoes DEF RemoveFinal, MergedInv, Inv, LocalInv
    <2> QED
      BY <1>4, <2>1 DEF MergeIsWhole, Temp
  <1>8. CASE MoveMarker(w)
    <2>1. pc[w] = "MoveMarker" /\ pc'[w] = "MovePart" /\ UNCHANGED <<job, temp>>
      BY <1>8, CallGoes DEF MoveMarker, MergedInv, Inv, LocalInv
    <2>2. Temp(w).marked
      BY <1>4, <2>1 DEF MergeIsWhole
    <2>3. Final(w)'.marked
      BY <1>2, <1>3, <1>4, <1>5, <1>8, <2>1, <2>2 DEF MoveMarker, SetData, Final, Copied, Folder
    <2> QED
      BY <2>1, <2>3 DEF MergeIsWhole
  <1>9. CASE MovePart(w)
    <2>1. pc[w] = "MovePart" /\ pc'[w] = "DropTemp" /\ UNCHANGED <<job, temp>>
      BY <1>9, CallGoes DEF MovePart, MergedInv, Inv, LocalInv
    <2>2. Final(w).marked /\ Temp(w).rows # {}
      BY <1>4, <1>9, <2>1 DEF MergeIsWhole, MovePart
    <2>3. Final(w)'.marked /\ Final(w)'.rows # {}
      BY <1>2, <1>3, <1>4, <1>5, <1>9, <2>1, <2>2 DEF MovePart, SetData, Final, Copied, Folder
    <2> QED
      BY <2>1, <2>3 DEF MergeIsWhole
  <1>10. CASE DropTemp(w)
    <2>1. /\ pc[w] = "DropTemp" /\ pc'[w] = "ListOld" /\ UNCHANGED data
          /\ job'[w].code = c /\ job'[w].span = s
      BY <1>2, <1>3, <1>10, CallGoes DEF DropTemp, MergedInv, Inv, LocalInv, Job
    <2>2. temp' = [temp EXCEPT ![c][s] = Absent]
      BY <1>3, <1>10 DEF DropTemp, SetTemp
    <2>3. Temp(w)' = Absent /\ Final(w)' = Final(w)
      BY <1>2, <1>3, <1>4, <1>5, <2>1, <2>2 DEF Temp, Final, Moved
    <2> QED
      BY <1>4, <2>1, <2>3 DEF MergeIsWhole
  <1>11. CASE ListOld(w)
    <2>1. /\ pc[w] = "ListOld" /\ pc'[w] = "RemoveOld" /\ UNCHANGED <<data, temp>>
          /\ job'[w].code = c /\ job'[w].span = s /\ job'[w].old = Sources(c) \ {s}
      BY <1>2, <1>3, <1>11, CallGoes DEF ListOld, bucket, MergedInv, Inv, LocalInv, Job
    <2>2. Temp(w)' = Temp(w) /\ Final(w)' = Final(w) /\ Sources(c)' = Sources(c)
      BY <1>3, <2>1 DEF Temp, Final, Sources
    <2> QED
      BY <1>3, <1>4, <2>1, <2>2 DEF MergeIsWhole, Sources
  <1>12. CASE RemoveOld(w)
    <2>1. PICK u \in job[w].old : /\ data' = [data EXCEPT ![c][u] = Absent]
                                  /\ job' = [job EXCEPT ![w].old = @ \ {u}]
      BY <1>3, <1>12 DEF RemoveOld
    <2>2. /\ pc[w] = "RemoveOld" /\ pc'[w] = "RemoveOld" /\ UNCHANGED temp
          /\ job'[w].code = c /\ job'[w].span = s /\ job'[w].old = job[w].old \ {u}
      BY <1>2, <1>3, <1>12, <2>1, CallGoes DEF RemoveOld, MergedInv, Inv, LocalInv, Job
    <2>3. u \in Spans /\ u # s
      BY <1>2, <1>3, <1>4, <2>2 DEF Progress, FinalIsWhole, Job
    <2>4. Temp(w)' = Temp(w) /\ Final(w)' = Final(w)
      BY <1>2, <1>3, <1>4, <1>5, <2>1, <2>2, <2>3 DEF Temp, Final, Moved
    <2>5. \A v \in Spans : data'[c][v].rows # {} => v \in Sources(c) /\ v # u
      BY <1>2, <1>4, <2>1, <2>3, AbsentIsFolder DEF Sources
    <2> QED
      BY <1>3, <1>4, <2>2, <2>4, <2>5 DEF MergeIsWhole, Sources
  <1>13. CASE ReadRange(w) \/ CopyToTemp(w)
    BY <1>1, <1>13, CallGoes DEF ReadRange, CopyToTemp, MergedInv, Inv, LocalInv, Late
  <1>14. CASE Load(w) \/ WritePart(w) \/ WriteMarker(w)
    BY <1>1, <1>2, <1>14 DEF Load, WritePart, WriteMarker, Goto, Late
  <1>15. ASSUME NoCall(w)
         PROVE  MergeIsWhole(w)'
    BY <1>1, <1>2, <1>15 DEF NoCall, SinkFails, MergeDone, CallFails, RefreshAndRepeat,
       NewAttemptFollows, GivesUp, Sweep, SweepFails, Batch, StartMerge, ListingFails, BatchMerged,
       TaskEnds, Crash, Leave, Goto, Late
  <1> QED
    BY <1>6, <1>7, <1>8, <1>9, <1>10, <1>11, <1>12, <1>13, <1>14, <1>15
    DEF Step, Write, Merge, NoCall

\* What has become one folder stays one; the last step of a merge makes it one.
LEMMA SingleStep ==
    ASSUME MergedInv, NEW w \in Workers, Step(w), NEW c \in merged'[w]
    PROVE  Single(c)'
  <1>1. Once(w) /\ merged \in [Workers -> SUBSET Codes] /\ merged[w] \subseteq Codes
    BY DEF MergedInv, Inv, LocalInv, TypeInv, TypeOK
  <1>2. ASSUME c \in merged[w], Merge(w) \/ Batch(w) \/ Crash(w) \/ SinkFails(w),
               c # job[w].code
        PROVE  Single(c)'
    BY <1>1, <1>2, OnlyItsCode, SameFolders DEF MergedInv, Inv, LocalInv
  <1>3. CASE Load(w) \/ WritePart(w) \/ WriteMarker(w)
    BY <1>1, <1>3 DEF Load, WritePart, WriteMarker, Once, history
  <1>4. CASE SinkFails(w) \/ SweepFails(w) \/ ListingFails(w) \/ TaskEnds(w) \/ Crash(w)
    BY <1>1, <1>4 DEF SinkFails, SweepFails, ListingFails, TaskEnds, Crash, Leave
  <1>5. CASE StartMerge(w) \/ BatchMerged(w)
    <2>1. UNCHANGED <<data, temp, merged>>
      BY <1>5 DEF StartMerge, BatchMerged, bucket, history
    <2> QED
      BY <1>1, <2>1, SameFolders DEF MergedInv
  <1>6. CASE CallsOf(w) \/ CallFails(w) \/ Sweep(w)
    <2>1. pc[w] \in MergeSteps \cup {"Sweep"} /\ UNCHANGED merged
      BY <1>6 DEF CallsOf, ReadRange, CopyToTemp, MarkTemp, RemoveFinal, MoveMarker, MovePart,
         DropTemp, ListOld, RemoveOld, Call, CallFails, Sweep, MergeSteps, history
    <2>2. Merge(w) /\ c # job[w].code /\ c \in merged[w]
      BY <1>1, <1>6, <2>1 DEF Once, CallsOf, Merge
    <2> QED
      BY <1>2, <2>2
  <1>7. CASE MergeDone(w)
    <2>1. /\ pc[w] = "RemoveOld" /\ job[w].old = {} /\ UNCHANGED <<data, temp>>
          /\ merged'[w] = merged[w] \cup {job[w].code}
      BY <1>1, <1>7 DEF MergeDone, bucket
    <2>2. CASE c \in merged[w]
      BY <1>1, <2>1, <2>2, SameFolders DEF MergedInv
    <2>3. CASE c = job[w].code
      <3>1. /\ job[w].span \in Spans /\ c \in Codes
        BY <2>1, <2>3, JobTypes DEF MergedInv, Inv, LocalInv, TypeInv, SpanIsRead, Moved
      <3>2. /\ Sources(c) \subseteq {job[w].span} /\ Final(w).rows # {} /\ Final(w).marked
            /\ Temp(w) = Absent
        BY <2>1, <2>3 DEF MergedInv, MergeIsWhole
      <3>3. Sources(c) = {job[w].span}
        BY <2>3, <3>1, <3>2 DEF Sources, Final
      <3>4. Single(c)
        BY <2>3, <3>1, <3>2, <3>3 DEF Single, Final, Temp
      <3> QED
        BY <2>1, <3>1, <3>4, SameFolders
    <2> QED
      BY <2>1, <2>2, <2>3
  <1> QED
    BY <1>3, <1>4, <1>5, <1>6, <1>7 DEF Step, Write, Merge, Batch, CallsOf

LEMMA MergedInvHolds == Exclusive => (Spec => []MergedInv)
  <1>1. Init => MergedInv
    <2>1. Init => Inv
      BY InitLocal, InitCode DEF Inv
    <2> QED
      BY <2>1 DEF Init, MergedInv, MergeIsWhole, Once, MergeSteps
  <1>2. Exclusive /\ MergedInv /\ [Next]_vars => MergedInv'
    <2> SUFFICES ASSUME Exclusive, MergedInv, [Next]_vars PROVE MergedInv'
      OBVIOUS
    <2>1. Inv'
      BY NextInv DEF MergedInv
    <2>2. ASSUME UNCHANGED <<data, temp, pc, frame, todo, job, merged>>
          PROVE  MergedInv'
      <3> SUFFICES ASSUME NEW w \in Workers
                   PROVE  MergeIsWhole(w)' /\ Once(w)' /\ \A c \in merged'[w] : Single(c)'
        BY <2>1 DEF MergedInv
      <3>1. MergeIsWhole(w)'
        BY <2>2 DEF MergedInv, MergeIsWhole, Sources, Final, Temp
      <3>2. Once(w)'
        BY <2>2 DEF MergedInv, Once, Held
      <3>3. \A c \in merged'[w] : Single(c)'
        BY <2>2 DEF MergedInv, Single, Sources
      <3> QED
        BY <3>1, <3>2, <3>3
    <2>3. CASE UNCHANGED vars
      BY <2>2, <2>3 DEF vars, bucket, history
    <2>4. ASSUME NEW c \in Codes, NEW d \in Days, Download(c, d)
          PROVE  MergedInv'
      BY <2>2, <2>4 DEF Download, bucket, history
    <2>5. ASSUME NEW w \in Workers, Step(w)
          PROVE  MergedInv'
      BY <2>1, <2>5, OthersMerged, OnceStep, WholeStep, SingleStep DEF MergedInv
    <2> QED
      BY <2>3, <2>4, <2>5 DEF Next, Step
  <1>3. ASSUME Exclusive
        PROVE  Spec => []MergedInv
    <2>1. MergedInv /\ [Next]_vars => MergedInv'
      BY <1>2, <1>3
    <2> QED
      BY <1>1, <2>1, PTL DEF Spec
  <1> QED
    BY <1>3

\* A merge that ended normally left one folder of its code, marked, and no
\* temporary copy, and until the task is over nobody undoes it.
THEOREM MergesEndInOneFolder == Exclusive => (Spec => []MergedIntoOne)
  <1>1. MergedInv => MergedIntoOne
    BY DEF MergedInv, MergedIntoOne, Single
  <1> QED
    BY <1>1, MergedInvHolds, PTL
=============================================================================
