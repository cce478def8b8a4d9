-------------------------- MODULE StoreUpkeepProofs --------------------------
(***************************************************************************)
(* The maintenance of the bucket beside the tasks, proved for every number *)
(* of workers, codes, days and passes, whatever fails, and without the     *)
(* condition that two tasks keep off one code: it is enough that it did    *)
(* not happen to the code in question.  The invariant of the tasks is the  *)
(* one of PriceStoreProofs, taken code by code.                            *)
(***************************************************************************)
EXTENDS StoreUpkeep, PriceStoreProofs

-----------------------------------------------------------------------------
(***************************************************************************)
(* The inductive invariant                                                 *)
(***************************************************************************)
UpkeepTypes ==
    /\ spare \in [Files -> [Suffixes -> SUBSET Days]]
    /\ files \subseteq Files
    /\ at # "Idle" => kind \in Suffixes
    /\ at \in {"Copy", "Remove", "Replace", "Discard"} => file \in Files

\* The history knows of every overlap.
OverlapsKnown == Contended \subseteq contended

\* The copy of a part is what it was made from, as long as it is to take its
\* place.
CopyIsPart == at = "Remove" /\ file[2] \notin contended => spare[file][kind] = Part(file)

\* While a part is nowhere its copy has rows of the table, and those that the
\* folder's name speaks of.
SwapIsWhole ==
    at = "Replace" /\ file[2] \notin contended =>
        /\ Part(file) = {}
        /\ file[1] = "data" =>
              /\ spare[file][kind] \subseteq table[file[2]]
              /\ spare[file][kind] # {} => SpanOf(spare[file][kind]) = file[3]

\* A row that is only in the copy.
InHand(c, d) ==
    at = "Replace" /\ file[1] = "data" /\ file[2] = c /\ d \in spare[file][kind]

SafeRows(c) == c \notin torn => \A d \in saved[c] : Findable(c, d) \/ InHand(c, d)

UpkeepInv ==
    /\ LocalInv /\ UpkeepTypes /\ OverlapsKnown /\ CopyIsPart /\ SwapIsWhole
    /\ \A c \in Codes \ contended : CodeInv(c) /\ SafeRows(c)

\* The parts an object can be are in a folder of a code.
LEMMA FileParts ==
    ASSUME NEW f \in Files
    PROVE  /\ f[1] \in {"data", "temp"} /\ f[2] \in Codes /\ f[3] \in Spans
           /\ <<"temp", f[2], f[3]>> \in Files
           /\ f = <<f[1], f[2], f[3]>>
  BY DEF Files

LEMMA PartType == ASSUME TypeOK, NEW f \in Files PROVE Part(f) \in SUBSET Days
  <1>1. PICK k, u : k = f[2] /\ u = f[3]
    OBVIOUS
  <1>2. k \in Codes /\ u \in Spans
    BY <1>1, FileParts
  <1>3. data \in [Codes -> [Spans -> Folder]] /\ temp \in [Codes -> [Spans -> Folder]]
    BY DEF TypeOK
  <1>4. data[k][u] \in Folder /\ temp[k][u] \in Folder
    BY <1>2, <1>3
  <1>5. data[k][u].rows \in SUBSET Days /\ temp[k][u].rows \in SUBSET Days
    BY <1>4 DEF Folder
  <1> QED
    BY <1>1, <1>5 DEF Part

\* Nobody is at work on a code that the maintenance rewrites, unless the
\* history has it.
LEMMA NobodyHolds ==
    ASSUME OverlapsKnown, at \in {"Remove", "Replace"}, file[2] \in Codes,
           file[2] \notin contended, NEW w \in Workers
    PROVE  file[2] \notin Held(w)
  BY DEF OverlapsKnown, Contended, Held

\* And otherwise one task is.
LEMMA AloneIfNotContended ==
    ASSUME OverlapsKnown', NEW c \in Codes, c \notin contended'
    PROVE  Alone(c)'
  BY DEF OverlapsKnown, Contended, Alone, Held

LEMMA WatchKeeps == Watch => OverlapsKnown' /\ contended \subseteq contended'
  BY DEF Watch, OverlapsKnown

-----------------------------------------------------------------------------
(***************************************************************************)
(* The tasks' steps                                                        *)
(***************************************************************************)
\* A task takes away and brings spare objects of the code it holds only.
LEMMA SpareStays ==
    ASSUME LocalInv, UpkeepTypes, SparesFollow, NEW f \in Files,
           \A w \in Workers : f[2] \notin Held(w)
    PROVE  spare'[f] = spare[f]
  <1>1. \A w \in Workers : pc[w] \in AtWork => job[w].code # f[2]
    BY DEF LocalInv, AtItsCode
  <1>2. ~ Removed(f)
    BY <1>1 DEF Removed, AtWork, MergeSteps
  <1>3. ~ Arriving(f)
    BY <1>1 DEF Arriving, AtWork, MergeSteps
  <1>4. spare'[f] = [k \in Suffixes |-> spare[f][k]]
    BY <1>2, <1>3 DEF SparesFollow
  <1> QED
    BY <1>4 DEF UpkeepTypes

LEMMA SpareTypes ==
    ASSUME UpkeepTypes, SparesFollow
    PROVE  spare' \in [Files -> [Suffixes -> SUBSET Days]]
  <1>1. ASSUME NEW f \in Files
        PROVE  spare'[f] \in [Suffixes -> SUBSET Days]
    <2>1. /\ spare[f] \in [Suffixes -> SUBSET Days]
          /\ spare[<<"temp", f[2], f[3]>>] \in [Suffixes -> SUBSET Days]
      BY FileParts DEF UpkeepTypes
    <2>2. \/ spare'[f] = [k \in Suffixes |-> {}]
          \/ spare'[f] = [k \in Suffixes |->
                             IF Arriving(f) /\ spare[<<"temp", f[2], f[3]>>][k] # {}
                             THEN spare[<<"temp", f[2], f[3]>>][k]
                             ELSE spare[f][k]]
      BY DEF SparesFollow
    <2> QED
      BY <2>1, <2>2
  <1> QED
    BY <1>1 DEF SparesFollow

LEMMA DownloadUpkeep ==
    ASSUME UpkeepInv, NEW k \in Codes, NEW e \in Days, Download(k, e), SparesFollow,
           UNCHANGED upkeep, Watch
    PROVE  UpkeepInv'
  <1> USE DEF UpkeepInv, upkeep
  <1>1. /\ UNCHANGED <<data, temp, pc, frame, todo, job, saved, torn>>
        /\ \A c \in Codes : table[c] \subseteq table'[c]
    BY DEF Download, bucket, history, LocalInv, TypeInv, TypeOK
  <1>2. LocalInv'
    <2>1. TypeInv'
      BY NextType DEF Next, LocalInv
    <2> QED
      BY <1>1, <2>1, SameLocal
  <1>3. UpkeepTypes'
    BY SpareTypes DEF UpkeepTypes
  <1>4. OverlapsKnown' /\ contended \subseteq contended'
    BY WatchKeeps
  <1>5. ASSUME at \in {"Remove", "Replace"}, file[2] \notin contended
        PROVE  spare'[file] = spare[file] /\ Part(file)' = Part(file) /\ file[2] \in Codes
    <2>1. file \in Files /\ file[2] \in Codes
      BY <1>5, FileParts DEF UpkeepTypes
    <2> QED
      BY <1>1, <1>5, <2>1, NobodyHolds, SpareStays DEF Part
  <1>6. CopyIsPart'
    BY <1>4, <1>5 DEF CopyIsPart
  <1>7. SwapIsWhole'
    BY <1>1, <1>4, <1>5 DEF SwapIsWhole, SpanOf
  <1>8. ASSUME NEW c \in Codes, c \notin contended'
        PROVE  CodeInv(c)' /\ SafeRows(c)'
    <2>1. CodeInv(c) /\ SafeRows(c)
      BY <1>4, <1>8
    <2>2. CodeInv(c)'
      BY <1>1, <2>1, TableCode
    <2>3. ASSUME NEW d, InHand(c, d)
          PROVE  InHand(c, d)'
      BY <1>4, <1>5, <1>8, <2>3 DEF InHand
    <2> QED
      BY <1>1, <2>1, <2>2, <2>3, SameFindable DEF SafeRows
  <1> QED
    BY <1>2, <1>3, <1>4, <1>6, <1>7, <1>8

LEMMA TaskUpkeep ==
    ASSUME UpkeepInv, NEW w \in Workers, Step(w), SparesFollow, UNCHANGED upkeep, Watch
    PROVE  UpkeepInv'
  <1> USE DEF UpkeepInv, upkeep
  <1>1. LocalInv'
    BY StepLocal
  <1>2. UpkeepTypes'
    BY SpareTypes DEF UpkeepTypes
  <1>3. OverlapsKnown' /\ contended \subseteq contended'
    BY WatchKeeps
  <1>4. table' = table
    BY OthersUnmoved DEF LocalInv, TypeInv
  <1>5. ASSUME at \in {"Remove", "Replace"}, file[2] \notin contended
        PROVE  spare'[file] = spare[file] /\ Part(file)' = Part(file)
    <2>1. file \in Files /\ file[2] \in Codes
      BY <1>5, FileParts DEF UpkeepTypes
    <2>2. \A v \in Workers : file[2] \notin Held(v)
      BY <1>5, <2>1, NobodyHolds
    <2>3. data'[file[2]] = data[file[2]] /\ temp'[file[2]] = temp[file[2]]
      BY <2>1, <2>2, OnlyHeld
    <2> QED
      BY <2>1, <2>2, <2>3, SpareStays DEF Part
  <1>6. CopyIsPart'
    BY <1>3, <1>5 DEF CopyIsPart
  <1>7. SwapIsWhole'
    BY <1>3, <1>4, <1>5 DEF SwapIsWhole, SpanOf
  <1>8. ASSUME NEW c \in Codes, c \notin contended'
        PROVE  CodeInv(c)' /\ SafeRows(c)'
    <2>1. CodeInv(c) /\ SafeRows(c)
      BY <1>3, <1>8
    <2>2. CodeInv(c)'
      BY <1>3, <1>8, <2>1, AloneIfNotContended, StepCode
    <2>3. torn \subseteq torn'
      BY TornGrows
    <2>4. ASSUME NEW d, InHand(c, d)
          PROVE  InHand(c, d)'
      BY <1>3, <1>5, <1>8, <2>4 DEF InHand
    <2>5. SafeRows(c)'
      BY <2>1, <2>3, <2>4, StepFinds, StepSaves DEF SafeRows
    <2> QED
      BY <2>2, <2>5
  <1> QED
    BY <1>1, <1>2, <1>3, <1>6, <1>7, <1>8

-----------------------------------------------------------------------------
(***************************************************************************)
(* The steps of the maintenance                                            *)
(***************************************************************************)
\* Those that move no rows.
LEMMA IdleUpkeep ==
    ASSUME UpkeepInv, Quiet, UNCHANGED bucket, TypeOK', UpkeepTypes', CopyIsPart',
           at' # "Replace", torn \subseteq torn',
           at = "Replace" => file[2] \in torn'
    PROVE  UpkeepInv'
  <1> USE DEF UpkeepInv, Quiet, bucket
  <1>1. LocalInv'
    <2>1. TypeInv'
      BY DEF LocalInv, TypeInv, SpanIsRead, Held
    <2> QED
      BY <2>1, SameLocal
  <1>2. OverlapsKnown' /\ contended \subseteq contended'
    BY WatchKeeps
  <1>3. SwapIsWhole'
    BY DEF SwapIsWhole
  <1>4. ASSUME NEW c \in Codes, c \notin contended'
        PROVE  CodeInv(c)' /\ SafeRows(c)'
    <2>1. CodeInv(c) /\ SafeRows(c)
      BY <1>2, <1>4
    <2>2. CodeInv(c)'
      BY <2>1, TableCode
    <2>3. SafeRows(c)'
      BY <2>1, SameFindable DEF SafeRows, InHand
    <2> QED
      BY <2>2, <2>3
  <1> QED
    BY <1>1, <1>2, <1>3, <1>4

\* What becomes of a folder's part.
LEMMA PartSet ==
    ASSUME TypeOK, NEW f \in Files, NEW R \in SUBSET Days, SetPart(f, R)
    PROVE  /\ data' \in [Codes -> [Spans -> Folder]] /\ temp' \in [Codes -> [Spans -> Folder]]
           /\ Part(f)' = R
           /\ f[1] = "temp" => data' = data
           /\ \A s \in Spans : data'[f[2]][s].rows =
                 IF f[1] = "data" /\ s = f[3] THEN R ELSE data[f[2]][s].rows
           /\ \A c \in Codes \ {f[2]} : data'[c] = data[c] /\ temp'[c] = temp[c]
  <1>1. PICK k, u : k = f[2] /\ u = f[3]
    OBVIOUS
  <1>2. f[1] \in {"data", "temp"} /\ k \in Codes /\ u \in Spans
    BY <1>1, FileParts
  <1>3. data \in [Codes -> [Spans -> Folder]] /\ temp \in [Codes -> [Spans -> Folder]]
    BY DEF TypeOK
  <1>4. ASSUME NEW g \in [Codes -> [Spans -> Folder]]
        PROVE  /\ [g EXCEPT ![k][u].rows = R] \in [Codes -> [Spans -> Folder]]
               /\ \A s \in Spans : [g EXCEPT ![k][u].rows = R][k][s].rows =
                                       IF s = u THEN R ELSE g[k][s].rows
               /\ \A c \in Codes \ {k} : [g EXCEPT ![k][u].rows = R][c] = g[c]
    <2> DEFINE x == [g[k][u] EXCEPT !.rows = R]
    <2>1. x \in Folder /\ x.rows = R
      <3>1. g[k][u] \in Folder
        BY <1>2
      <3> QED
        BY <3>1, FolderFields
    <2>2. [g EXCEPT ![k][u].rows = R] = [g EXCEPT ![k][u] = x]
      BY <1>2
    <2> HIDE DEF x
    <2>3. \A c \in Codes \ {k} : [g EXCEPT ![k][u] = x][c] = g[c]
      BY <1>2
    <2>4. /\ [g EXCEPT ![k][u] = x] \in [Codes -> [Spans -> Folder]]
          /\ \A s \in Spans : [g EXCEPT ![k][u] = x][k][s] = IF s = u THEN x ELSE g[k][s]
      BY <1>2, <2>1, PutFolder
    <2> QED
      BY <2>1, <2>2, <2>3, <2>4
  <1>5. CASE f[1] = "data"
    <2>1. data' = [data EXCEPT ![k][u].rows = R] /\ temp' = temp
      BY <1>1, <1>5 DEF SetPart
    <2>2. data' \in [Codes -> [Spans -> Folder]]
      BY <1>3, <1>4, <2>1
    <2>3. \A s \in Spans : data'[k][s].rows = IF s = u THEN R ELSE data[k][s].rows
      BY <1>3, <1>4, <2>1
    <2>4. \A c \in Codes \ {k} : data'[c] = data[c]
      BY <1>3, <1>4, <2>1
    <2>5. Part(f)' = data'[k][u].rows
      BY <1>1, <1>5 DEF Part
    <2>6. Part(f)' = R
      BY <1>2, <2>3, <2>5
    <2>7. \A s \in Spans : data'[k][s].rows =
             IF f[1] = "data" /\ s = u THEN R ELSE data[k][s].rows
      BY <1>5, <2>1, <2>3
    <2>8. \A c \in Codes \ {k} : data'[c] = data[c] /\ temp'[c] = temp[c]
      BY <2>1, <2>4
    <2>9. f[1] = "temp" => data' = data
      BY <1>5, <2>1
    <2> QED
      BY <1>1, <1>3, <2>1, <2>2, <2>6, <2>7, <2>8, <2>9
  <1>6. CASE f[1] = "temp"
    <2>1. temp' = [temp EXCEPT ![k][u].rows = R] /\ data' = data
      BY <1>1, <1>6 DEF SetPart
    <2>2. temp' \in [Codes -> [Spans -> Folder]]
      BY <1>3, <1>4, <2>1
    <2>3. \A s \in Spans : temp'[k][s].rows = IF s = u THEN R ELSE temp[k][s].rows
      BY <1>3, <1>4, <2>1
    <2>4. \A c \in Codes \ {k} : temp'[c] = temp[c]
      BY <1>3, <1>4, <2>1
    <2>5. Part(f)' = temp'[k][u].rows
      BY <1>1, <1>6 DEF Part
    <2>6. Part(f)' = R
      BY <1>2, <2>3, <2>5
    <2>7. \A s \in Spans : data'[k][s].rows =
             IF f[1] = "data" /\ s = u THEN R ELSE data[k][s].rows
      BY <1>6, <2>1
    <2>8. \A c \in Codes \ {k} : data'[c] = data[c] /\ temp'[c] = temp[c]
      BY <2>1, <2>4
    <2>9. f[1] = "temp" => data' = data
      BY <1>6, <2>1
    <2> QED
      BY <1>1, <1>3, <2>1, <2>2, <2>6, <2>7, <2>8, <2>9
  <1> QED
    BY <1>2, <1>5, <1>6

\* What a removal and a replacement have in common: the code is nobody's, and
\* the part keeps rows of the table and of its name.
LEMMA SwapCode ==
    ASSUME UpkeepInv, at \in {"Remove", "Replace"}, NEW R \in SUBSET Days,
           SetPart(file, R), Quiet, NEW c \in Codes, c \notin contended',
           file[2] = c /\ file[1] = "data" => /\ R \subseteq table[c]
                                              /\ R # {} => SpanOf(R) = file[3]
    PROVE  CodeInv(c)'
  <1> USE DEF UpkeepInv, Quiet
  <1>1. OverlapsKnown' /\ contended \subseteq contended'
    BY WatchKeeps
  <1>2. CodeInv(c) /\ Alone(c)'
    BY <1>1, AloneIfNotContended
  <1>3. file \in Files /\ TypeOK /\ file[2] \in Codes
    BY FileParts DEF UpkeepTypes, LocalInv, TypeInv
  <1>4. CASE file[2] # c
    BY <1>2, <1>3, <1>4, PartSet, TableCode
  <1>5. CASE file[2] = c
    <2>1. \A s \in Spans : data'[c][s].rows =
              IF file[1] = "data" /\ s = file[3] THEN R ELSE data[c][s].rows
      BY <1>3, <1>5, PartSet
    <2>2. FromTable(c)'
      BY <1>2, <1>5, <2>1 DEF CodeInv, FromTable
    <2>3. NamedRight(c)'
      <3> SUFFICES ASSUME NEW s \in Spans, data'[c][s].rows # {}
                   PROVE  SpanOf(data'[c][s].rows) = s
        BY DEF NamedRight, Sources, SpanOf
      <3> QED
        BY <1>2, <1>5, <2>1 DEF CodeInv, NamedRight, Sources
    <2>4. ASSUME NEW w \in Workers
          PROVE  Progress(w, c)'
      <3>1. c \notin Held(w)
        BY <1>1, <1>3, <1>5, NobodyHolds
      <3>2. c \notin Held(w)' /\ AtItsCode(w)'
        BY <3>1 DEF Held, LocalInv, AtItsCode
      <3> QED
        BY <3>2, FreeProgress
    <2> QED
      BY <1>2, <2>2, <2>3, <2>4 DEF CodeInv
  <1> QED
    BY <1>4, <1>5

\* A code that nobody holds is read from its folders.
LEMMA FindableIfFree ==
    ASSUME LocalInv, NEW c \in Codes, \A w \in Workers : c \notin Held(w),
           NEW d, Findable(c, d)
    PROVE  d \in SourceRows(c)
  BY DEF Findable, Found, Swapping, LocalInv, AtItsCode, AtWork, MergeSteps

LEMMA SwapTypes ==
    ASSUME UpkeepInv, at \in {"Remove", "Replace"}, NEW R \in SUBSET Days,
           SetPart(file, R), Quiet, UNCHANGED torn
    PROVE  LocalInv'
  <1> USE DEF UpkeepInv, Quiet
  <1>1. file \in Files /\ TypeOK
    BY DEF UpkeepTypes, LocalInv, TypeInv
  <1>2. TypeOK'
    BY <1>1, PartSet DEF TypeOK
  <1>3. TypeInv'
    BY <1>2 DEF LocalInv, TypeInv, SpanIsRead, Held
  <1> QED
    BY <1>3, SameLocal

LEMMA RemovePartUpkeep ==
    ASSUME UpkeepInv, RemovePart
    PROVE  UpkeepInv'
  <1> USE DEF UpkeepInv
  <1>1. /\ at = "Remove" /\ at' = "Replace" /\ SetPart(file, {}) /\ Quiet
        /\ UNCHANGED <<torn, kind, files, file, spare, passes>>
        /\ UNCHANGED <<table, pc, frame, job, saved>>
    BY DEF RemovePart, Quiet
  <1>2. file \in Files /\ file[2] \in Codes /\ TypeOK /\ kind \in Suffixes
        /\ file[1] \in {"data", "temp"} /\ file[3] \in Spans
    BY <1>1, FileParts DEF UpkeepTypes, LocalInv, TypeInv
  <1>3. LocalInv'
    BY <1>1, SwapTypes
  <1>4. UpkeepTypes'
    BY <1>1 DEF UpkeepTypes
  <1>5. OverlapsKnown' /\ contended \subseteq contended'
    BY <1>1, WatchKeeps DEF Quiet
  <1>6. CopyIsPart'
    BY <1>1 DEF CopyIsPart
  <1>7. SwapIsWhole'
    <2> SUFFICES ASSUME file[2] \notin contended
                 PROVE  /\ Part(file)' = {}
                        /\ file[1] = "data" =>
                              /\ spare[file][kind] \subseteq table[file[2]]
                              /\ spare[file][kind] # {} => SpanOf(spare[file][kind]) = file[3]
      BY <1>1, <1>5 DEF SwapIsWhole, SpanOf
    <2>1. Part(file)' = {}
      BY <1>1, <1>2, PartSet
    <2>2. spare[file][kind] = Part(file)
      BY <1>1 DEF CopyIsPart
    <2>3. CodeInv(file[2])
      BY <1>2
    <2>4. ASSUME file[1] = "data"
          PROVE  /\ Part(file) \subseteq table[file[2]]
                 /\ Part(file) # {} => SpanOf(Part(file)) = file[3]
      BY <1>2, <2>3, <2>4 DEF Part, CodeInv, FromTable, NamedRight, Sources
    <2> QED
      BY <2>1, <2>2, <2>4
  <1>8. ASSUME NEW c \in Codes, c \notin contended'
        PROVE  CodeInv(c)' /\ SafeRows(c)'
    <2>1. CodeInv(c) /\ SafeRows(c)
      BY <1>5, <1>8
    <2>2. CodeInv(c)'
      BY <1>1, <1>8, SwapCode
    <2>3. SafeRows(c)'
      <3> SUFFICES ASSUME c \notin torn, NEW d \in saved[c]
                   PROVE  Findable(c, d)' \/ InHand(c, d)'
        BY <1>1 DEF SafeRows
      <3>1. Findable(c, d)
        BY <1>1, <2>1 DEF SafeRows, InHand
      <3>2. CASE file[2] # c
        BY <1>1, <1>2, <3>1, <3>2, PartSet, SameFindable
      <3>3. CASE file[2] = c
        <4>1. \A w \in Workers : c \notin Held(w)
          BY <1>1, <1>2, <1>5, <1>8, <3>3, NobodyHolds
        <4>2. PICK s \in Spans : d \in data[c][s].rows
          BY <3>1, <4>1, FindableIfFree, InSources
        <4>3. data'[c][s].rows = IF file[1] = "data" /\ s = file[3] THEN {} ELSE data[c][s].rows
          BY <1>1, <1>2, <3>3, PartSet
        <4>4. CASE file[1] = "data" /\ s = file[3]
          <5>1. spare[file][kind] = data[c][s].rows
            BY <1>1, <1>5, <1>8, <3>3, <4>4 DEF CopyIsPart, Part
          <5> QED
            BY <1>1, <3>3, <4>2, <4>4, <5>1 DEF InHand
        <4>5. CASE ~ (file[1] = "data" /\ s = file[3])
          BY <4>2, <4>3, <4>5, InSourcesNext DEF Findable
        <4> QED
          BY <4>4, <4>5
      <3> QED
        BY <3>2, <3>3
    <2> QED
      BY <2>2, <2>3
  <1> QED
    BY <1>3, <1>4, <1>5, <1>6, <1>7, <1>8

LEMMA ReplacePartUpkeep ==
    ASSUME UpkeepInv, ReplacePart
    PROVE  UpkeepInv'
  <1> USE DEF UpkeepInv
  <1>1. PICK R : R = spare[file][kind]
    OBVIOUS
  <1>2. /\ at = "Replace" /\ at' = "Discard" /\ SetPart(file, R) /\ Quiet
        /\ UNCHANGED <<torn, kind, files, file, spare, passes>>
        /\ UNCHANGED <<table, pc, frame, job, saved>>
    BY <1>1 DEF ReplacePart, Quiet
  <1>3. file \in Files /\ file[2] \in Codes /\ TypeOK /\ R \in SUBSET Days
        /\ file[1] \in {"data", "temp"} /\ file[3] \in Spans
    BY <1>1, <1>2, FileParts DEF UpkeepTypes, LocalInv, TypeInv
  <1>4. LocalInv'
    BY <1>2, <1>3, SwapTypes
  <1>5. UpkeepTypes'
    BY <1>2 DEF UpkeepTypes
  <1>6. OverlapsKnown' /\ contended \subseteq contended'
    BY <1>2, WatchKeeps DEF Quiet
  <1>7. CopyIsPart' /\ SwapIsWhole'
    BY <1>2 DEF CopyIsPart, SwapIsWhole
  <1>8. ASSUME NEW c \in Codes, c \notin contended'
        PROVE  CodeInv(c)' /\ SafeRows(c)'
    <2>1. CodeInv(c) /\ SafeRows(c)
      BY <1>6, <1>8
    <2>2. CodeInv(c)'
      <3>1. file[2] = c /\ file[1] = "data" => /\ R \subseteq table[c]
                                               /\ R # {} => SpanOf(R) = file[3]
        BY <1>1, <1>2, <1>6, <1>8 DEF SwapIsWhole
      <3> QED
        BY <1>2, <1>3, <1>8, <3>1, SwapCode
    <2>3. SafeRows(c)'
      <3> SUFFICES ASSUME c \notin torn, NEW d \in saved[c]
                   PROVE  Findable(c, d)'
        BY <1>2 DEF SafeRows
      <3>1. Findable(c, d) \/ InHand(c, d)
        BY <2>1 DEF SafeRows
      <3>2. CASE file[2] # c
        <4>1. Findable(c, d)
          BY <3>1, <3>2 DEF InHand
        <4> QED
          BY <1>2, <1>3, <3>2, <4>1, PartSet, SameFindable
      <3>3. CASE file[2] = c
        <4>1. \A w \in Workers : c \notin Held(w)
          BY <1>2, <1>3, <1>6, <1>8, <3>3, NobodyHolds
        <4>2. \A s \in Spans : data'[c][s].rows =
                  IF file[1] = "data" /\ s = file[3] THEN R ELSE data[c][s].rows
          BY <1>2, <1>3, <3>3, PartSet
        <4>3. file[1] = "data" => data[c][file[3]].rows = {}
          BY <1>2, <1>6, <1>8, <3>3 DEF SwapIsWhole, Part
        <4>4. CASE Findable(c, d)
          <5>1. PICK s \in Spans : d \in data[c][s].rows
            BY <4>1, <4>4, FindableIfFree, InSources
          <5>2. d \in data'[c][s].rows
            BY <4>2, <4>3, <5>1
          <5> QED
            BY <5>2, InSourcesNext DEF Findable
        <4>5. CASE InHand(c, d)
          <5>1. d \in data'[c][file[3]].rows
            BY <1>1, <1>3, <4>2, <4>5 DEF InHand
          <5> QED
            BY <1>3, <5>1, InSourcesNext DEF Findable
        <4> QED
          BY <3>1, <4>4, <4>5
      <3> QED
        BY <3>2, <3>3
    <2> QED
      BY <2>2, <2>3
  <1> QED
    BY <1>4, <1>5, <1>6, <1>7, <1>8

LEMMA MaintainUpkeep ==
    ASSUME UpkeepInv, Maintain
    PROVE  UpkeepInv'
  <1> USE DEF UpkeepInv
  <1>1. TypeOK
    BY DEF LocalInv, TypeInv
  <1>2. ASSUME Quiet, UNCHANGED bucket, torn' \in SUBSET Codes
        PROVE  TypeOK'
    BY <1>1, <1>2 DEF Quiet, bucket, TypeOK
  <1>3. CASE Glob \/ EndPass \/ \E f \in Files : Skip(f) \/ ReadSchema(f)
    <2>1. /\ Quiet /\ UNCHANGED bucket /\ UNCHANGED torn /\ at' \in {"Idle", "Look", "Copy"}
          /\ at # "Replace"
      BY <1>3 DEF Glob, EndPass, Skip, ReadSchema
    <2>2. UpkeepTypes'
      BY <1>3 DEF Glob, EndPass, Skip, ReadSchema, UpkeepTypes
    <2>3. TypeOK' /\ CopyIsPart'
      BY <1>1, <1>2, <2>1 DEF TypeOK, CopyIsPart
    <2> QED
      BY <2>1, <2>2, <2>3, IdleUpkeep
  <1>4. CASE CopyColumns
    <2>1. /\ Quiet /\ UNCHANGED bucket /\ UNCHANGED torn /\ at = "Copy" /\ at' = "Remove"
          /\ UNCHANGED <<kind, files, file>>
          /\ spare' = [spare EXCEPT ![file][kind] = Part(file)]
      BY <1>4 DEF CopyColumns
    <2>2. file \in Files /\ kind \in Suffixes /\ Part(file) \in SUBSET Days
      BY <1>1, <2>1, PartType DEF UpkeepTypes
    <2>3. spare' \in [Files -> [Suffixes -> SUBSET Days]] /\ spare'[file][kind] = Part(file)
      BY <2>1, <2>2 DEF UpkeepTypes
    <2>4. UpkeepTypes'
      BY <2>1, <2>3 DEF UpkeepTypes
    <2>5. CopyIsPart'
      BY <2>1, <2>3 DEF CopyIsPart, Part, bucket
    <2>6. TypeOK'
      BY <1>1, <1>2, <2>1 DEF TypeOK
    <2> QED
      BY <2>1, <2>4, <2>5, <2>6, IdleUpkeep
  <1>5. CASE DiscardSpare
    <2>1. /\ Quiet /\ UNCHANGED bucket /\ UNCHANGED torn /\ at = "Discard" /\ at' = "Look"
          /\ UNCHANGED <<kind, files, file>>
          /\ spare' = [spare EXCEPT ![file][kind] = {}]
      BY <1>5 DEF DiscardSpare
    <2>2. file \in Files /\ kind \in Suffixes
      BY <2>1 DEF UpkeepTypes
    <2>3. spare' \in [Files -> [Suffixes -> SUBSET Days]]
      BY <2>1, <2>2 DEF UpkeepTypes
    <2>4. UpkeepTypes' /\ CopyIsPart'
      BY <2>1, <2>3 DEF UpkeepTypes, CopyIsPart
    <2>5. TypeOK'
      BY <1>1, <1>2, <2>1 DEF TypeOK
    <2> QED
      BY <2>1, <2>4, <2>5, IdleUpkeep
  <1>6. CASE SwallowError \/ Die
    <2>1. /\ Quiet /\ UNCHANGED bucket /\ Torn /\ at' \in {"Idle", "Look"} /\ at # "Idle"
          /\ UNCHANGED <<kind, file, spare>> /\ files' \subseteq files
      BY <1>6 DEF SwallowError, Die
    <2>2. UpkeepTypes' /\ CopyIsPart'
      BY <2>1 DEF UpkeepTypes, CopyIsPart
    <2>3. at = "Replace" => file[2] \in Codes
      BY FileParts DEF UpkeepTypes
    <2>4. torn' \in SUBSET Codes /\ torn \subseteq torn' /\ (at = "Replace" => file[2] \in torn')
      BY <1>1, <2>1, <2>3 DEF Torn, TypeOK
    <2>5. TypeOK'
      BY <1>2, <2>1, <2>4
    <2> QED
      BY <2>1, <2>2, <2>4, <2>5, IdleUpkeep
  <1> QED
    BY <1>3, <1>4, <1>5, <1>6, RemovePartUpkeep, ReplacePartUpkeep DEF Maintain

-----------------------------------------------------------------------------
(***************************************************************************)
(* The theorems                                                            *)
(***************************************************************************)
LEMMA InitUpkeep == UpkeepInit => UpkeepInv
  <1> SUFFICES ASSUME UpkeepInit PROVE UpkeepInv
    OBVIOUS
  <1>1. Init /\ at = "Idle" /\ contended = {}
    BY DEF UpkeepInit
  <1>2. LocalInv
    BY <1>1, InitLocal
  <1>3. UpkeepTypes
    BY DEF UpkeepInit, UpkeepTypes
  <1>4. OverlapsKnown
    BY <1>1 DEF OverlapsKnown, Contended, Init, NoRows
  <1>5. CopyIsPart /\ SwapIsWhole
    BY <1>1 DEF CopyIsPart, SwapIsWhole
  <1>6. ASSUME NEW c \in Codes
        PROVE  CodeInv(c) /\ SafeRows(c)
    BY <1>1, InitCode DEF SafeRows, RowsFound
  <1> QED
    BY <1>2, <1>3, <1>4, <1>5, <1>6 DEF UpkeepInv

LEMMA SameUpkeep == UpkeepInv /\ UNCHANGED upkeepVars => UpkeepInv'
  <1> SUFFICES ASSUME UpkeepInv, UNCHANGED upkeepVars PROVE UpkeepInv'
    OBVIOUS
  <1> USE DEF UpkeepInv, upkeepVars, upkeep
  <1>1. UNCHANGED vars
    OBVIOUS
  <1>2. UNCHANGED <<table, data, temp, pc, frame, todo, job, saved, torn>>
    BY <1>1 DEF vars, bucket, history
  <1>3. LocalInv'
    <2>1. TypeInv'
      BY <1>1, NextType DEF LocalInv
    <2> QED
      BY <1>2, <2>1, SameLocal
  <1>4. UpkeepTypes' /\ OverlapsKnown'
    BY <1>2 DEF UpkeepTypes, OverlapsKnown, Contended
  <1>5. CopyIsPart' /\ SwapIsWhole'
    BY <1>2 DEF CopyIsPart, SwapIsWhole, Part, SpanOf
  <1>6. ASSUME NEW c \in Codes, c \notin contended'
        PROVE  CodeInv(c)' /\ SafeRows(c)'
    <2>1. CodeInv(c) /\ SafeRows(c)
      BY <1>6
    <2>2. CodeInv(c)'
      BY <1>2, <2>1, TableCode
    <2>3. SafeRows(c)'
      BY <1>2, <2>1, SameFindable DEF SafeRows, InHand
    <2> QED
      BY <2>2, <2>3
  <1> QED
    BY <1>3, <1>4, <1>5, <1>6

LEMMA NextUpkeep == UpkeepInv /\ [UpkeepNext]_upkeepVars => UpkeepInv'
  <1> SUFFICES ASSUME UpkeepInv, [UpkeepNext]_upkeepVars PROVE UpkeepInv'
    OBVIOUS
  <1>1. CASE UNCHANGED upkeepVars
    BY <1>1, SameUpkeep
  <1>2. CASE Maintain
    BY <1>2, MaintainUpkeep
  <1>3. CASE Work
    <2>1. Next /\ SparesFollow /\ UNCHANGED upkeep /\ Watch
      BY <1>3 DEF Work
    <2>2. ASSUME NEW c \in Codes, NEW d \in Days, Download(c, d)
          PROVE  UpkeepInv'
      BY <2>1, <2>2, DownloadUpkeep
    <2>3. ASSUME NEW w \in Workers, Step(w)
          PROVE  UpkeepInv'
      BY <2>1, <2>3, TaskUpkeep
    <2> QED
      BY <2>1, <2>2, <2>3 DEF Next, Step
  <1> QED
    BY <1>1, <1>2, <1>3 DEF UpkeepNext

LEMMA UpkeepInvHolds == UpkeepSpec => []UpkeepInv
  BY InitUpkeep, NextUpkeep, PTL DEF UpkeepSpec

\* Maintenance beside the tasks, with deaths anywhere (clean_invalid_columns,
\* rename_columns): a saved row leaves the readers' sight only if a swap was
\* interrupted, or if two actors were at work on its code at once.
THEOREM UpkeepKeepsRows == UpkeepSpec => []OnlyOverlapsLoseRows
  <1>1. UpkeepInv => OnlyOverlapsLoseRows
    <2> SUFFICES ASSUME UpkeepInv, NEW c \in Codes \ (torn \cup contended), NEW d \in saved[c]
                 PROVE  d \in Readable(c) \cup InTransit(c)
      BY DEF OnlyOverlapsLoseRows
    <2>1. Findable(c, d) \/ InHand(c, d)
      BY DEF UpkeepInv, SafeRows
    <2>2. CASE Findable(c, d)
      <3>1. \/ d \in SourceRows(c)
            \/ \E w \in Workers : Swapping(w) /\ job[w].code = c /\ d \in Temp(w).rows
        BY <2>2 DEF Findable, Found
      <3> QED
        BY <3>1 DEF Readable
    <2>3. CASE InHand(c, d)
      BY <2>3 DEF InHand, InTransit
    <2> QED
      BY <2>1, <2>2, <2>3
  <1> QED
    BY <1>1, UpkeepInvHolds, PTL

\* And a folder that is found without overlapping work has the rows its name
\* speaks of, whatever was rewritten, interrupted and left behind.
THEOREM UpkeepKeepsNames == UpkeepSpec => []OnlyOverlapsMislead
  <1>1. UpkeepInv => OnlyOverlapsMislead
    BY DEF UpkeepInv, CodeInv, NamedRight, OnlyOverlapsMislead
  <1> QED
    BY <1>1, UpkeepInvHolds, PTL
=============================================================================
