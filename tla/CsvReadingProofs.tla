-------------------------- MODULE CsvReadingProofs --------------------------
(***************************************************************************)
(* Proofs about CsvReading: for any files, samples, batches and number of  *)
(* repairs.                                                                *)
(***************************************************************************)
EXTENDS CsvReading, SequenceTheorems, FiniteSetTheorems, TLAPS

Line == Seq(Cell)
Row == [line : Nat, cells : Line]
Layout == {m \in [columns : Nat, header : BOOLEAN, typed : SUBSET Nat] : IsFiniteSet(m.typed)}
Phase == {"start", "reading", "repair", "success", "failure"}

\* A repair changes cells, never the number of lines.
CsvTypes ==
  /\ file \in Files
  /\ copies \in Seq(Seq(Line)) /\ \A i \in 1..Len(copies) : Len(copies[i]) = Len(file.lines)
  /\ meta \in Layout /\ rows \in Seq(Row)
  /\ sample \in Nat /\ next \in Nat /\ repairs \in Nat /\ repairs <= MaxRepairs + 1
  /\ strict \in BOOLEAN /\ phase \in Phase
  /\ phase = "start" => copies = <<>> /\ repairs = 0 /\ sample = InitialSample

\* The output holds what this attempt has read.
Underway == phase \in {"reading", "repair", "success"}
RowsSoFar ==
  Underway =>
    /\ next \in (file.preamble + 1)..(Len(file.lines) + 1)
    /\ Len(rows) = IF next = file.preamble + 1 THEN 0 ELSE next - FirstRow
    /\ \A i \in 1..Len(rows) : rows[i].line = FirstRow + i - 1
    /\ phase = "success" => next = Len(file.lines) + 1

StrictSoFar ==
  Underway /\ strict =>
    /\ copies = <<>> /\ repairs = 0 /\ meta \in Sniffed(sample, FALSE)
    /\ \A i \in 1..Len(rows) : Len(rows[i].cells) = meta.columns

CsvInv == CsvTypes /\ RowsSoFar /\ StrictSoFar

-----------------------------------------------------------------------------
(* What is read has the lines of the file, though not their cells.         *)
LEMMA CurrentHasTheLines ==
  ASSUME CsvTypes
  PROVE  /\ Current \in Seq(Line) /\ Len(Current) = Len(file.lines) /\ Len(Current) \in Nat
         /\ DOMAIN Current = 1..Len(Current) /\ \A l \in 1..Len(Current) : Current[l] \in Line
         /\ file.preamble \in Nat /\ file.preamble < Len(Current)
<1>1. file.lines \in Seq(Line) /\ file.preamble \in Nat /\ file.preamble < Len(file.lines)
  BY CsvAssumption DEF CsvTypes, Line
<1>2. Current \in Seq(Line) /\ Len(Current) = Len(file.lines)
  <2>1. CASE copies = <<>>
    BY <1>1, <2>1 DEF Current
  <2>2. CASE copies # <<>>
    <3>1. Len(copies) \in 1..Len(copies)
      BY <2>2, EmptySeq, LenProperties DEF CsvTypes
    <3>2. copies[Len(copies)] \in Seq(Line)
      BY <3>1, ElementOfSeq DEF CsvTypes
    <3> QED BY <2>2, <3>1, <3>2 DEF Current, CsvTypes
  <2> QED BY <2>1, <2>2
<1> QED BY <1>1, <1>2, LenProperties, ElementOfSeq

(* The sniffer's guess is a layout.                                        *)
LEMMA SniffedIsLayout ==
  ASSUME CsvTypes, NEW s \in Nat, NEW forced \in BOOLEAN, NEW m \in Sniffed(s, forced)
  PROVE  m \in Layout
<1>1. /\ Len(Current) \in Nat /\ file.preamble \in Nat
      /\ \A l \in 1..Len(Current) : Current[l] \in Line
  BY CurrentHasTheLines
<1>2. Sampled(s) \subseteq 1..Len(Current)
  BY <1>1 DEF Sampled, Least, All
<1>3. \A l \in Sampled(s) : Len(Current[l]) \in Nat
  BY <1>1, <1>2, LenProperties DEF Line
<1> DEFINE Widths == {Len(Current[l]) : l \in Sampled(s)}
           Headers == IF forced THEN {TRUE} ELSE BOOLEAN
<1>4. Sniffed(s, forced) = {Guess(s, c, hd) : c \in Widths, hd \in Headers}
  BY DEF Sniffed
<1>5. Widths \subseteq Nat
  BY <1>3
<1>6. Headers \subseteq BOOLEAN
  OBVIOUS
<1> HIDE DEF Widths, Headers
<1>7. PICK c \in Widths, hd \in Headers : m = Guess(s, c, hd)
  BY <1>4
<1>8. /\ c \in Nat /\ hd \in BOOLEAN /\ m.columns = c /\ m.header = hd
      /\ m.typed = Numeric(s, c, hd) /\ m.typed \in SUBSET (1..c)
  <2>1. c \in Nat /\ hd \in BOOLEAN
    BY <1>5, <1>6
  <2>2. Numeric(s, c, hd) \in SUBSET (1..c)
    BY DEF Numeric
  <2> QED BY <1>7, <2>1, <2>2 DEF Guess
<1>9. IsFiniteSet(m.typed)
  <2>1. 1 \in Int /\ c \in Int
    BY <1>8
  <2>2. IsFiniteSet(1..c)
    BY <2>1, FS_Interval
  <2> QED BY <1>8, <2>2, FS_Subset
<1>10. m \in [columns : Nat, header : BOOLEAN, typed : SUBSET Nat]
  <2>1. m.typed \in SUBSET Nat
    BY <1>8
  <2> QED BY <1>7, <1>8, <2>1 DEF Guess
<1> QED BY <1>9, <1>10 DEF Layout

(* A batch ends within the file, and reads at least one line if one is left*)
LEMMA BatchIsBounded ==
  ASSUME CsvTypes
  PROVE  /\ BatchEnd \in Int /\ BatchEnd <= Len(Current)
         /\ next <= Len(Current) => next <= BatchEnd
<1>1. Len(Current) \in Nat
  BY CurrentHasTheLines
<1>2. meta.columns \in Nat /\ next \in Nat
  BY DEF CsvTypes, Layout
<1>3. Most(1, meta.columns) \in Nat \ {0}
  BY <1>2 DEF Most
<1>4. MaxBatchCells \div Most(1, meta.columns) \in Nat
  BY <1>3, CsvAssumption
<1>5. BatchRows(meta.columns) \in Nat \ {0}
  BY <1>4, CsvAssumption DEF BatchRows, Least, Most
<1> QED BY <1>1, <1>2, <1>5 DEF BatchEnd, Least

-----------------------------------------------------------------------------
(* An attempt on a layout, with or without a new copy, starts over.        *)
LEMMA AttemptKeepsInv ==
  ASSUME CsvInv, NEW m, NEW s, NEW st, Attempt(m, s, st),
         m \in Layout, s \in Nat, st \in BOOLEAN,
         /\ copies' \in Seq(Seq(Line))
         /\ \A i \in 1..Len(copies') : Len(copies'[i]) = Len(file.lines),
         repairs' \in Nat, repairs' <= MaxRepairs + 1,
         st => /\ copies = <<>> /\ repairs = 0 /\ UNCHANGED <<copies, repairs>>
               /\ m \in Sniffed(s, FALSE)
  PROVE  CsvInv'
<1>1. /\ file' = file /\ meta' = m /\ sample' = s /\ strict' = st /\ rows' = <<>>
      /\ next' = file.preamble + 1 /\ phase' = "reading"
  BY DEF Attempt
<1>2. /\ file.preamble \in Nat /\ Len(file.lines) \in Nat /\ file.preamble < Len(file.lines)
      /\ Len(rows') = 0 /\ rows' \in Seq(Row)
  BY <1>1, CurrentHasTheLines, EmptySeq DEF CsvInv
<1>3. CsvTypes'
  BY <1>1, <1>2 DEF CsvInv, CsvTypes, Phase
<1>4. RowsSoFar'
  BY <1>1, <1>2 DEF RowsSoFar
<1>5. StrictSoFar'
  <2>1. ASSUME st PROVE meta' \in Sniffed(sample, FALSE)'
    <3>1. file' = file /\ copies' = copies
      BY <1>1, <2>1
    <3>2. Sniffed(sample, FALSE)' = Sniffed(s, FALSE)
      BY <1>1, <3>1 DEF Sniffed, Guess, Numeric, Sampled, Current
    <3> QED BY <1>1, <2>1, <3>2
  <2>2. ASSUME strict' PROVE /\ copies' = <<>> /\ repairs' = 0 /\ meta' \in Sniffed(sample, FALSE)'
                             /\ \A i \in 1..Len(rows') : Len(rows'[i].cells) = meta'.columns
    <3>1. st /\ meta' \in Sniffed(sample, FALSE)' /\ copies' = <<>> /\ repairs' = 0
      BY <1>1, <2>1, <2>2
    <3>2. \A i \in 1..Len(rows') : Len(rows'[i].cells) = meta'.columns
      BY <1>2
    <3> QED BY <3>1, <3>2
  <2> QED BY <2>2 DEF StrictSoFar
<1> QED BY <1>3, <1>4, <1>5 DEF CsvInv

(* A batch adds one row per line, but for the header.                      *)
LEMMA BatchKeepsInv == CsvInv /\ ReadBatch => CsvInv'
<1> SUFFICES ASSUME CsvInv, ReadBatch PROVE CsvInv'
  OBVIOUS
<1> CsvTypes
  BY DEF CsvInv
<1> DEFINE first == IF IsHeader(meta, next) THEN next + 1 ELSE next
           n == BatchEnd - first + 1
           more == [i \in 1..n |-> [line |-> first + i - 1, cells |-> Current[first + i - 1]]]
<1>1. /\ Len(Current) = Len(file.lines) /\ Len(Current) \in Nat
      /\ \A l \in 1..Len(Current) : Current[l] \in Line
      /\ file.preamble \in Nat /\ file.preamble < Len(Current)
  BY CurrentHasTheLines
<1>2. /\ phase = "reading" /\ Underway
      /\ next \in Nat /\ next >= file.preamble + 1 /\ next <= Len(Current) + 1
      /\ meta.header \in BOOLEAN /\ meta.columns \in Nat
  BY <1>1 DEF ReadBatch, CsvInv, CsvTypes, RowsSoFar, Layout, Underway
<1>3. BatchEnd \in Nat /\ BatchEnd <= Len(Current) /\ next <= BatchEnd
  <2>1. BatchEnd \in Int /\ BatchEnd <= Len(Current)
    BY BatchIsBounded
  <2>2. next..BatchEnd # {}
    BY DEF ReadBatch, Batch
  <2> QED BY <1>2, <2>1, <2>2
<1>4. /\ first \in Nat /\ next <= first /\ first <= BatchEnd + 1 /\ n \in Nat
      /\ n = BatchEnd - first + 1 /\ first = IF IsHeader(meta, next) THEN next + 1 ELSE next
  BY <1>2, <1>3
<1>5. /\ UNCHANGED <<file, copies, meta, sample, strict, repairs, phase>>
      /\ next' = BatchEnd + 1 /\ rows' = rows \o more
  BY DEF ReadBatch
<1>6. /\ more \in Seq(Row) /\ Len(more) = n
      /\ \A i \in 1..n : /\ more[i].line = first + i - 1
                         /\ first + i - 1 \in next..BatchEnd /\ more[i].cells = Current[first + i - 1]
  <2>1. \A i \in 1..n : first + i - 1 \in next..BatchEnd /\ first + i - 1 \in 1..Len(Current)
    BY <1>1, <1>2, <1>3, <1>4
  <2>2. \A i \in 1..n : [line |-> first + i - 1, cells |-> Current[first + i - 1]] \in Row
    BY <1>1, <2>1 DEF Row
  <2> HIDE DEF n, first
  <2>3. more \in [1..n -> Row] /\ DOMAIN more = 1..n
    BY <2>2
  <2>4. more \in Seq(Row)
    <3> HIDE DEF more
    <3> QED BY <1>4, <2>3
  <2>5. Len(more) = n
    BY <1>4, <2>3, <2>4, LenProperties
  <2> QED BY <2>1, <2>4, <2>5
<1> HIDE DEF first, n, more
<1>7. /\ rows' \in Seq(Row) /\ Len(rows') = Len(rows) + n /\ Len(rows) \in Nat
      /\ \A i \in 1..Len(rows') : rows'[i] = IF i <= Len(rows) THEN rows[i] ELSE more[i - Len(rows)]
  BY <1>5, <1>6, ConcatProperties, LenProperties DEF CsvTypes
<1>8. /\ FirstRow \in Nat /\ FirstRow = (IF meta.header THEN file.preamble + 2 ELSE file.preamble + 1)
      /\ FirstRow' = FirstRow
  BY <1>1, <1>2, <1>5 DEF FirstRow
<1>9. first = FirstRow + Len(rows)
  <2>1. Len(rows) = IF next = file.preamble + 1 THEN 0 ELSE next - FirstRow
    BY <1>2 DEF CsvInv, RowsSoFar
  <2> QED BY <1>1, <1>2, <1>4, <1>8, <2>1 DEF IsHeader
<1>10. CsvTypes'
  BY <1>1, <1>3, <1>5, <1>7 DEF CsvTypes
<1>11. RowsSoFar'
  <2>1. /\ next' \in (file.preamble + 1)..(Len(file.lines) + 1) /\ next' # file.preamble + 1
        /\ Len(rows') = next' - FirstRow
    <3>1. next' \in (file.preamble + 1)..(Len(file.lines) + 1) /\ next' # file.preamble + 1
      BY <1>1, <1>2, <1>3, <1>5
    <3>2. Len(rows') = (first - FirstRow) + (BatchEnd - first + 1)
      <4>1. Len(rows) = first - FirstRow
        <5>1. FirstRow \in Nat /\ Len(rows) \in Nat
          BY <1>7, <1>8
        <5> QED BY <1>9, <5>1
      <4>2. Len(rows') = Len(rows) + n
        BY <1>7
      <4> QED BY <1>4, <4>1, <4>2
    <3>3. next' = BatchEnd + 1 /\ first \in Nat /\ BatchEnd \in Nat /\ FirstRow \in Nat
      BY <1>3, <1>4, <1>5, <1>8
    <3>4. (first - FirstRow) + (BatchEnd - first + 1) = BatchEnd + 1 - FirstRow
      BY <3>3
    <3>5. Len(rows') = next' - FirstRow
      BY <3>2, <3>3, <3>4
    <3> QED BY <3>1, <3>5
  <2>2. \A i \in 1..Len(rows') : rows'[i].line = FirstRow + i - 1
    <3> SUFFICES ASSUME NEW i \in 1..Len(rows') PROVE rows'[i].line = FirstRow + i - 1
      OBVIOUS
    <3>1. CASE i <= Len(rows)
      <4>1. i \in 1..Len(rows) /\ rows'[i] = rows[i]
        BY <1>7, <3>1
      <4> QED BY <1>2, <4>1 DEF CsvInv, RowsSoFar
    <3>2. CASE ~(i <= Len(rows))
      <4>1. i - Len(rows) \in 1..n /\ rows'[i] = more[i - Len(rows)]
        BY <1>4, <1>7, <3>2
      <4>2. rows'[i].line = first + (i - Len(rows)) - 1
        BY <1>6, <4>1
      <4> QED BY <1>4, <1>7, <1>8, <1>9, <4>2
    <3> QED BY <3>1, <3>2
  <2> QED BY <1>2, <1>5, <1>8, <2>1, <2>2 DEF RowsSoFar
<1>12. StrictSoFar'
  <2> SUFFICES ASSUME strict PROVE StrictSoFar'
    BY <1>5 DEF StrictSoFar
  <2>1. /\ copies = <<>> /\ repairs = 0 /\ meta \in Sniffed(sample, FALSE)
        /\ \A i \in 1..Len(rows) : Len(rows[i].cells) = meta.columns
    BY <1>2 DEF CsvInv, StrictSoFar
  <2>2. Sniffed(sample, FALSE)' = Sniffed(sample, FALSE)
    BY <1>5 DEF Sniffed, Guess, Numeric, Sampled, Current
  <2>3. \A l \in next..BatchEnd : Len(Current[l]) = meta.columns
    <3> SUFFICES ASSUME NEW l \in next..BatchEnd PROVE Len(Current[l]) = meta.columns
      OBVIOUS
    <3>1. ~Miscounted(l)
      BY DEF ReadBatch, CountErrors, Batch
    <3>2. Len(Current[l]) \in Nat
      BY <1>1, <1>2, <1>3, LenProperties DEF Line
    <3> QED BY <1>2, <3>1, <3>2 DEF Miscounted
  <2>4. \A i \in 1..Len(rows') : Len(rows'[i].cells) = meta.columns
    <3> SUFFICES ASSUME NEW i \in 1..Len(rows') PROVE Len(rows'[i].cells) = meta.columns
      OBVIOUS
    <3>1. CASE i <= Len(rows)
      <4>1. i \in 1..Len(rows) /\ rows'[i] = rows[i]
        BY <1>7, <3>1
      <4> QED BY <2>1, <4>1
    <3>2. CASE ~(i <= Len(rows))
      <4>1. i - Len(rows) \in 1..n /\ rows'[i] = more[i - Len(rows)]
        BY <1>4, <1>7, <3>2
      <4> QED BY <1>6, <2>3, <4>1
    <3> QED BY <3>1, <3>2
  <2> QED BY <1>5, <2>1, <2>2, <2>4 DEF StrictSoFar
<1> QED BY <1>10, <1>11, <1>12 DEF CsvInv

(* Steps that only move to another phase: a failure, a repair, the end.    *)
LEMMA PhaseStepKeepsInv ==
  ASSUME CsvInv, UNCHANGED <<file, copies, meta, sample, strict, repairs, next, rows>>,
         \/ phase' = "failure"
         \/ phase = "reading" /\ phase' = "repair"
         \/ phase = "reading" /\ phase' = "success" /\ next > Len(Current)
  PROVE  CsvInv'
<1>1. CsvTypes'
  BY DEF CsvInv, CsvTypes, Phase
<1>2. RowsSoFar'
  <2>1. Len(Current) = Len(file.lines) /\ Len(Current) \in Nat /\ file.preamble \in Nat
    BY CurrentHasTheLines DEF CsvInv
  <2>2. FirstRow' = FirstRow
    BY DEF FirstRow
  <2>3. ASSUME phase' # "failure" PROVE phase = "reading" /\ RowsSoFar
    BY <2>3 DEF CsvInv
  <2>4. ASSUME phase' = "success" PROVE next = Len(file.lines) + 1
    BY <2>1, <2>3, <2>4 DEF RowsSoFar, Underway, CsvInv, CsvTypes
  <2> QED BY <2>2, <2>3, <2>4 DEF RowsSoFar, Underway
<1>3. StrictSoFar'
  <2>1. Sniffed(sample, FALSE)' = Sniffed(sample, FALSE)
    BY DEF Sniffed, Guess, Numeric, Sampled, Current
  <2> QED BY <2>1 DEF CsvInv, StrictSoFar, Underway
<1> QED BY <1>1, <1>2, <1>3 DEF CsvInv

(* Removing a copy at the end leaves the rest as it is.                    *)
LEMMA RemoveCopyKeepsInv == CsvInv /\ RemoveCopy => CsvInv'
<1> SUFFICES ASSUME CsvInv, RemoveCopy PROVE CsvInv'
  OBVIOUS
<1>1. UNCHANGED <<file, meta, sample, strict, repairs, next, rows, phase>> /\ copies # <<>>
      /\ phase # "start"
  BY DEF RemoveCopy
<1>2. /\ copies' \in Seq(Seq(Line)) /\ \A i \in 1..Len(copies') : Len(copies'[i]) = Len(file.lines)
  <2>1. /\ copies \in Seq(Seq(Line)) /\ Len(copies) \in Nat
        /\ \A i \in 1..Len(copies) : copies[i] \in Seq(Line)
    BY LenProperties, ElementOfSeq DEF CsvInv, CsvTypes
  <2>2. 1 \in Int /\ Len(copies) - 1 \in Int /\ \A i \in 1..(Len(copies) - 1) : copies[i] \in Seq(Line)
    BY <2>1
  <2>3. /\ copies' \in Seq(Seq(Line))
        /\ Len(copies') = IF 1 <= Len(copies) - 1 THEN Len(copies) - 1 - 1 + 1 ELSE 0
        /\ \A i \in 1..(Len(copies) - 1 - 1 + 1) : copies'[i] = copies[1 + i - 1]
    BY <2>2, SubSeqProperties DEF RemoveCopy
  <2>4. \A i \in 1..Len(copies') : i \in 1..Len(copies) /\ copies'[i] = copies[i]
    BY <2>1, <2>3
  <2>5. \A i \in 1..Len(copies) : Len(copies[i]) = Len(file.lines)
    BY DEF CsvInv, CsvTypes
  <2> QED BY <2>3, <2>4, <2>5
<1>3. CsvTypes'
  BY <1>1, <1>2 DEF CsvInv, CsvTypes
<1>4. RowsSoFar'
  BY <1>1 DEF CsvInv, RowsSoFar, Underway, FirstRow
<1>5. StrictSoFar'
  BY <1>1 DEF CsvInv, StrictSoFar, Underway
<1> QED BY <1>3, <1>4, <1>5 DEF CsvInv

(* A promotion leaves a layout.                                            *)
LEMMA PromotedLayout ==
  ASSUME meta \in Layout, NEW k \in meta.typed
  PROVE  /\ [meta EXCEPT !.typed = @ \ {k}] \in Layout
         /\ Cardinality(meta.typed) \in Nat
         /\ Cardinality([meta EXCEPT !.typed = @ \ {k}].typed) = Cardinality(meta.typed) - 1
<1>1. /\ IsFiniteSet(meta.typed) /\ meta.typed \in SUBSET Nat
      /\ [meta EXCEPT !.typed = @ \ {k}].typed = meta.typed \ {k}
  BY DEF Layout
<1>2. /\ IsFiniteSet(meta.typed \ {k})
      /\ Cardinality(meta.typed \ {k}) = Cardinality(meta.typed) - 1
  BY <1>1, FS_RemoveElement
<1>3. Cardinality(meta.typed) \in Nat
  BY <1>1, FS_CardinalityType
<1> QED BY <1>1, <1>2, <1>3 DEF Layout

(* A repaired copy has as many lines as what it repairs.                   *)
LEMMA FixedCopy ==
  ASSUME CsvTypes, NEW k \in 1..(Len(Current[Addressed]) - 1)
  PROVE  /\ Append(copies, [Current EXCEPT ![Addressed] = Merged(@, k)]) \in Seq(Seq(Line))
         /\ \A i \in 1..Len(Append(copies, [Current EXCEPT ![Addressed] = Merged(@, k)])) :
              Len(Append(copies, [Current EXCEPT ![Addressed] = Merged(@, k)])[i]) = Len(file.lines)
<1> DEFINE a == Addressed
           merged == Merged(Current[a], k)
           copy == [Current EXCEPT ![a] = merged]
<1>1. /\ Current \in Seq(Line) /\ Len(Current) = Len(file.lines) /\ Len(Current) \in Nat
      /\ DOMAIN Current = 1..Len(Current) /\ \A l \in 1..Len(Current) : Current[l] \in Line
  BY CurrentHasTheLines
<1>2. copy \in Seq(Line) /\ Len(copy) = Len(Current)
  <2>1. CASE a \in 1..Len(Current)
    <3>1. Current[a] \in Seq(Cell) /\ Len(Current[a]) \in Nat
      BY <1>1, <2>1, LenProperties DEF Line
    <3>2. \A i \in 1..Len(Current[a]) : Current[a][i] \in Cell
      BY <3>1, ElementOfSeq
    <3>3. Len(Current[a]) - 1 \in Nat
      BY <3>1
    <3>4. merged \in [1..(Len(Current[a]) - 1) -> Cell]
      <4>1. \A i \in 1..(Len(Current[a]) - 1) :
              /\ i \in 1..Len(Current[a]) /\ i + 1 \in 1..Len(Current[a])
              /\ Current[a][i] \in Cell /\ Current[a][i + 1] \in Cell
        BY <3>1, <3>2
      <4>2. \A i \in 1..(Len(Current[a]) - 1) :
              (IF i < k THEN Current[a][i] ELSE IF i = k THEN "text" ELSE Current[a][i + 1]) \in Cell
        BY <4>1 DEF Cell
      <4> QED BY <4>2 DEF Merged
    <3>5. merged \in Line
      <4> HIDE DEF merged, a
      <4> QED BY <3>3, <3>4 DEF Line
    <3> HIDE DEF merged, a
    <3> QED BY <1>1, <2>1, <3>5, ExceptSeq
  <2>2. CASE a \notin 1..Len(Current)
    <3> HIDE DEF merged, a
    <3>1. copy = Current
      BY <1>1, <2>2
    <3> QED BY <1>1, <3>1
  <2> QED BY <2>1, <2>2
<1> HIDE DEF copy
<1>3. copies \in Seq(Seq(Line)) /\ Len(copies) \in Nat
  BY LenProperties DEF CsvTypes
<1>4. /\ Append(copies, copy) \in Seq(Seq(Line)) /\ Len(Append(copies, copy)) = Len(copies) + 1
      /\ \A i \in 1..Len(copies) : Append(copies, copy)[i] = copies[i]
      /\ Append(copies, copy)[Len(copies) + 1] = copy
  BY <1>2, <1>3, AppendProperties
<1>5. \A i \in 1..Len(Append(copies, copy)) : Len(Append(copies, copy)[i]) = Len(file.lines)
  BY <1>1, <1>2, <1>3, <1>4 DEF CsvTypes
<1> QED BY <1>4, <1>5 DEF copy

-----------------------------------------------------------------------------
(* A read starts with the initial sample and nothing else.                 *)
LEMMA CsvInvInit == CsvInit => CsvInv
<1> SUFFICES ASSUME CsvInit PROVE CsvInv
  OBVIOUS
<1>1. NoLayout \in Layout
  <2>1. IsFiniteSet({})
    BY FS_EmptySet
  <2> QED BY <2>1 DEF NoLayout, Layout
<1>2. copies \in Seq(Seq(Line)) /\ rows \in Seq(Row) /\ Len(copies) = 0
  BY EmptySeq DEF CsvInit
<1>3. CsvTypes
  BY <1>1, <1>2, CsvAssumption DEF CsvInit, CsvTypes, Phase
<1> QED BY <1>3 DEF CsvInit, CsvInv, RowsSoFar, StrictSoFar, Underway

(* The invariant is kept by every step.                                    *)
LEMMA CsvInvStep == CsvInv /\ [CsvNext]_csvVars => CsvInv'
<1> SUFFICES ASSUME CsvInv, [CsvNext]_csvVars PROVE CsvInv'
  OBVIOUS
<1> CsvTypes
  BY DEF CsvInv
<1>1. /\ file \in Files /\ repairs \in Nat /\ repairs <= MaxRepairs + 1 /\ meta \in Layout
      /\ copies \in Seq(Seq(Line)) /\ \A i \in 1..Len(copies) : Len(copies[i]) = Len(file.lines)
      /\ sample \in Nat /\ strict \in BOOLEAN /\ MaxRepairs \in Nat /\ InitialSample \in Nat
  BY CsvAssumption DEF CsvTypes
<1>2. CASE UNCHANGED csvVars
  <2>1. Sniffed(sample, FALSE)' = Sniffed(sample, FALSE) /\ FirstRow' = FirstRow
    BY <1>2 DEF csvVars, Sniffed, Guess, Numeric, Sampled, Current, FirstRow
  <2> QED BY <1>2, <2>1 DEF csvVars, CsvInv, CsvTypes, RowsSoFar, StrictSoFar, Underway
<1>3. ASSUME Fail PROVE CsvInv'
  BY <1>3, PhaseStepKeepsInv DEF Fail
<1>4. CASE StartRead
  <2>1. ASSUME NEW m \in Sniffed(InitialSample, FALSE), Attempt(m, InitialSample, TRUE),
               UNCHANGED <<copies, repairs>>
        PROVE  CsvInv'
    <3>1. m \in Layout
      BY <1>1, SniffedIsLayout
    <3>2. copies = <<>> /\ repairs = 0
      BY <1>4 DEF StartRead, CsvTypes
    <3> QED BY <1>1, <2>1, <3>1, <3>2, AttemptKeepsInv
  <2> QED BY <1>3, <1>4, <2>1 DEF StartRead
<1>5. CASE ReadBatch
  BY <1>5, BatchKeepsInv
<1>6. CASE PromoteColumn
  <2>1. PICK k \in meta.typed : Attempt([meta EXCEPT !.typed = @ \ {k}], sample, FALSE)
    BY <1>6 DEF PromoteColumn
  <2>2. [meta EXCEPT !.typed = @ \ {k}] \in Layout
    BY <1>1, PromotedLayout
  <2>3. UNCHANGED <<copies, repairs>>
    BY <1>6 DEF PromoteColumn
  <2> QED BY <1>1, <2>1, <2>2, <2>3, AttemptKeepsInv
<1>7. CASE GrowSample
  <2>1. ASSUME NEW m \in Sniffed(NextSample(sample), FALSE), Attempt(m, NextSample(sample), strict),
               UNCHANGED <<copies, repairs>>
        PROVE  CsvInv'
    <3>1. NextSample(sample) \in Nat
      BY <1>1 DEF NextSample, All
    <3>2. m \in Layout
      BY <3>1, SniffedIsLayout
    <3>3. strict => copies = <<>> /\ repairs = 0
      BY <1>7 DEF GrowSample, CsvInv, StrictSoFar, Underway
    <3> QED BY <1>1, <2>1, <3>1, <3>2, <3>3, AttemptKeepsInv
  <2> QED BY <1>3, <1>7, <2>1 DEF GrowSample
<1>8. CASE NeedRepair
  BY <1>8, PhaseStepKeepsInv DEF NeedRepair
<1>9. CASE ReadingFails
  BY <1>3, <1>9 DEF ReadingFails
<1>10. CASE FinishRead
  BY <1>10, PhaseStepKeepsInv DEF FinishRead
<1>11. CASE NoRepair
  BY <1>3, <1>11 DEF NoRepair
<1>12. CASE FixInput
  <2>1. PICK k \in 1..(Len(Current[Addressed]) - 1) :
          copies' = Append(copies, [Current EXCEPT ![Addressed] = Merged(@, k)])
    <3>1. PICK answer \in Answers :
            /\ MergeChoice(answer)
            /\ copies' = Append(copies, [Current EXCEPT ![Addressed] = Merged(@, answer.merge)])
      BY <1>12 DEF FixInput, Confirmed, MergeChoice, Shown
    <3>2. answer.merge \in 1..(Len(Current[Addressed]) - 1)
      BY <3>1 DEF MergeChoice, Shown
    <3> QED BY <3>1, <3>2
  <2>2. /\ copies' \in Seq(Seq(Line)) /\ \A i \in 1..Len(copies') : Len(copies'[i]) = Len(file.lines)
    BY <2>1, FixedCopy
  <2>3. Attempt(meta, All, FALSE) /\ repairs' = repairs + 1 /\ MayRepair
    BY <1>12 DEF FixInput, Confirmed, MergeChoice, Shown
  <2>4. repairs' \in Nat /\ repairs' <= MaxRepairs + 1 /\ All \in Nat
    BY <1>1, <2>3 DEF MayRepair, All
  <2> QED BY <1>1, <2>2, <2>3, <2>4, AttemptKeepsInv
<1>13. CASE FixMetadata
  <2>1. All \in Nat /\ repairs' \in Nat /\ repairs' <= MaxRepairs + 1 /\ copies' = copies
    BY <1>1, <1>13 DEF FixMetadata, Confirmed, MayRepair, All
  <2>2. PICK m \in Sniffed(All, TRUE) : Attempt(m, All, FALSE)
    BY <1>13 DEF FixMetadata, Confirmed
  <2>3. m \in Layout
    BY <2>1, SniffedIsLayout
  <2> QED BY <1>1, <2>1, <2>2, <2>3, AttemptKeepsInv
<1>14. CASE RemoveCopy
  BY <1>14, RemoveCopyKeepsInv
<1> QED
  BY <1>2, <1>4, <1>5, <1>6, <1>7, <1>8, <1>9, <1>10, <1>11, <1>12, <1>13, <1>14 DEF CsvNext

-----------------------------------------------------------------------------
(* A file that was read is there from its first row to its last, in order. *)
THEOREM NothingLostInRetries == CsvSpec => []WholeFileOnce
<1>1. CsvInv => WholeFileOnce
  <2> SUFFICES ASSUME CsvInv, phase = "success"
               PROVE  /\ Len(rows) = Len(file.lines) - FirstRow + 1
                      /\ \A i \in 1..Len(rows) : rows[i].line = FirstRow + i - 1
    BY DEF WholeFileOnce
  <2>1. /\ file.preamble \in Nat /\ Len(file.lines) \in Nat /\ file.preamble < Len(file.lines)
    BY CurrentHasTheLines DEF CsvInv
  <2>2. /\ next = Len(file.lines) + 1
        /\ Len(rows) = IF next = file.preamble + 1 THEN 0 ELSE next - FirstRow
        /\ \A i \in 1..Len(rows) : rows[i].line = FirstRow + i - 1
    BY DEF CsvInv, RowsSoFar, Underway
  <2>3. FirstRow \in Nat
    BY <2>1 DEF FirstRow
  <2> QED BY <2>1, <2>2, <2>3
<1> QED BY <1>1, CsvInvInit, CsvInvStep, PTL DEF CsvSpec

(* A file read in strict mode was taken as it came.                        *)
THEOREM StrictReadsAreExact == CsvSpec => []StrictIsExact
<1>1. CsvInv => StrictIsExact
  BY DEF CsvInv, StrictSoFar, Underway, StrictIsExact
<1> QED BY <1>1, CsvInvInit, CsvInvStep, PTL DEF CsvSpec

(* JEV is asked for at most one repair more than its limit.                *)
THEOREM RepairsAreBounded == CsvSpec => []RepairsBounded
<1>1. CsvInv => RepairsBounded
  BY DEF CsvInv, CsvTypes, RepairsBounded
<1> QED BY <1>1, CsvInvInit, CsvInvStep, PTL DEF CsvSpec

-----------------------------------------------------------------------------
(* Tuples of seven are compared at the first place where they differ.      *)
LEMMA BelowAt ==
  ASSUME NEW a1, NEW a2, NEW a3, NEW a4, NEW a5, NEW a6, NEW a7,
         NEW b1, NEW b2, NEW b3, NEW b4, NEW b5, NEW b6, NEW b7,
         \/ a1 < b1
         \/ a1 = b1 /\ a2 < b2
         \/ a1 = b1 /\ a2 = b2 /\ a3 < b3
         \/ a1 = b1 /\ a2 = b2 /\ a3 = b3 /\ a4 < b4
         \/ a1 = b1 /\ a2 = b2 /\ a3 = b3 /\ a4 = b4 /\ a5 < b5
         \/ a1 = b1 /\ a2 = b2 /\ a3 = b3 /\ a4 = b4 /\ a5 = b5 /\ a6 < b6
         \/ a1 = b1 /\ a2 = b2 /\ a3 = b3 /\ a4 = b4 /\ a5 = b5 /\ a6 = b6 /\ a7 < b7
  PROVE  Below(<<a1, a2, a3, a4, a5, a6, a7>>, <<b1, b2, b3, b4, b5, b6, b7>>)
<1> DEFINE m == <<a1, a2, a3, a4, a5, a6, a7>>
           n == <<b1, b2, b3, b4, b5, b6, b7>>
<1>1. /\ DOMAIN n = 1..7
      /\ m[1] = a1 /\ m[2] = a2 /\ m[3] = a3 /\ m[4] = a4 /\ m[5] = a5 /\ m[6] = a6 /\ m[7] = a7
      /\ n[1] = b1 /\ n[2] = b2 /\ n[3] = b3 /\ n[4] = b4 /\ n[5] = b5 /\ n[6] = b6 /\ n[7] = b7
  OBVIOUS
<1>2. PICK i \in 1..7 : m[i] < n[i] /\ \A j \in 1..(i - 1) : m[j] = n[j]
  <2> HIDE DEF m, n
  <2>1. CASE a1 < b1
    BY <1>1, <2>1
  <2>2. CASE a1 = b1 /\ a2 < b2
    <3>1. \A j \in 1..(2 - 1) : j = 1
      OBVIOUS
    <3> QED BY <1>1, <2>2, <3>1
  <2>3. CASE a1 = b1 /\ a2 = b2 /\ a3 < b3
    <3>1. \A j \in 1..(3 - 1) : j = 1 \/ j = 2
      OBVIOUS
    <3> QED BY <1>1, <2>3, <3>1
  <2>4. CASE a1 = b1 /\ a2 = b2 /\ a3 = b3 /\ a4 < b4
    <3>1. \A j \in 1..(4 - 1) : j = 1 \/ j = 2 \/ j = 3
      OBVIOUS
    <3> QED BY <1>1, <2>4, <3>1
  <2>5. CASE a1 = b1 /\ a2 = b2 /\ a3 = b3 /\ a4 = b4 /\ a5 < b5
    <3>1. \A j \in 1..(5 - 1) : j = 1 \/ j = 2 \/ j = 3 \/ j = 4
      OBVIOUS
    <3> QED BY <1>1, <2>5, <3>1
  <2>6. CASE a1 = b1 /\ a2 = b2 /\ a3 = b3 /\ a4 = b4 /\ a5 = b5 /\ a6 < b6
    <3>1. \A j \in 1..(6 - 1) : j = 1 \/ j = 2 \/ j = 3 \/ j = 4 \/ j = 5
      OBVIOUS
    <3> QED BY <1>1, <2>6, <3>1
  <2>7. CASE a1 = b1 /\ a2 = b2 /\ a3 = b3 /\ a4 = b4 /\ a5 = b5 /\ a6 = b6 /\ a7 < b7
    <3>1. \A j \in 1..(7 - 1) : j = 1 \/ j = 2 \/ j = 3 \/ j = 4 \/ j = 5 \/ j = 6
      OBVIOUS
    <3> QED BY <1>1, <2>7, <3>1
  <2> QED BY <2>1, <2>2, <2>3, <2>4, <2>5, <2>6, <2>7
<1> QED BY <1>1, <1>2 DEF Below

(* The next sample is larger, which is to say of a lower rank.             *)
LEMMA SampleGrows ==
  ASSUME sample \in Nat, sample # All, sample' = NextSample(sample)
  PROVE  SampleRank' < SampleRank
<1>1. MaxSample \in Nat
  BY CsvAssumption
<1>2. CASE sample < MaxSample
  <2>1. sample' = 2 * sample /\ sample' # 0 /\ SampleRank = 2 + MaxSample - sample
    BY <1>1, <1>2 DEF NextSample, All, SampleRank
  <2>2. SampleRank' = IF sample' < MaxSample THEN 2 + MaxSample - sample' ELSE 1
    BY <2>1 DEF SampleRank, All
  <2> QED BY <1>1, <1>2, <2>1, <2>2 DEF All
<1>3. CASE ~(sample < MaxSample)
  BY <1>1, <1>3 DEF NextSample, All, SampleRank
<1> QED BY <1>2, <1>3

(* Every step of the machine lowers the measure.                           *)
LEMMA StepDescends ==
  ASSUME CsvInv, CsvNext
  PROVE  Below(Measure', Measure)
<1> DEFINE Rank3 == IF phase = "reading" THEN 1 ELSE 0
           Left == MaxRepairs + 1 - repairs
           Todo == Len(Current) + 1 - next
           Lower == \/ PhaseRank' < PhaseRank
                    \/ PhaseRank' = PhaseRank /\ Left' < Left
                    \/ PhaseRank' = PhaseRank /\ Left' = Left /\ Rank3' < Rank3
                    \/ PhaseRank' = PhaseRank /\ Left' = Left /\ Rank3' = Rank3 /\ SampleRank' < SampleRank
                    \/ /\ PhaseRank' = PhaseRank /\ Left' = Left /\ Rank3' = Rank3 /\ SampleRank' = SampleRank
                       /\ Cardinality(meta'.typed) < Cardinality(meta.typed)
                    \/ /\ PhaseRank' = PhaseRank /\ Left' = Left /\ Rank3' = Rank3 /\ SampleRank' = SampleRank
                       /\ Cardinality(meta'.typed) = Cardinality(meta.typed) /\ Todo' < Todo
                    \/ /\ PhaseRank' = PhaseRank /\ Left' = Left /\ Rank3' = Rank3 /\ SampleRank' = SampleRank
                       /\ Cardinality(meta'.typed) = Cardinality(meta.typed) /\ Todo' = Todo
                       /\ Len(copies') < Len(copies)
<1> SUFFICES Lower
  BY BelowAt DEF Measure
<1>1. /\ repairs \in Nat /\ MaxRepairs \in Nat /\ sample \in Nat /\ next \in Nat
      /\ meta \in Layout /\ phase \in Phase
  BY CsvAssumption DEF CsvInv, CsvTypes
<1>2. ASSUME phase \in {"start", "reading", "repair"}, phase' \in {"success", "failure"}
      PROVE  PhaseRank' < PhaseRank
  BY <1>2 DEF PhaseRank
<1>3. ASSUME phase \in {"start", "reading", "repair"}, Fail PROVE Lower
  BY <1>2, <1>3 DEF Fail
<1>4. CASE StartRead
  <2>1. ASSUME phase' = "reading" PROVE PhaseRank' < PhaseRank
    BY <1>4, <2>1 DEF StartRead, PhaseRank
  <2> QED BY <1>3, <1>4, <2>1 DEF StartRead, Attempt
<1>5. CASE ReadBatch
  <2>1. BatchEnd \in Int /\ next..BatchEnd # {}
    BY <1>5, BatchIsBounded DEF ReadBatch, Batch, CsvInv
  <2>2. UNCHANGED <<file, copies, meta, sample, strict, repairs, phase>> /\ next' = BatchEnd + 1
    BY <1>5 DEF ReadBatch
  <2>3. Current' = Current /\ Len(Current) \in Nat
    BY <2>2, CurrentHasTheLines DEF Current, CsvInv
  <2>4. next' > next
    BY <1>1, <2>1, <2>2
  <2>5. Todo' < Todo
    BY <1>1, <2>1, <2>2, <2>3, <2>4
  <2> QED BY <2>2, <2>5 DEF PhaseRank, SampleRank
<1>6. CASE PromoteColumn
  <2>1. PICK k \in meta.typed : Attempt([meta EXCEPT !.typed = @ \ {k}], sample, FALSE)
    BY <1>6 DEF PromoteColumn
  <2>2. Cardinality(meta'.typed) < Cardinality(meta.typed)
    <3>1. meta' = [meta EXCEPT !.typed = @ \ {k}]
      BY <2>1 DEF Attempt
    <3> QED BY <1>1, <3>1, PromotedLayout
  <2>3. phase = "reading" /\ phase' = "reading" /\ sample' = sample /\ repairs' = repairs
    BY <1>6, <2>1 DEF PromoteColumn, Attempt
  <2> QED BY <2>2, <2>3 DEF PhaseRank, SampleRank
<1>7. CASE GrowSample
  <2>1. ASSUME NEW m, Attempt(m, NextSample(sample), strict), repairs' = repairs PROVE Lower
    <3>1. phase = "reading" /\ phase' = "reading" /\ sample' = NextSample(sample) /\ sample # All
      BY <1>7, <2>1 DEF GrowSample, Attempt
    <3>2. SampleRank' < SampleRank
      BY <1>1, <3>1, SampleGrows
    <3> QED BY <2>1, <3>1, <3>2 DEF PhaseRank
  <2> QED BY <1>3, <1>7, <2>1 DEF GrowSample
<1>8. CASE NeedRepair
  <2>1. phase = "reading" /\ repairs' = repairs /\ phase' \in {"repair", "failure"}
    BY <1>8 DEF NeedRepair
  <2> QED BY <1>2, <2>1 DEF PhaseRank
<1>9. CASE ReadingFails
  BY <1>3, <1>9 DEF ReadingFails
<1>10. CASE FinishRead
  BY <1>2, <1>10 DEF FinishRead
<1>11. CASE NoRepair
  BY <1>3, <1>11 DEF NoRepair
<1>12. CASE FixInput \/ FixMetadata
  <2>1. phase = "repair" /\ phase' = "reading" /\ repairs' = repairs + 1
    BY <1>12 DEF FixInput, FixMetadata, Confirmed, MergeChoice, Attempt
  <2> QED BY <1>1, <2>1 DEF PhaseRank
<1>13. CASE RemoveCopy
  <2>1. /\ UNCHANGED <<file, meta, sample, strict, repairs, next, rows, phase>> /\ copies # <<>>
        /\ phase \in {"success", "failure"} /\ copies' = SubSeq(copies, 1, Len(copies) - 1)
    BY <1>13 DEF RemoveCopy
  <2>2. Len(Current) = Len(file.lines)
    BY CurrentHasTheLines DEF CsvInv
  <2>3. CsvTypes'
    BY <1>13, RemoveCopyKeepsInv DEF CsvInv
  <2>4. Len(Current)' = Len(file.lines)
    <3>1. CASE copies' = <<>>
      BY <2>1, <3>1 DEF Current
    <3>2. CASE copies' # <<>>
      <4>1. Len(copies') \in 1..Len(copies')
        BY <2>3, <3>2, EmptySeq, LenProperties DEF CsvTypes
      <4> QED BY <2>1, <2>3, <3>2, <4>1 DEF Current, CsvTypes
    <3> QED BY <3>1, <3>2
  <2>5. Len(copies') < Len(copies)
    <3>1. copies \in Seq(Seq(Line)) /\ Len(copies) \in Nat \ {0}
      BY <2>1, EmptySeq, LenProperties DEF CsvInv, CsvTypes
    <3>2. 1 \in Int /\ Len(copies) - 1 \in Int /\ \A i \in 1..(Len(copies) - 1) : copies[i] \in Seq(Line)
      BY <3>1, ElementOfSeq
    <3>3. Len(copies') = IF 1 <= Len(copies) - 1 THEN Len(copies) - 1 - 1 + 1 ELSE 0
      BY <2>1, <3>2, SubSeqProperties
    <3> QED BY <3>1, <3>3
  <2> QED BY <2>1, <2>2, <2>4, <2>5 DEF PhaseRank, SampleRank
<1> QED
  BY <1>4, <1>5, <1>6, <1>7, <1>8, <1>9, <1>10, <1>11, <1>12, <1>13 DEF CsvNext

(* The retries of a read form no loop, whatever the file holds and whatever*)
(* JEV answers.                                                            *)
THEOREM RetriesFormNoLoop == CsvSpec => EveryStepDescends
<1>1. CsvInv /\ [CsvNext]_csvVars => [Below(Measure', Measure)]_csvVars
  BY StepDescends
<1> QED BY <1>1, CsvInvInit, CsvInvStep, PTL DEF CsvSpec, EveryStepDescends
=============================================================================
