----------------------------- MODULE CsvReading -----------------------------
(***************************************************************************)
(* One read of a CSV file by CsvReader: the file is downloaded, its layout *)
(* is guessed from a sample, and the records are parsed into Parquet.  A   *)
(* parse error starts the read again, with a column turned into text, with *)
(* a larger sample, or with what JEV, an external service, makes of the    *)
(* line in question.                                                       *)
(*                                                                         *)
(* A file is a sequence of lines, the first few of them a preamble; a line *)
(* is the sequence of its cells, and a cell is a number or a text.         *)
(***************************************************************************)
EXTENDS Integers, Sequences, FiniteSets

CONSTANTS
  Files,          \* the files explored: [lines |-> ..., preamble |-> ...]
  InitialSample,  \* lines sampled first: CSV_READER_INITIAL_SAMPLE_RECORDS
  MaxSample,      \* CSV_READER_MAX_SAMPLE_RECORDS
  MaxRepairs,     \* MAX_JEV_CSV_REPAIRS
  MaxBatchRows,   \* CSV_BATCH_SIZE
  MaxBatchCells,  \* MAX_CSV_BATCH_CELLS
  JevEnabled      \* an API key is configured

Cell == {"number", "text"}

ASSUME CsvAssumption ==
  /\ \A f \in Files : /\ f.lines \in Seq(Seq(Cell)) /\ f.preamble \in Nat
                      /\ f.preamble < Len(f.lines)
  /\ InitialSample \in Nat \ {0} /\ MaxSample \in Nat /\ MaxRepairs \in Nat
  /\ MaxBatchRows \in Nat \ {0} /\ MaxBatchCells \in Nat
  /\ JevEnabled \in BOOLEAN

VARIABLES
  file,      \* the downloaded file
  copies,    \* the files of the repairs in progress, each kept until the
             \* attempts on it have returned; the last one is being read
  meta,      \* what the sniffer found: columns, typed (numeric) ones, header
  sample,    \* size of the sample meta comes from
  strict,    \* short lines are refused
  repairs,   \* answers of JEV acted upon
  next,      \* next line to read
  rows,      \* the Parquet output of this attempt: [line, cells]
  phase      \* start, reading, repair, success, failure

csvVars == <<file, copies, meta, sample, strict, repairs, next, rows, phase>>

All == 0  \* SampleSize::All
NextSample(s) == IF s # All /\ s < MaxSample THEN 2 * s ELSE All

Least(a, b) == IF a <= b THEN a ELSE b
Most(a, b) == IF a <= b THEN b ELSE a
BatchRows(columns) == Least(MaxBatchRows, Most(1, MaxBatchCells \div Most(1, columns)))

Current == IF copies = <<>> THEN file.lines ELSE copies[Len(copies)]
IsHeader(m, l) == m.header /\ l = file.preamble + 1

\* csv-nose: the number of columns is that of a sampled line, and a column is
\* numeric if it has values in the sample and all of them are numbers.
Sampled(s) == (file.preamble + 1)..(IF s = All THEN Len(Current)
                                    ELSE Least(file.preamble + s, Len(Current)))
Values(lines, k) == {lines[l][k] : l \in {i \in DOMAIN lines : k \in DOMAIN lines[i]}}
Numeric(s, columns, header) ==
  LET data == {l \in Sampled(s) : ~(header /\ l = file.preamble + 1)} IN
  {k \in 1..columns : Values([l \in data |-> Current[l]], k) = {"number"}}
Guess(s, columns, header) ==
  [columns |-> columns, header |-> header, typed |-> Numeric(s, columns, header)]
Sniffed(s, forceHeader) ==
  {Guess(s, c, h) : c \in {Len(Current[l]) : l \in Sampled(s)},
                    h \in IF forceHeader THEN {TRUE} ELSE BOOLEAN}

\* A new attempt starts from an empty output.
AttemptKeepingRows(m, s, st) ==                                      \* mutant
  /\ meta' = m /\ sample' = s /\ strict' = st
  /\ next' = file.preamble + 1 /\ phase' = "reading" /\ UNCHANGED <<rows, file>>
Attempt(m, s, st) ==
  /\ meta' = m /\ sample' = s /\ strict' = st
  /\ next' = file.preamble + 1 /\ rows' = <<>> /\ phase' = "reading" /\ UNCHANGED file
Fail == phase' = "failure" /\ UNCHANGED <<file, copies, meta, sample, strict, repairs, next, rows>>

NoLayout == [columns |-> 0, header |-> FALSE, typed |-> {}]
CsvInit ==
  /\ file \in Files
  /\ copies = <<>> /\ meta = NoLayout /\ sample = InitialSample /\ strict = TRUE
  /\ repairs = 0 /\ next = 0 /\ rows = <<>> /\ phase = "start"

\* read_batches: the download or the sniffer may fail.
StartRead ==
  /\ phase = "start"
  /\ \/ \E m \in Sniffed(InitialSample, FALSE) : Attempt(m, InitialSample, TRUE)
        /\ UNCHANGED <<copies, repairs>>
     \/ Fail

-----------------------------------------------------------------------------
(* The arrow reader checks the cells of a whole batch for their number     *)
(* before it parses any of them, column by column.                         *)

BatchEnd == Least(next + BatchRows(meta.columns) - 1, Len(Current))
Batch == next..BatchEnd
Miscounted(l) ==
  \/ Len(Current[l]) > meta.columns
  \/ strict /\ Len(Current[l]) < meta.columns
CountErrors == {l \in Batch : Miscounted(l)}
TypeErrors ==
  {k \in meta.typed : \E l \in Batch : /\ ~IsHeader(meta, l) /\ k \in DOMAIN Current[l]
                                       /\ Current[l][k] = "text"}
CountError(l) == l \in CountErrors /\ \A i \in CountErrors : l <= i
TypeError(k) == CountErrors = {} /\ k \in TypeErrors /\ \A i \in TypeErrors : k <= i

ReadBatch ==
  /\ phase = "reading" /\ Batch # {} /\ CountErrors = {} /\ TypeErrors = {}
  /\ LET first == IF IsHeader(meta, next) THEN next + 1 ELSE next IN
       rows' = rows \o [i \in 1..(BatchEnd - first + 1) |->
                           [line |-> first + i - 1, cells |-> Current[first + i - 1]]]
  /\ next' = BatchEnd + 1
  /\ UNCHANGED <<file, copies, meta, sample, strict, repairs, phase>>

\* try_read_csv_promoting_column: strictness ends here.
PromoteColumnOfSample ==                                             \* mutant
  /\ phase = "reading"
  /\ \E k \in meta.typed : TypeError(k) /\ Attempt(meta, sample, FALSE)
  /\ UNCHANGED <<copies, repairs>>
PromoteColumnStrictly ==                                             \* mutant
  /\ phase = "reading"
  /\ \E k \in meta.typed :
       TypeError(k) /\ Attempt([meta EXCEPT !.typed = @ \ {k}], sample, strict)
  /\ UNCHANGED <<copies, repairs>>
PromoteColumn ==
  /\ phase = "reading"
  /\ \E k \in meta.typed :
       TypeError(k) /\ Attempt([meta EXCEPT !.typed = @ \ {k}], sample, FALSE)
  /\ UNCHANGED <<copies, repairs>>

\* try_read_csv_increasing_metadata_sample, after a line of the wrong length or
\* another parser error: promotions are forgotten, the strictness is kept.
GrowSample ==
  /\ phase = "reading" /\ sample # All
  /\ \/ \E m \in Sniffed(NextSample(sample), FALSE) : Attempt(m, NextSample(sample), strict)
        /\ UNCHANGED <<copies, repairs>>
     \/ Fail

\* With the whole file sampled a line of the wrong length needs a repair; an
\* overlong one at the end of a batch is reported without its length, which
\* is a parser error, and nothing else is recovered from.
NeedRepair ==
  /\ phase = "reading" /\ CountErrors # {} /\ sample = All
  /\ \/ phase' = "repair"
     \/ \E l \in CountErrors : CountError(l) /\ Len(Current[l]) > meta.columns /\ phase' = "failure"
  /\ UNCHANGED <<file, copies, meta, sample, strict, repairs, next, rows>>
ReadingFails == phase = "reading" /\ Fail

FinishRead ==
  /\ phase = "reading" /\ next > Len(Current)
  /\ phase' = IF rows = <<>> THEN "failure" ELSE "success"
  /\ UNCHANGED <<file, copies, meta, sample, strict, repairs, next, rows>>

-----------------------------------------------------------------------------
(* try_read_csv_reapairing_with_jev.  The reader counts lines from the end *)
(* of the preamble, the repairer from the start of the file.               *)

MayRepair == JevEnabled /\ repairs <= MaxRepairs
Reported == CHOOSE l \in CountErrors : CountError(l)
Addressed == Reported - file.preamble

\* repair_line: two neighbouring cells become one text.
Merged(line, k) ==
  [i \in 1..(Len(line) - 1) |-> IF i < k THEN line[i] ELSE IF i = k THEN "text" ELSE line[i + 1]]

\* What JEV is shown, and what it may say: which cell to merge with the next
\* one (0: it does not say), and whether each guess of the sniffer was right.
Shown == Current[Addressed]
Verdict == {"yes", "no", "none"}
Answers == [merge : 0..(Len(Shown) + 1), delimiter : Verdict, header : Verdict, fields : Verdict]
Confirmed(answer) == answer.delimiter = "yes" /\ answer.header = "yes" /\ answer.fields = "yes"
MergeChoice(answer) == answer.merge \in 1..(Len(Shown) - 1)

\* JEV is disabled, used up or fails, or its answer is of no use.
NoRepair == phase = "repair" /\ Fail

FixInput ==
  /\ phase = "repair" /\ MayRepair
  /\ \E answer \in Answers :
       /\ Confirmed(answer) /\ MergeChoice(answer)
       /\ copies' = Append(copies, [Current EXCEPT ![Addressed] = Merged(@, answer.merge)])
  /\ repairs' = repairs + 1
  /\ Attempt(meta, All, FALSE)

\* JEV denies the header answer: the first line is a header, whatever the
\* sniffer thought, and the file is sniffed again.
FixMetadata ==
  /\ phase = "repair" /\ MayRepair
  /\ \E answer \in Answers : answer.merge # 0 /\ ~Confirmed(answer) /\ answer.header = "no"
  /\ \E m \in Sniffed(All, TRUE) : Attempt(m, All, FALSE)
  /\ repairs' = repairs + 1
  /\ UNCHANGED copies

\* try_read_csv_with_repaired_input: each copy goes when the attempt on it
\* returns, innermost first, whatever it returns.
RemoveCopyOnSuccess ==                                               \* mutant
  /\ phase = "success" /\ copies # <<>>
  /\ copies' = SubSeq(copies, 1, Len(copies) - 1)
  /\ UNCHANGED <<file, meta, sample, strict, repairs, next, rows, phase>>
RemoveCopy ==
  /\ phase \in {"success", "failure"} /\ copies # <<>>
  /\ copies' = SubSeq(copies, 1, Len(copies) - 1)
  /\ UNCHANGED <<file, meta, sample, strict, repairs, next, rows, phase>>

CsvNext ==
  \/ StartRead \/ ReadBatch \/ PromoteColumn \/ GrowSample \/ NeedRepair \/ ReadingFails
  \/ FinishRead \/ NoRepair \/ FixInput \/ FixMetadata \/ RemoveCopy

CsvSpec == CsvInit /\ [][CsvNext]_csvVars
FairCsvSpec == CsvSpec /\ WF_csvVars(CsvNext)
-----------------------------------------------------------------------------
FirstRow == IF meta.header THEN file.preamble + 2 ELSE file.preamble + 1

(* A file that was read is there from its first row to its last, each line *)
(* once and in order, however many attempts and repairs it took: no attempt*)
(* leaves rows behind for the next.                                        *)
WholeFileOnce ==
  phase = "success" =>
    /\ Len(rows) = Len(file.lines) - FirstRow + 1
    /\ \A i \in 1..Len(rows) : rows[i].line = FirstRow + i - 1

(* A file reported as read in strict mode was taken as it came: no column  *)
(* turned into text, no line padded, merged or cut.                        *)
StrictIsExact ==
  phase = "success" /\ strict =>
    /\ copies = <<>> /\ repairs = 0 /\ meta \in Sniffed(sample, FALSE)
    /\ \A i \in 1..Len(rows) : Len(rows[i].cells) = meta.columns

(* JEV is asked for at most one repair more than MAX_JEV_CSV_REPAIRS.      *)
RepairsBounded == repairs <= MaxRepairs + 1

(* The retries form no loop: every step brings the read closer to its end, *)
(* by fewer repairs left, a larger sample, a column less to parse or a line*)
(* less to read, in this order.                                            *)
SampleRank == IF sample = All THEN 0 ELSE IF sample < MaxSample THEN 2 + MaxSample - sample ELSE 1
PhaseRank == CASE phase = "start" -> 2 [] phase \in {"reading", "repair"} -> 1 [] OTHER -> 0
Measure ==
  <<PhaseRank, MaxRepairs + 1 - repairs, IF phase = "reading" THEN 1 ELSE 0, SampleRank,
    Cardinality(meta.typed), Len(Current) + 1 - next, Len(copies)>>
Below(m, n) == \E i \in DOMAIN n : m[i] < n[i] /\ \A j \in 1..(i - 1) : m[j] = n[j]
EveryStepDescends == [][Below(Measure', Measure)]_csvVars

(* Every read ends, and no repaired copy stays on the disk.                *)
ReadEnds == <>[](phase \in {"success", "failure"} /\ copies = <<>>)

(* A repair merges two cells of a line that has the wrong number of them,  *)
(* which is what JEV is asked about.                                       *)
RepairsHitTheMalformedLine ==
  [][Len(copies') > Len(copies) =>
       \A l \in DOMAIN Current :
         copies'[Len(copies')][l] # Current[l] => Len(Current[l]) # meta.columns]_csvVars
=============================================================================
