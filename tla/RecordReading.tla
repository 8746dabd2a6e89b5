--------------------------- MODULE RecordReading ---------------------------
(***************************************************************************)
(* The readers of files that hold records: JSON, GeoJSON, Tabular Data     *)
(* Packages, GTFS Realtime feeds and logs.  A document is parsed, its      *)
(* records become rows, and the rows are written in batches.               *)
(***************************************************************************)
EXTENDS Integers, Sequences, FiniteSets

CONSTANTS
  Documents,   \* documents explored, see document
  RecordBatch  \* BATCH_SIZE

ASSUME RecordAssumption ==
  /\ RecordBatch \in Nat \ {0}
  /\ \A doc \in Documents : Len(doc.records) \in Nat

VARIABLES
  document,  \* kind: "json", "geojson", "package", "feed" or "log"; text: "utf8", "legacy"
             \* or "broken"; list: it holds a list of records, or one record;
             \* records: what it holds
  types,     \* column -> its type in the table
  taken,     \* records taken so far
  buffer,    \* lines read and not yet written (of a log)
  order,     \* number of the next line of a log
  written,   \* rows written: [record, order]
  stage      \* open, rows, done, failed

recordVars == <<document, types, taken, buffer, order, written, stage>>

\* A record is [fields: column -> its JSON type, well: it has the shape its
\* kind asks for].
WellShaped(kind, record) == kind = "log" \/ record.well

RecordInit ==
  /\ document \in Documents
  /\ types = [c \in {} |-> "text"] /\ taken = 0 /\ buffer = <<>> /\ order = 1 /\ written = <<>>
  /\ stage = "open"

\* parse_json_bytes: what is not UTF-8 is read as Windows-1252.
Parses ==
  CASE document.kind = "log" -> document.text = "utf8"
    [] document.kind \in {"json", "geojson"} -> document.text # "broken"
    [] OTHER -> document.text = "utf8"

Records == document.records

\* read_json_document takes a record for a list of one; a package must have its
\* list of resources, and a feed its header.
Listed == document.kind \in {"package", "feed"} => document.list

\* infer_json_schema: a column of several types is text, and so is one without
\* values (normalize_null_fields, and ParquetOutput).  A package has columns of
\* its own, of text.
ColumnNames == UNION {DOMAIN Records[i].fields : i \in 1..Len(Records)}
FieldTypes(c) ==
  {Records[i].fields[c] : i \in {k \in 1..Len(Records) : c \in DOMAIN Records[k].fields}} \ {"null"}
TypeOf(c) ==
  IF document.kind # "package" /\ Cardinality(FieldTypes(c)) = 1
    THEN CHOOSE t \in FieldTypes(c) : TRUE ELSE "text"

\* Only the reader of plain JSON turns other values into text on the way, and
\* only scalars: a column with an object or a list has nothing else.
NestedTypes == {"object", "array"}
Decodes ==
  \A c \in ColumnNames :
    \/ Cardinality(FieldTypes(c)) <= 1
    \/ document.kind = "json" /\ FieldTypes(c) \cap NestedTypes = {}
    \/ document.kind \in {"package", "log"}

Readable ==
  Parses /\ Listed /\ Decodes /\ \A i \in 1..Len(Records) : WellShaped(document.kind, Records[i])

OpenDocument ==
  /\ stage = "open" /\ Readable
  /\ types' = [c \in ColumnNames |-> TypeOf(c)]
  /\ stage' = "rows"
  /\ UNCHANGED <<document, taken, buffer, order, written>>

RejectDocument ==
  /\ stage = "open" /\ ~Readable
  /\ stage' = "failed"
  /\ UNCHANGED <<document, types, taken, buffer, order, written>>

Rest(n) == IF n <= Len(Records) - taken THEN n ELSE Len(Records) - taken

\* ParquetOutput: batches follow each other.
Write(rows) == written' = written \o rows

\* chunks of records; GeoJSON and packages are decoded at once.
BatchOf(kind) == IF kind \in {"geojson", "package"} THEN Len(Records) ELSE RecordBatch
WriteRecords ==
  /\ stage = "rows" /\ document.kind # "log" /\ taken < Len(Records)
  /\ LET n == Rest(BatchOf(document.kind)) IN
       /\ Write([i \in 1..n |-> [record |-> taken + i, order |-> 0]])
       /\ taken' = taken + n
  /\ UNCHANGED <<document, types, buffer, order, stage>>

\* LogfileReader::read_batches: a full buffer is written; its lines are numbered
\* from order on.
ReadLine ==
  /\ stage = "rows" /\ document.kind = "log"
  /\ taken < Len(Records) /\ Len(buffer) < RecordBatch
  /\ buffer' = Append(buffer, taken + 1) /\ taken' = taken + 1
  /\ UNCHANGED <<document, types, order, written, stage>>

NumberedLines(lines, first) == [i \in 1..Len(lines) |-> [record |-> lines[i], order |-> first + i - 1]]

WriteLinesLate ==                                                     \* mutant
  /\ stage = "rows" /\ Len(buffer) = RecordBatch
  /\ order' = order + RecordBatch - 1
  /\ Write(NumberedLines(buffer, order)) /\ buffer' = <<>>
  /\ UNCHANGED <<document, types, taken, stage>>
WriteLines ==
  /\ stage = "rows" /\ Len(buffer) = RecordBatch
  /\ Write(NumberedLines(buffer, order)) /\ buffer' = <<>>
  /\ order' = order + RecordBatch
  /\ UNCHANGED <<document, types, taken, stage>>

\* The last lines, and "No data" for a document without records.
FinishRecords ==
  /\ stage = "rows" /\ taken = Len(Records) /\ Len(buffer) < RecordBatch
  /\ Write(NumberedLines(buffer, order)) /\ buffer' = <<>>
  /\ stage' = IF written' = <<>> THEN "failed" ELSE "done"
  /\ UNCHANGED <<document, types, taken, order>>

RecordNext ==
  OpenDocument \/ RejectDocument \/ WriteRecords \/ ReadLine \/ WriteLines \/ FinishRecords

RecordSpec == RecordInit /\ [][RecordNext]_recordVars
-----------------------------------------------------------------------------
(* Across batches a document gives one row per record, in order, and a log *)
(* one number per line, 1, 2, 3...; each value has the type of its column  *)
(* or is kept as text.                                                     *)
RecordsAreRows ==
  stage = "done" =>
    /\ Len(written) = Len(Records)
    /\ \A i \in 1..Len(written) : /\ written[i].record = i
                                /\ document.kind = "log" => written[i].order = i
    /\ \A i \in 1..Len(Records) : \A c \in DOMAIN Records[i].fields :
         Records[i].fields[c] \in {"null", types[c]} \/ types[c] = "text"
=============================================================================
