---------------------------- MODULE TableSchema ----------------------------
(***************************************************************************)
(* One table from the files of several sources: normalize_children of the  *)
(* coordinator and AggregateWriter of the crawler take the union of their  *)
(* columns, and rewrite each file with it; ParquetOutput names the columns *)
(* of every file written.                                                  *)
(*                                                                         *)
(* A name is a text and the numbers put behind it, as in a__2 or column_1, *)
(* a text never ending with a separator and a number; texts that differ in *)
(* case only have the same LowerCase.                                      *)
(***************************************************************************)
EXTENDS Integers, Sequences, FiniteSets, SequencesExt

CONSTANTS
  Inputs,     \* the inputs explored: [tabular, crawled, sources]: whether the
              \* resource is CSV or JSON, and whether the crawler merges
  LowerCase,  \* text -> its lower case, for every text
  Missing     \* the value of a column the file has not

Names == [text : DOMAIN LowerCase, numbers : Seq({"_", "__"} \X Nat)]
Headers == Seq([name : Names, type : STRING])

\* Every file has a list of columns, whatever their names.
ASSUME TextsAssumption == {"", "column", "__source_file"} \subseteq DOMAIN LowerCase
ASSUME InputsAssumption ==
  \A i \in Inputs :
    /\ i.sources \in Seq(ToSet(i.sources))
    /\ \A s \in ToSet(i.sources) : s.header \in Headers

VARIABLES
  input,      \* a source is [header: sequence of [name, type], geo], its geo
              \* metadata being [form, box], Plain if it has none
  merged,     \* name -> type: the union so far
  at,         \* the source being read
  geo,        \* the geo metadata of the sources read so far, or Missing: none read
  columns,    \* the columns of the table, [name, type], in order
  files,      \* files written: [names, cells]
  merging     \* schema, write, done, failed

schemaVars == <<input, merged, at, geo, columns, files, merging>>

Name(text) == [text |-> text, numbers |-> <<>>]
Numbered(name, separator, k) == [name EXCEPT !.numbers = Append(@, <<separator, k>>)]
Lowered(name) == [name EXCEPT !.text = LowerCase[@]]

-----------------------------------------------------------------------------
(* schema_with_field_ids: blank names are replaced, and names that differ  *)
(* from an earlier one in nothing or in case get a number.  Fields within a*)
(* struct are named alike.                                                 *)

FirstFree(base, from, used) ==
  LET free(k) == Lowered(Numbered(base, "__", k)) \notin used IN
  Numbered(base, "__", CHOOSE k \in from..(from + Cardinality(used)) :
                   free(k) /\ \A l \in from..(k - 1) : ~free(l))

Unused(name, index, used) ==
  LET base == IF name = Name("") THEN Numbered(Name("column"), "_", index) ELSE name IN
  IF Lowered(base) \in used THEN FirstFree(base, 2, used) ELSE base

NamesUsedExactly(names) == {names[i] : i \in 1..Len(names)}           \* mutant
NamesUsed(names) == {Lowered(names[i]) : i \in 1..Len(names)}

Named(names) ==
  LET upTo[i \in 0..Len(names)] ==
        IF i = 0 THEN <<>>
        ELSE LET before == upTo[i - 1] IN Append(before, Unused(names[i], i, NamesUsed(before)))
  IN upTo[Len(names)]

\* The header a reader's file has: an empty column is text.
Written(header) ==
  LET names == Named([i \in 1..Len(header) |-> header[i].name]) IN
  [i \in 1..Len(header) |->
     [name |-> names[i], type |-> IF header[i].type = "null" THEN "text" ELSE header[i].type]]

-----------------------------------------------------------------------------
Source == input.sources[at]
Fields == Written(Source.header)
NameSet(header) == {header[i].name : i \in 1..Len(header)}
TypeIn(header, name) == header[CHOOSE i \in 1..Len(header) : header[i].name = name].type

SchemaInit ==
  /\ input \in Inputs
  /\ merged = [n \in {} |-> "text"] /\ at = 1 /\ geo = Missing
  /\ columns = <<>> /\ files = <<>> /\ merging = "schema"

\* A column two sources disagree on is text.
JoinedTypeLast(earlier, later) == later                               \* mutant
JoinedType(earlier, later) == IF earlier = later THEN earlier ELSE "text"

AddFields ==
  /\ merging = "schema" /\ at <= Len(input.sources)
  /\ merged' = [n \in DOMAIN merged \cup NameSet(Fields) |->
       IF n \notin NameSet(Fields) THEN merged[n]
       ELSE LET type == TypeIn(Fields, n) IN
            IF n \in DOMAIN merged THEN JoinedType(merged[n], type) ELSE type]
  /\ at' = at + 1
  /\ UNCHANGED <<input, geo, columns, files, merging>>

\* A table of CSV or JSON files has a column for the file a row is from.
SourceColumn ==
  IF Name("__source_file") \notin DOMAIN merged THEN Name("__source_file")
  ELSE LET taken(k) == Numbered(Name("__source_file"), "_", k) \in DOMAIN merged IN
       Numbered(Name("__source_file"), "_",
                CHOOSE k \in 1..(Cardinality(DOMAIN merged) + 1) :
                  ~taken(k) /\ \A l \in 1..(k - 1) : taken(l))

\* The columns in the order of the map, whichever that is.
Ordered(names) ==
  LET listed[k \in 0..Cardinality(names)] ==
        IF k = 0 THEN <<>>
        ELSE LET before == listed[k - 1]
                 rest == names \ ToSet(before)
             IN IF rest = {} THEN before ELSE Append(before, CHOOSE n \in rest : TRUE)
  IN listed[Cardinality(names)]
BuildTable ==
  /\ merging = "schema" /\ at > Len(input.sources)
  /\ columns' = LET names == Ordered(DOMAIN merged) IN
       [i \in 1..Len(names) |-> [name |-> names[i], type |-> merged[names[i]]]]
         \o (IF input.tabular THEN <<[name |-> SourceColumn, type |-> "text"]>> ELSE <<>>)
  /\ at' = 1 /\ merging' = "write"
  /\ UNCHANGED <<input, merged, geo, files>>

\* normalize_geo_metadata: the box around the data is of no account.
NoBox == 0
Plain == [form |-> "plain", box |-> NoBox]
NormalizedGeo == [Source.geo EXCEPT !.box = NoBox]

\* GeoParquet files are combined with their like only.
Combines == geo \in {Missing, NormalizedGeo}

\* The crawler's table of documents names each by the file it is from.
ReplacesName(column) == input.crawled /\ ~input.tabular /\ column.name = Name("name")

\* convert: a value is left as it is, or becomes text.
CellOf(column) ==
  IF ReplacesName(column) \/ (input.tabular /\ column.name = columns[Len(columns)].name)
    THEN "source"
  ELSE IF column.name \in NameSet(Fields) THEN column.type ELSE Missing

Output ==
  [names |-> Named([i \in 1..Len(columns) |-> columns[i].name]),
   cells |-> [i \in 1..Len(columns) |-> CellOf(columns[i])]]

WriteFile ==
  /\ merging = "write" /\ at <= Len(input.sources) /\ Combines /\ ~input.crawled
  /\ geo' = NormalizedGeo
  /\ files' = Append(files, Output)
  /\ at' = at + 1
  /\ UNCHANGED <<input, merged, columns, merging>>

AppendSource ==
  /\ merging = "write" /\ at <= Len(input.sources) /\ Combines /\ input.crawled
  /\ geo' = NormalizedGeo
  /\ files' = Append(files, Output)
  /\ at' = at + 1
  /\ UNCHANGED <<input, merged, columns, merging>>

MergeFails ==
  /\ merging = "write" /\ at <= Len(input.sources)
  /\ merging' = "failed"
  /\ UNCHANGED <<input, merged, at, geo, columns, files>>

FinishTable ==
  /\ merging = "write" /\ at > Len(input.sources)
  /\ merging' = "done"
  /\ UNCHANGED <<input, merged, at, geo, columns, files>>

SchemaNext == AddFields \/ BuildTable \/ WriteFile \/ AppendSource \/ MergeFails \/ FinishTable

SchemaSpec == SchemaInit /\ [][SchemaNext]_schemaVars
-----------------------------------------------------------------------------
(* No two columns of a file have names that differ in case only, whatever  *)
(* names its header has and whatever numbers they end with: SQL could not  *)
(* tell them apart.  So it is for the files read, and for those written    *)
(* with the columns of all of them.                                        *)
Distinct(names) ==
  \A j, k \in 1..Len(names) : Lowered(names[j]) = Lowered(names[k]) => j = k
NamesAreDistinct ==
  /\ \A i \in 1..Len(input.sources) :
       LET header == Written(input.sources[i].header) IN
       Distinct([j \in 1..Len(header) |-> header[j].name])
  /\ \A i \in 1..Len(files) : Distinct(files[i].names)

(* Every value of every source fits its column, as it is or as text, and   *)
(* the columns depend on the set of sources only, not on the order in which*)
(* they come: text if and only if some source says so or two differ.  No   *)
(* column of a source is missing, and no source.  The names of documents   *)
(* the crawler replaces on purpose.                                        *)
TypesOf(name) ==
  {TypeIn(Written(s.header), name) :
     s \in {t \in ToSet(input.sources) : name \in NameSet(Written(t.header))}}
TableIsUnion ==
  /\ merging \in {"write", "done"} =>
       /\ DOMAIN merged = UNION {NameSet(Written(s.header)) : s \in ToSet(input.sources)}
       /\ DOMAIN merged \subseteq NameSet(columns)
       /\ \A n \in DOMAIN merged :
            merged[n] = IF Cardinality(TypesOf(n)) = 1 THEN CHOOSE t \in TypesOf(n) : TRUE ELSE "text"
       /\ \A i \in 1..Len(files) : \A k \in 1..Len(columns) :
            columns[k].name \in NameSet(Written(input.sources[i].header)) /\ ~ReplacesName(columns[k])
              => files[i].cells[k] = merged[columns[k].name]
  /\ merging = "done" => Len(files) = Len(input.sources)
=============================================================================
