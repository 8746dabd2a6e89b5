----------------------------- MODULE MCReading -----------------------------
(***************************************************************************)
(* The readers and what they rest on, one part of them per behaviour: part *)
(* says which, and the variables of the others keep one initial value.     *)
(***************************************************************************)
EXTENDS SourceCopies, CsvReading, PageDiscovery, ArchiveVisit, ResourceReading,
        DatastoreReading, RecordReading, TableSchema, ObjectUploads

CONSTANTS w1, w2, h, z, u, d  \* two crawlers; an HTTP file, two archives, a Drive file

VARIABLES
  part,
  scope  \* sources the page may link to, and which may change

vars == <<part, scope, copiesVars, csvVars, pageVars, archiveVars, resourceVars, datastoreVars,
          recordVars, schemaVars, uploadVars>>

One(S) == {CHOOSE x \in S : TRUE}
If(condition, S) == IF condition THEN S ELSE One(S)

-----------------------------------------------------------------------------
Kind == [s \in {h, z, u, d} |-> CASE s = h -> "http" [] s = d -> "drive" [] OTHER -> "zip"]

\* A file with an overlong line and a short one; one with a preamble, a header
\* and lines of three lengths; one with a column that turns out to be text.
Num == "number"
Txt == "text"
SomeFiles ==
  {[lines |-> <<<<Txt, Txt>>, <<Num, Num>>, <<Num, Txt>>, <<Num, Num, Num>>, <<Num>>>>, preamble |-> 0],
   [lines |-> <<<<Txt>>, <<Txt, Txt>>, <<Num, Num>>, <<Txt, Num, Num>>, <<Num, Num, Num>>, <<Num, Num>>>>,
    preamble |-> 1],
   [lines |-> <<<<Num, Num>>, <<Num, Num>>, <<Txt, Num>>, <<Num, Txt>>>>, preamble |-> 0]}

\* Pages and folders in cycles, a page out of scope, one that is not there.
SomeLinks == {<<>>, <<"a">>, <<"b", "c">>, <<"c", "a", "root">>, <<"b", "out">>}
SomeSites ==
  {[pages |-> [root |-> r, a |-> a, b |-> b, out |-> <<"a">>], scope |-> {"root", "a", "b", "c"},
    files |-> [root |-> {"f"}, a |-> {"f", "g"}, b |-> {"h"}, out |-> {"o"}],
    drive |-> [root |-> <<>>, a |-> links, out |-> <<>>,
               b |-> <<[id |-> "i", folder |-> FALSE], [id |-> "G", folder |-> TRUE]>>],
    folders |-> [F |-> {"i", "G", "n"}, G |-> {"F", "j"}], wanted |-> {"i", "j"}] :
   r \in SomeLinks, a \in SomeLinks, b \in SomeLinks,
   links \in {<<>>, <<[id |-> "F", folder |-> FALSE]>>}}

Entry(kind, size, zip) == [kind |-> kind, size |-> size, zip |-> zip]
Directory == Entry("directory", 0, "none")
AFile == Entry("file", 1, "none")
Other == Entry("other", 2, "none")
Nested(a) == Entry("zip", 1, a)
SomeMembers ==
  [leaf |-> <<AFile, Other, AFile>>, empty |-> <<>>,
   mixed |-> <<Directory, AFile, Nested("leaf"), Nested("empty"), AFile>>,
   big |-> <<Nested("leaf"), Nested("mixed"), Nested("leaf")>>, deep |-> <<AFile, Nested("big")>>,
   wide |-> <<AFile, Other, Other, Other, Other>>, itself |-> <<AFile, Nested("itself")>>]

SomeResources ==
  [formats : {{}, {"CSV"}, {"JSON"}, {"PDF"}, {"PROTOBUF"}, {"LOG"}}, active : BOOLEAN, gz : BOOLEAN,
   package : BOOLEAN, child : BOOLEAN]

Rec(type) == [fields |-> [a |-> type], well |-> TRUE]
SomeRecords ==
  {<<>>, <<Rec("number")>>, <<Rec("null"), Rec("number"), Rec("text")>>,
   <<Rec("number"), [fields |-> [b |-> "null"], well |-> FALSE], Rec("number")>>,
   [i \in 1..7 |-> Rec("number")]}
NestedRecords == {<<Rec("object"), Rec("null"), Rec("object")>>, <<Rec("number"), Rec("array")>>}
SomeDocuments ==
  [kind : {"json"}, text : {"utf8"}, list : {TRUE}, records : NestedRecords] \cup
  {doc \in [kind : {"json", "geojson", "package", "feed", "log"}, text : {"utf8", "legacy", "broken"},
            list : BOOLEAN, records : SomeRecords] :
     doc.list \/ (Len(doc.records) = 1 /\ doc.kind # "geojson")}

SomeTexts ==
  [text \in {"a", "A", "b", "column", "__source_file", "url", "name", ""} |-> IF text = "A" THEN "a" ELSE text]
Column(text, type) == [name |-> Name(text), type |-> type]
Column2(text, type) == [name |-> Numbered(Name(text), "__", 2), type |-> type]
SomeHeaders ==
  {<<Column("a", "int"), Column("b", "null")>>,
   <<Column("a", "text")>>,
   <<Column("a", "int"), Column("A", "int"), Column2("a", "date")>>,
   <<Column("", "date"), Column("b", "int"), Column("", "int")>>,
   <<Column("__source_file", "int"), Column2("a", "int"), Column("a", "date"), Column("A", "date")>>}
SomeSources ==
  [header : SomeHeaders, geo : {Plain}] \cup
  [header : {<<Column("a", "int")>>}, geo : [form : {"geo"}, box : {1, 2}]] \cup
  [header : {<<Column("a", "int")>>}, geo : [form : {"other geo"}, box : {1}]]
SomeInputs ==
  [tabular : BOOLEAN, crawled : {FALSE}, sources : UNION {[1..k -> SomeSources] : k \in 1..3}] \cup
  [tabular : BOOLEAN, crawled : {TRUE},
   sources : [1..1 -> SomeSources \cup
                        [header : {<<Column("url", "text"), Column("name", "text")>>}, geo : {Plain}]]]

\* A file sent in one piece, and one sent in two.
SomeParts == [content \in 0..1 |-> IF content = 0 THEN 2 ELSE 1]

-----------------------------------------------------------------------------
Init ==
  /\ part \in {"copies", "csv", "pages", "archive", "resource", "datastore", "records", "schema",
             "uploads"}
  /\ scope \in IF part = "copies" THEN {{s} : s \in Sources} ELSE {{}}
  /\ page \in [links : SUBSET scope, modified : {0}]
  /\ file \in If(part = "csv", Files)
  /\ site \in If(part = "pages", Sites)
  /\ archive \in If(part = "archive", Archives)
  /\ res \in If(part = "resource", Resources)
  /\ gone \in If(part = "resource", BOOLEAN)
  /\ cap \in If(part = "datastore", ServerCaps)
  /\ document \in If(part = "records", Documents)
  /\ input \in If(part = "schema", Inputs)
  /\ key \in If(part = "uploads", DOMAIN KindsOf)
  /\ CopiesInit /\ CsvInit /\ DiscoveryInit /\ ArchiveInit /\ ResourceInit /\ DatastoreInit
  /\ RecordInit /\ SchemaInit /\ UploadsInit

Copies ==
  /\ part = "copies" /\ CopiesNext
  /\ page'.links \subseteq scope /\ \A s \in Sources \ scope : changes'[s] = changes[s]
  /\ UNCHANGED <<part, scope, csvVars, pageVars, archiveVars, resourceVars, datastoreVars,
                 recordVars, schemaVars, uploadVars>>
Csv ==
  /\ part = "csv" /\ CsvNext
  /\ UNCHANGED <<part, scope, copiesVars, pageVars, archiveVars, resourceVars, datastoreVars,
                 recordVars, schemaVars, uploadVars>>
Pages ==
  /\ part = "pages" /\ DiscoveryNext
  /\ UNCHANGED <<part, scope, copiesVars, csvVars, archiveVars, resourceVars, datastoreVars,
                 recordVars, schemaVars, uploadVars>>
Archived ==
  /\ part = "archive" /\ ArchiveNext
  /\ UNCHANGED <<part, scope, copiesVars, csvVars, pageVars, resourceVars, datastoreVars,
                 recordVars, schemaVars, uploadVars>>
Resource ==
  /\ part = "resource" /\ ResourceNext
  /\ UNCHANGED <<part, scope, copiesVars, csvVars, pageVars, archiveVars, datastoreVars,
                 recordVars, schemaVars, uploadVars>>
Datastore ==
  /\ part = "datastore" /\ DatastoreNext
  /\ UNCHANGED <<part, scope, copiesVars, csvVars, pageVars, archiveVars, resourceVars,
                 recordVars, schemaVars, uploadVars>>
Recorded ==
  /\ part = "records" /\ RecordNext
  /\ UNCHANGED <<part, scope, copiesVars, csvVars, pageVars, archiveVars, resourceVars,
                 datastoreVars, schemaVars, uploadVars>>
Schema ==
  /\ part = "schema" /\ SchemaNext
  /\ UNCHANGED <<part, scope, copiesVars, csvVars, pageVars, archiveVars, resourceVars,
                 datastoreVars, recordVars, uploadVars>>
Uploads ==
  /\ part = "uploads" /\ UploadsNext
  /\ UNCHANGED <<part, scope, copiesVars, csvVars, pageVars, archiveVars, resourceVars,
                 datastoreVars, recordVars, schemaVars>>

Next == Copies \/ Csv \/ Pages \/ Archived \/ Resource \/ Datastore \/ Recorded \/ Schema \/ Uploads

Spec == Init /\ [][Next]_vars /\ WF_vars(Csv) /\ WF_vars(Pages)
-----------------------------------------------------------------------------
(* Every read of a CSV file ends, and no repaired copy stays behind.       *)
CsvReadEnds == part = "csv" => ReadEnds

(* Every discovery ends, though pages and folders link to each other.      *)
PageDiscoveryEnds == part = "pages" => DiscoveryEnds
=============================================================================
