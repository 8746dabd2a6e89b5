-------------------------- MODULE DatastoreReading --------------------------
(***************************************************************************)
(* DatastoreReader: the rows and columns of a CKAN datastore are counted,  *)
(* then its rows are fetched in pages until one is empty, while publishers *)
(* may add and delete rows.                                                *)
(***************************************************************************)
EXTENDS Integers, Sequences, FiniteSets

CONSTANTS
  Initial,   \* rows of the datastore at first: 1..Initial
  MaxRows,   \* bound: rows ever inserted are 1..MaxRows
  PageSize,  \* MAX_RECORDS_FETCH
  ServerCaps \* rows a server returns at most

ASSUME DatastoreAssumption ==
  /\ Initial \in Nat /\ MaxRows \in Nat /\ Initial <= MaxRows
  /\ PageSize \in Nat \ {0} /\ ServerCaps \subseteq Nat \ {0}

VARIABLES
  cap,       \* what this server returns at most
  datastore, \* the rows, in the order the server returns them
  inserted,  \* rows ever inserted are 1..inserted
  expected,  \* rows counted before the first page
  offset,
  output,    \* rows of the Parquet file
  fetching,  \* count, page, done, failed
  grew,      \* auxiliary: a row was inserted after the count
  start      \* auxiliary: the datastore when it was counted

datastoreVars == <<cap, datastore, inserted, expected, offset, output, fetching, grew, start>>

Lesser(a, b) == IF a <= b THEN a ELSE b

DatastoreInit ==
  /\ cap \in ServerCaps
  /\ datastore = [i \in 1..Initial |-> i] /\ inserted = Initial
  /\ expected = 0 /\ offset = 0 /\ output = <<>> /\ fetching = "count" /\ grew = FALSE /\ start = <<>>

InsertRow ==
  /\ inserted < MaxRows /\ fetching = "page"
  /\ inserted' = inserted + 1 /\ datastore' = Append(datastore, inserted + 1) /\ grew' = TRUE
  /\ UNCHANGED <<cap, expected, offset, output, fetching, start>>

DeleteRow ==
  /\ fetching = "page"
  /\ \E i \in 1..Len(datastore) :
       datastore' = [k \in 1..(Len(datastore) - 1) |-> IF k < i THEN datastore[k] ELSE datastore[k + 1]]
  /\ UNCHANGED <<cap, inserted, expected, offset, output, fetching, grew, start>>

\* get_row_and_column_count
CountRows ==
  /\ fetching = "count"
  /\ expected' = Len(datastore) /\ start' = datastore /\ fetching' = "page"
  /\ UNCHANGED <<cap, datastore, inserted, offset, output, grew>>

Page == SubSeq(datastore, offset + 1, Lesser(Len(datastore), offset + Lesser(PageSize, cap)))

FetchPage ==
  /\ fetching = "page" /\ Page # <<>>
  /\ output' = output \o Page /\ offset' = offset + PageSize /\ UNCHANGED expected
  /\ UNCHANGED <<cap, datastore, inserted, fetching, grew, start>>

\* An output without rows is an error to CkanReader::read.
FetchLastPageRecount ==                                              \* mutant
  /\ fetching = "page" /\ Page = <<>>
  /\ fetching' = IF output = <<>> THEN "failed" ELSE "done"
  /\ expected' = Len(datastore)
  /\ UNCHANGED <<cap, datastore, inserted, offset, output, grew, start>>
FetchLastPage ==
  /\ fetching = "page" /\ Page = <<>>
  /\ fetching' = IF output = <<>> THEN "failed" ELSE "done"
  /\ UNCHANGED <<cap, datastore, inserted, expected, offset, output, grew, start>>

FetchFails ==
  /\ fetching \in {"count", "page"} /\ fetching' = "failed"
  /\ UNCHANGED <<cap, datastore, inserted, expected, offset, output, grew, start>>

DatastoreNext ==
  InsertRow \/ DeleteRow \/ CountRows \/ FetchPage \/ FetchLastPage \/ FetchFails

DatastoreSpec == DatastoreInit /\ [][DatastoreNext]_datastoreVars
-----------------------------------------------------------------------------
RowsOf(s) == {s[i] : i \in 1..Len(s)}

(* Rows may be deleted while they are fetched, and a server may return     *)
(* fewer than it is asked for: no row is taken twice, and if one of those  *)
(* counted is missing, the numbers of rows counted and taken differ, which *)
(* labels the dataset as mismatched.  Only insertions can hide a gap.      *)
IncompleteIsMismatched ==
  /\ Cardinality(RowsOf(output)) = Len(output)
  /\ fetching = "done" /\ ~grew /\ RowsOf(output) # RowsOf(start) => Len(output) # expected
=============================================================================
