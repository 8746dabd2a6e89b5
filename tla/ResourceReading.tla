-------------------------- MODULE ResourceReading --------------------------
(***************************************************************************)
(* run_conversion: one job's resource is read by MultipleReader, which     *)
(* tries the readers that take its format in a fixed order until one gives *)
(* rows or finds the file gone, and the job's result is built.  The file   *)
(* may go and come back while the readers take their turns.                *)
(***************************************************************************)
EXTENDS Integers, Sequences

CONSTANTS
  Resources,  \* resources explored: [formats, active, gz, package, child]
  Formats     \* formats a HEAD may infer for a resource that has none

ASSUME ResourceAssumption ==
  /\ Resources \subseteq [formats : SUBSET STRING, active : BOOLEAN, gz : BOOLEAN, package : BOOLEAN,
                          child : BOOLEAN]
  /\ Formats \subseteq STRING

VARIABLES
  res,       \* formats: set of the format tokens its format contains, empty if
             \* blank; active: in the datastore; gz and package: its URL ends
             \* with .gz, with datapackage.json; child: it is the job of a child
  gone,      \* the file at its URL answers 404: the origin's file, or for a child the
             \* copy the crawler made of it
  turn,      \* the reader whose turn it is, by its place in the order
  failures,  \* readers that failed, in order
  status,    \* HTTP status of the last failure, or NoStatus
  step,      \* begin, read, upload, done
  answer,    \* the outcome of the job; of kind NONE until there is one
  absent     \* auxiliary: a reader that looks for the file at that URL found it gone

resourceVars == <<res, gone, turn, failures, status, step, answer, absent>>

NoStatus == "none"
Order == <<"Datastore", "Csv", "Datapackage", "Json", "Protobuf", "Logfile", "FileReference", "Crawler">>

FileFormats == {"DOCX", "MAP", "PDF", "TAB", "TIFF"}
Supported == [Datastore |-> {"CSV", "JSON"}, Csv |-> {"CSV"}, Datapackage |-> {"JSON"}, Json |-> {"JSON"},
              Protobuf |-> {"PROTOBUF"}, Logfile |-> {"LOG"}, FileReference |-> FileFormats \cup {"HTML"},
              Crawler |-> {"CSV", "JSON"} \cup FileFormats]
CanRead(reader) ==
  CASE reader = "Datastore" -> res.formats \cap Supported[reader] # {} /\ res.active /\ ~res.gz
    [] reader = "Datapackage" -> res.package
    [] OTHER -> res.formats \cap Supported[reader] # {}

\* A message with the job's status; what is not listed it does not tell.
Message(kind) == [kind |-> kind, child |-> FALSE, version |-> FALSE, artifact |-> FALSE, http |-> NoStatus]

ResourceInit ==
  /\ res \in Resources
  /\ gone \in BOOLEAN
  /\ turn = 1 /\ failures = <<>> /\ status = NoStatus /\ step = "begin" /\ absent = FALSE
  /\ answer = Message("NONE")

FileChanges ==
  /\ step \in {"begin", "read"} /\ gone' = ~gone
  /\ UNCHANGED <<res, turn, failures, status, step, answer, absent>>

-----------------------------------------------------------------------------
(* The messages built from an outcome.                                     *)

\* copy_child_context: a result of a child says whose child it is.
ForgetContext(message) == [message EXCEPT !.child = FALSE]            \* mutant
WithContext(message) == [message EXCEPT !.child = res.child]

Cached == WithContext([Message("SUCCESS") EXCEPT !.version = TRUE])
Succeeded == WithContext([Message("SUCCESS") EXCEPT !.version = TRUE, !.artifact = TRUE])
FailedJob == WithContext([Message("FAILED") EXCEPT !.version = TRUE])
Failed == WithContext([Message("FAILED") EXCEPT !.http = status])
DeletedResult(message) == WithContext(message)
Deleted == DeletedResult(Message("DELETED"))
Children == Message("CHILDREN")

Answer(message) == answer' = message /\ step' = "done"

\* A job that is no child's is answered from its Parquet file, if it is there.
Begin ==
  /\ step = "begin"
  /\ \/ ~res.child /\ Answer(Cached) /\ UNCHANGED res
     \/ ~res.child /\ Answer(FailedJob) /\ UNCHANGED res     \* storage does not answer
     \/ /\ step' = "read" /\ UNCHANGED answer
        /\ \/ UNCHANGED res
           \* resolved_resource: a HEAD may tell the format of a resource that has none
           \/ res.formats = {} /\ ~gone /\ \E f \in Formats : res' = [res EXCEPT !.formats = {f}]
  /\ UNCHANGED <<gone, turn, failures, status, absent>>

-----------------------------------------------------------------------------
(* What a reader makes of the file: rows, an error, an error with an HTTP  *)
(* status, or "404".  To the datastore, to a reference and to the crawler a*)
(* missing file is an error like another.                                  *)
Downloaders == {"Csv", "Datapackage", "Json", "Protobuf", "Logfile"}

DatastoreSaysGone(reader) ==                                          \* mutant
  IF reader = "Datastore" THEN {"rows", "error", "404"}
  ELSE IF gone THEN (IF reader \in Downloaders THEN {"404"} ELSE {"error"})
  ELSE {"rows", "error"} \cup (IF reader \in Downloaders THEN {"503"} ELSE {})
Attempts(reader) ==
  IF reader = "Datastore" THEN {"rows", "error"}
  ELSE IF gone THEN (IF reader \in Downloaders THEN {"404"} ELSE {"error"})
  ELSE {"rows", "error"} \cup (IF reader \in Downloaders THEN {"503"} ELSE {})

Reader == Order[turn]

\* The datastore is asked about the resource, not for its file.
Looked == gone /\ Reader # "Datastore"

NextTurn ==
  /\ step = "read" /\ turn <= Len(Order) /\ ~CanRead(Reader)
  /\ turn' = turn + 1
  /\ UNCHANGED <<res, gone, failures, status, step, answer, absent>>

\* CkanReader::read makes an output without rows an error.
ReaderFails ==
  /\ step = "read" /\ turn <= Len(Order) /\ CanRead(Reader)
  /\ \E result \in Attempts(Reader) \ {"rows", "404"} :
       status' = IF result = "503" THEN "503" ELSE NoStatus
  /\ turn' = turn + 1 /\ failures' = Append(failures, Reader)
  /\ absent' = (absent \/ Looked)
  /\ UNCHANGED <<res, gone, step, answer>>

ReaderSucceeds ==
  /\ step = "read" /\ turn <= Len(Order) /\ CanRead(Reader) /\ "rows" \in Attempts(Reader)
  /\ step' = "upload"
  /\ UNCHANGED <<res, gone, turn, failures, status, answer, absent>>

\* crawl_delegated: more than one source becomes a job each; a child's file is
\* no page.
CrawlerFansOut ==
  /\ step = "read" /\ turn <= Len(Order) /\ CanRead(Reader) /\ Reader = "Crawler"
  /\ ~gone /\ ~res.child
  /\ Answer(Children)
  /\ UNCHANGED <<res, gone, turn, failures, status, absent>>

FileIsGone ==
  /\ step = "read" /\ turn <= Len(Order) /\ CanRead(Reader) /\ "404" \in Attempts(Reader)
  /\ failures' = Append(failures, Reader)
  /\ absent' = (absent \/ Looked)
  /\ Answer(Deleted)
  /\ UNCHANGED <<res, gone, turn, status>>

\* The last failure is reported, or that no reader takes the format.
AllFailed ==
  /\ step = "read" /\ turn > Len(Order)
  /\ Answer(Failed)
  /\ UNCHANGED <<res, gone, turn, failures, status, absent>>

Upload ==
  /\ step = "upload"
  /\ Answer(Succeeded) \/ Answer(FailedJob)
  /\ UNCHANGED <<res, gone, turn, failures, status, absent>>

\* The blocking task panics: the reader's, or the upload's.
Panic ==
  /\ step \in {"read", "upload"} /\ Answer(FailedJob)
  /\ UNCHANGED <<res, gone, turn, failures, status, absent>>

ResourceNext ==
  \/ FileChanges \/ Begin \/ NextTurn \/ ReaderFails \/ ReaderSucceeds \/ CrawlerFansOut
  \/ FileIsGone \/ AllFailed \/ Upload \/ Panic

ResourceSpec == ResourceInit /\ [][ResourceNext]_resourceVars
-----------------------------------------------------------------------------
(* A job is answered with DELETED only if a reader found the file at the   *)
(* URL of its message gone, not because the datastore does not know the    *)
(* resource, which only means that the file is to be read instead.  For a  *)
(* resource of CKAN that is the origin's file; for a child it is the copy  *)
(* made by the crawler, and a child whose copy is missing is DELETED       *)
(* whether or not its origin is still there.                               *)
DeletedOnlyIfGone == answer.kind = "DELETED" => absent

(* The answer for a child names its parent, whatever became of it: the     *)
(* coordinator counts children by it, and would wait for one forever.      *)
ChildrenReportToParent ==
  answer.kind \notin {"NONE", "CHILDREN"} => answer.child = res.child
=============================================================================
