--------------------------- MODULE ObjectUploads ---------------------------
(***************************************************************************)
(* One object in S3 and the workers that write it: a document kept by      *)
(* S3DocumentIngestor for FileReferenceReader or for a Drive file, the     *)
(* Parquet file ParquetUploader stores for a version of a resource, or the *)
(* file the coordinator writes for a child of a page.  The source changes  *)
(* while they work; its contents are named by the time of the change,      *)
(* which is also the modification time it reports.                         *)
(***************************************************************************)
EXTENDS Integers, Sequences

CONSTANTS
  Writers,     \* workers that may write the object at once
  PartsOf,     \* content -> buffers its file has
  SinglePart,  \* SINGLE_PART_UPLOAD_MAX_BYTES, in buffers
  MaxTries,    \* MULTIPART_UPLOAD_ATTEMPTS
  MaxChanges,  \* bound: changes of the source
  NoObject,    \* nothing is stored
  Undated      \* the source reports no modification time

ASSUME UploadsAssumption ==
  /\ MaxChanges \in Nat /\ MaxTries \in Nat \ {0} /\ SinglePart \in Nat
  /\ PartsOf \in [0..MaxChanges -> Nat \ {0}]
  /\ Undated \notin Int
  /\ NoObject \notin [content : Nat, data : Seq(Nat \X Nat), at : Nat, late : BOOLEAN]

VARIABLES
  key,     \* which object: document, drive, parquet, merged
  now,     \* the source's latest change, and the clock
  object,  \* [content, data, at, late] or NoObject; content and late (auxiliary):
           \* what was uploaded, and that the source had changed by then
  writer   \* per worker: its step and what it has at hand

uploadVars == <<key, now, object, writer>>

\* The keys of documents carry no version, those of the lake do.
KindsOf ==
  [document |-> {"remote", "local", "crawled"}, drive |-> {"drive"},
   parquet |-> {"parquet"}, merged |-> {"merged"}]
Kinds == UNION {KindsOf[k] : k \in DOMAIN KindsOf}

File(content) == [i \in 1..PartsOf[content] |-> <<content, i>>]
Multipart(content) == PartsOf[content] >= SinglePart

Resting == [step |-> "idle", kind |-> "crawled", modified |-> Undated, staged |-> 0,
            position |-> 0, sent |-> <<>>, tries |-> 0]

UploadsInit ==
  /\ key \in DOMAIN KindsOf
  /\ now = 0 /\ object = NoObject /\ writer = [w \in Writers |-> Resting]

SourceChanges ==
  /\ now < MaxChanges
  /\ now' = now + 1
  /\ UNCHANGED <<key, object, writer>>

Goes(w, step) == writer' = [writer EXCEPT ![w].step = step]
AtRest(w) == writer[w].step \in {"idle", "answered", "failed"}

-----------------------------------------------------------------------------
(* What comes before an upload.                                            *)

\* A file the crawler has copied is referred to as it is; a file on the disk
\* and a Drive file may be there already; a page or document on the web is
\* fetched in any case, and the coordinator's file is made anew.
StartWrite(w) ==
  /\ AtRest(w)
  /\ \E kind \in KindsOf[key], modified \in {Undated} \cup 0..now :
       /\ kind = "drive" => modified # Undated
       /\ kind \in {"parquet", "merged"} => modified = 0
       /\ writer' = [writer EXCEPT ![w] = [Resting EXCEPT
            !.kind = kind, !.modified = modified, !.staged = now,
            !.step = CASE kind = "crawled" -> "answered"
                       [] kind \in {"local", "drive", "parquet"} -> "check"
                       [] OTHER -> "stage"]]
  /\ UNCHANGED <<key, now, object>>

\* current_url_for_path: stored no earlier than the source was modified.
UpToDate(w) ==
  object # NoObject /\ writer[w].modified # Undated /\ writer[w].modified <= object.at

CheckDocument(w) ==
  /\ writer[w].step = "check" /\ writer[w].kind = "local"
  /\ \/ UpToDate(w) /\ Goes(w, "answered")
     \/ ~UpToDate(w) /\ Goes(w, "upload")
     \/ writer[w].modified # Undated /\ Goes(w, "failed")  \* HEAD failed
  /\ UNCHANGED <<key, now, object>>

\* ingest_drive_file: a Drive file is downloaded only if it is not there.
CheckDrive(w) ==
  /\ writer[w].step = "check" /\ writer[w].kind = "drive"
  /\ \/ UpToDate(w) /\ Goes(w, "answered")
     \/ ~UpToDate(w) /\ Goes(w, "stage")
     \/ Goes(w, "failed")
  /\ UNCHANGED <<key, now, object>>

\* ParquetUploader.exists: a stored version is taken for done.
CheckParquet(w) ==
  /\ writer[w].step = "check" /\ writer[w].kind = "parquet"
  /\ \/ object # NoObject /\ Goes(w, "answered")
     \/ object = NoObject /\ Goes(w, "stage")
     \/ Goes(w, "failed")
  /\ UNCHANGED <<key, now, object>>

\* The source is copied to the disk, or converted; it may refuse, or send a
\* page of HTML.
Stage(w) ==
  /\ writer[w].step = "stage" /\ writer[w].kind # "merged"
  /\ \/ writer' = [writer EXCEPT ![w].step = "upload", ![w].staged = now]
     \/ Goes(w, "failed")
  /\ UNCHANGED <<key, now, object>>

\* The file of a child is at a key of its own version and does not change.
DownloadChild(w) ==
  /\ writer[w].step = "stage" /\ writer[w].kind = "merged"
  /\ Goes(w, "upload") \/ Goes(w, "failed")
  /\ UNCHANGED <<key, now, object>>

-----------------------------------------------------------------------------
(* The upload.  Nothing shows of one in parts before it is finished; when  *)
(* it fails it is aborted or left behind, or has been finished after all.  *)

Put(w, data) ==
  object' = [content |-> writer[w].staged, data |-> data, at |-> now,
             late |-> writer[w].staged # now]

NextPart(w) ==
  /\ writer[w].position < PartsOf[writer[w].staged]
  /\ writer' = [writer EXCEPT ![w].position = @ + 1,
                  ![w].sent = Append(@, File(writer[w].staged)[writer[w].position + 1])]
  /\ UNCHANGED object
SentAll(w) == writer[w].position = PartsOf[writer[w].staged] /\ Put(w, writer[w].sent)

\* retry_operation: each try reads the file from its start.
TryAgainFromHere(w) ==                                                   \* mutant
  writer' = [writer EXCEPT ![w].tries = @ + 1, ![w].sent = <<>>,
               ![w].step = IF writer[w].tries + 1 = MaxTries THEN "failed" ELSE "upload"]
TryAgain(w) ==
  writer' = [writer EXCEPT ![w].tries = @ + 1, ![w].sent = <<>>, ![w].position = 0,
               ![w].step = IF writer[w].tries + 1 = MaxTries THEN "failed" ELSE "upload"]

Document(w) == writer[w].kind \in {"remote", "local", "drive"}

PutWhole(w) ==
  /\ writer[w].step = "upload" /\ Document(w) /\ ~Multipart(writer[w].staged)
  /\ \/ Put(w, File(writer[w].staged)) /\ Goes(w, "answered")
     \/ TryAgain(w) /\ (UNCHANGED object \/ Put(w, File(writer[w].staged)))
  /\ UNCHANGED <<key, now>>

PutInParts(w) ==
  /\ writer[w].step = "upload" /\ Document(w) /\ Multipart(writer[w].staged)
  /\ \/ NextPart(w)
     \/ SentAll(w) /\ Goes(w, "answered")
     \/ TryAgain(w) /\ (UNCHANGED object \/ SentAll(w))
  /\ UNCHANGED <<key, now>>

\* A file of the lake is sent once.
UploadOnce(w) ==
  /\ \/ NextPart(w)
     \/ SentAll(w) /\ Goes(w, "answered")
     \/ Goes(w, "failed") /\ (UNCHANGED object \/ SentAll(w))
  /\ UNCHANGED <<key, now>>
UploadParquet(w) == writer[w].step = "upload" /\ writer[w].kind = "parquet" /\ UploadOnce(w)
UploadMerged(w) == writer[w].step = "upload" /\ writer[w].kind = "merged" /\ UploadOnce(w)

\* The worker dies, or cannot read what it has staged.
GiveUp(w) ==
  /\ ~AtRest(w)
  /\ Goes(w, "failed")
  /\ UNCHANGED <<key, now, object>>

UploadsNext ==
  \/ SourceChanges
  \/ \E w \in Writers :
       \/ StartWrite(w) \/ CheckDocument(w) \/ CheckDrive(w) \/ CheckParquet(w)
       \/ Stage(w) \/ DownloadChild(w)
       \/ PutWhole(w) \/ PutInParts(w) \/ UploadParquet(w) \/ UploadMerged(w) \/ GiveUp(w)

UploadsSpec == UploadsInit /\ [][UploadsNext]_uploadVars
-----------------------------------------------------------------------------
(* What is stored is one whole file, however many tries it took and        *)
(* whoever else wrote it.                                                  *)
ObjectIsWhole ==
  object # NoObject => object.content \in 0..now /\ object.data = File(object.content)

(* A worker that answered has its object in storage, and what it holds is  *)
(* no older than the modification the worker was told of, except for an    *)
(* upload whose source changed on the way: the time of the upload is then  *)
(* later than its content.                                                 *)
AnswerIsBacked ==
  \A w \in Writers : writer[w].step = "answered" /\ writer[w].kind # "crawled" =>
    /\ object # NoObject
    /\ writer[w].modified # Undated => object.content >= writer[w].modified \/ object.late

(* An object is whole as soon as it is there, which is what a cached       *)
(* success and a reused document rest on, and no answer is without it.     *)
UploadsAreSafe == ObjectIsWhole /\ AnswerIsBacked
=============================================================================
