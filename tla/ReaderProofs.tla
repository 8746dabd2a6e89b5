---------------------------- MODULE ReaderProofs ----------------------------
(***************************************************************************)
(* Proofs about ResourceReading, for any resource, any set of formats and  *)
(* any order in which the file goes and comes back, and about the readers  *)
(* that carry rows over in batches: DatastoreReading, for datastores,      *)
(* pages and server limits of any size, and RecordReading, for documents   *)
(* and batches of any size.                                                *)
(***************************************************************************)
EXTENDS ResourceReading, DatastoreReading, RecordReading, SequenceTheorems, FiniteSetTheorems, TLAPS

-----------------------------------------------------------------------------
(* ResourceReading.                                                        *)

Kinds == {"NONE", "SUCCESS", "FAILED", "DELETED", "CHILDREN"}
Tokens == [kind : Kinds, child : BOOLEAN, version : BOOLEAN, artifact : BOOLEAN,
           http : {NoStatus, "503"}]

\* Nothing is answered before the job is done; what was answered is true.
ResourceInv ==
  /\ res \in [formats : SUBSET STRING, active : BOOLEAN, gz : BOOLEAN, package : BOOLEAN,
              child : BOOLEAN]
  /\ gone \in BOOLEAN /\ absent \in BOOLEAN /\ status \in {NoStatus, "503"}
  /\ answer \in Tokens
  /\ step # "done" => answer.kind = "NONE"
  /\ DeletedOnlyIfGone /\ ChildrenReportToParent

(* Only a reader that downloads a file that is gone sees a 404.            *)
LEMMA NotFoundMeansGone ==
  ASSUME NEW reader, "404" \in Attempts(reader), gone \in BOOLEAN
  PROVE  gone /\ reader # "Datastore"
  BY DEF Attempts

(* A message that carries the context of the job names the child's parent. *)
LEMMA ContextIsKept ==
  ASSUME NEW m \in Tokens, res.child \in BOOLEAN
  PROVE  /\ WithContext(m) \in Tokens
         /\ WithContext(m).child = res.child /\ WithContext(m).kind = m.kind
  BY DEF WithContext, Tokens

(* Each message a job may answer with, its kind and whose child it names.  *)
LEMMA Answers ==
  ASSUME res.child \in BOOLEAN, status \in {NoStatus, "503"}
  PROVE  /\ \A m \in {Cached, Succeeded, FailedJob, Failed} :
              m \in Tokens /\ m.child = res.child /\ m.kind # "DELETED"
         /\ Deleted \in Tokens /\ Deleted.child = res.child /\ Deleted.kind = "DELETED"
         /\ Children \in Tokens /\ Children.kind = "CHILDREN"
<1>1. \A k \in Kinds : Message(k) \in Tokens /\ Message(k).kind = k
  BY DEF Message, NoStatus, Tokens, Kinds
<1>2. /\ [Message("SUCCESS") EXCEPT !.version = TRUE] \in Tokens
      /\ [Message("SUCCESS") EXCEPT !.version = TRUE].kind = "SUCCESS"
  BY DEF Message, NoStatus, Tokens, Kinds
<1>3. /\ [Message("SUCCESS") EXCEPT !.version = TRUE, !.artifact = TRUE] \in Tokens
      /\ [Message("SUCCESS") EXCEPT !.version = TRUE, !.artifact = TRUE].kind = "SUCCESS"
  BY DEF Message, NoStatus, Tokens, Kinds
<1>4. /\ [Message("FAILED") EXCEPT !.version = TRUE] \in Tokens
      /\ [Message("FAILED") EXCEPT !.version = TRUE].kind = "FAILED"
  BY DEF Message, NoStatus, Tokens, Kinds
<1>5. /\ [Message("FAILED") EXCEPT !.http = status] \in Tokens
      /\ [Message("FAILED") EXCEPT !.http = status].kind = "FAILED"
  BY DEF Message, NoStatus, Tokens, Kinds
<1>6. Cached \in Tokens /\ Cached.child = res.child /\ Cached.kind = "SUCCESS"
  BY <1>2, ContextIsKept DEF Cached
<1>7. Succeeded \in Tokens /\ Succeeded.child = res.child /\ Succeeded.kind = "SUCCESS"
  BY <1>3, ContextIsKept DEF Succeeded
<1>8. FailedJob \in Tokens /\ FailedJob.child = res.child /\ FailedJob.kind = "FAILED"
  BY <1>4, ContextIsKept DEF FailedJob
<1>9. Failed \in Tokens /\ Failed.child = res.child /\ Failed.kind = "FAILED"
  BY <1>5, ContextIsKept DEF Failed
<1>10. Deleted \in Tokens /\ Deleted.child = res.child /\ Deleted.kind = "DELETED"
  BY <1>1, ContextIsKept DEF Deleted, DeletedResult, Kinds
<1>11. Children \in Tokens /\ Children.kind = "CHILDREN"
  BY <1>1 DEF Children, Kinds
<1> QED BY <1>6, <1>7, <1>8, <1>9, <1>10, <1>11

(* The invariant holds of every job and is kept by every step of it.       *)
LEMMA ResourceInvInductive ==
  /\ ResourceInit => ResourceInv
  /\ ResourceInv /\ [ResourceNext]_resourceVars => ResourceInv'
<1>1. ASSUME ResourceInit PROVE ResourceInv
  <2>1. answer \in Tokens /\ answer.kind = "NONE" /\ status = NoStatus /\ absent = FALSE
    BY <1>1 DEF ResourceInit, Message, NoStatus, Tokens, Kinds
  <2>2. res \in [formats : SUBSET STRING, active : BOOLEAN, gz : BOOLEAN, package : BOOLEAN,
                 child : BOOLEAN]
    BY <1>1, ResourceAssumption DEF ResourceInit
  <2> QED
    BY <1>1, <2>1, <2>2 DEF ResourceInit, ResourceInv, DeletedOnlyIfGone, ChildrenReportToParent
<1>2. ASSUME ResourceInv, [ResourceNext]_resourceVars PROVE ResourceInv'
  <2> USE <1>2
  <2> res.child \in BOOLEAN /\ status \in {NoStatus, "503"}
    BY DEF ResourceInv
  <2>1. CASE UNCHANGED resourceVars
    BY <2>1 DEF ResourceInv, resourceVars, DeletedOnlyIfGone, ChildrenReportToParent
  <2>2. CASE FileChanges
    BY <2>2 DEF FileChanges, ResourceInv, DeletedOnlyIfGone, ChildrenReportToParent
  <2>3. CASE Begin
    <3>1. res' \in [formats : SUBSET STRING, active : BOOLEAN, gz : BOOLEAN, package : BOOLEAN,
                    child : BOOLEAN]
      BY <2>3, ResourceAssumption DEF Begin, ResourceInv
    <3>2. CASE step' = "read" /\ UNCHANGED answer
      BY <2>3, <3>1, <3>2 DEF Begin, ResourceInv, DeletedOnlyIfGone, ChildrenReportToParent
    <3>3. CASE UNCHANGED res /\ (Answer(Cached) \/ Answer(FailedJob))
      BY <2>3, <3>3, Answers
      DEF Begin, Answer, ResourceInv, DeletedOnlyIfGone, ChildrenReportToParent
    <3> QED BY <2>3, <3>2, <3>3 DEF Begin
  <2>4. CASE NextTurn
    BY <2>4 DEF NextTurn, ResourceInv, DeletedOnlyIfGone, ChildrenReportToParent
  <2>5. CASE ReaderFails
    BY <2>5 DEF ReaderFails, Looked, ResourceInv, NoStatus, DeletedOnlyIfGone, ChildrenReportToParent
  <2>6. CASE ReaderSucceeds
    BY <2>6 DEF ReaderSucceeds, ResourceInv, DeletedOnlyIfGone, ChildrenReportToParent
  <2>7. CASE CrawlerFansOut
    BY <2>7, Answers
    DEF CrawlerFansOut, Answer, ResourceInv, DeletedOnlyIfGone, ChildrenReportToParent
  <2>8. CASE FileIsGone
    <3>1. absent' = TRUE
      BY <2>8, NotFoundMeansGone DEF FileIsGone, Looked, ResourceInv
    <3> QED
      BY <2>8, <3>1, Answers DEF FileIsGone, Answer, ResourceInv, DeletedOnlyIfGone, ChildrenReportToParent
  <2>9. CASE AllFailed
    BY <2>9, Answers DEF AllFailed, Answer, ResourceInv, DeletedOnlyIfGone, ChildrenReportToParent
  <2>10. CASE Upload
    BY <2>10, Answers DEF Upload, Answer, ResourceInv, DeletedOnlyIfGone, ChildrenReportToParent
  <2>11. CASE Panic
    BY <2>11, Answers DEF Panic, Answer, ResourceInv, DeletedOnlyIfGone, ChildrenReportToParent
  <2> QED
    BY <2>1, <2>2, <2>3, <2>4, <2>5, <2>6, <2>7, <2>8, <2>9, <2>10, <2>11 DEF ResourceNext
<1> QED BY <1>1, <1>2

(* A job is answered with DELETED only if a reader found the file at its   *)
(* URL gone (for a child, the crawler's copy): whatever readers came before*)
(* it, and though the file may be back.                                    *)
THEOREM DeletionIsObserved == ResourceSpec => []DeletedOnlyIfGone
<1>1. ResourceInv => DeletedOnlyIfGone
  BY DEF ResourceInv
<1> QED BY <1>1, ResourceInvInductive, PTL DEF ResourceSpec

(* Every answer for a child names its parent, on every path of             *)
(* run_conversion.                                                         *)
THEOREM EveryAnswerNamesTheParent == ResourceSpec => []ChildrenReportToParent
<1>1. ResourceInv => ChildrenReportToParent
  BY DEF ResourceInv
<1> QED BY <1>1, ResourceInvInductive, PTL DEF ResourceSpec

-----------------------------------------------------------------------------
(* DatastoreReading.                                                       *)

Increasing(s) == \A i, j \in 1..Len(s) : i < j => s[i] < s[j]
UpTo(s, n) == \A i \in 1..Len(s) : s[i] <= n

DatastoreTypes ==
  /\ cap \in Nat \ {0} /\ inserted \in Nat /\ expected \in Nat /\ offset \in Nat
  /\ datastore \in Seq(Nat) /\ output \in Seq(Nat) /\ start \in Seq(Nat)
  /\ fetching \in {"count", "page", "done", "failed"} /\ grew \in BOOLEAN

\* What has been fetched lies before what is left to fetch, in the order of the
\* rows' numbers, which deletions and insertions at the end do not disturb.
Ordered ==
  /\ Increasing(datastore) /\ UpTo(datastore, inserted)
  /\ Increasing(output) /\ UpTo(output, inserted)
  /\ \A i \in 1..Len(output) : \A k \in (offset + 1)..Len(datastore) : output[i] < datastore[k]

\* Without insertions, every row was there when the rows were counted.
Counted ==
  /\ Increasing(start)
  /\ fetching = "count" => output = <<>> /\ ~grew
  /\ fetching \in {"page", "done"} => expected = Len(start)
  /\ fetching \in {"page", "done"} /\ ~grew =>
       RowsOf(datastore) \subseteq RowsOf(start) /\ RowsOf(output) \subseteq RowsOf(start)

DatastoreInv == DatastoreTypes /\ Ordered /\ Counted

-----------------------------------------------------------------------------
(* An increasing sequence has as many rows as places.                      *)
LEMMA IncreasingHasNoRepeats ==
  ASSUME NEW s \in Seq(Nat), Increasing(s)
  PROVE  IsFiniteSet(RowsOf(s)) /\ Cardinality(RowsOf(s)) = Len(s)
<1>1. Len(s) \in Nat /\ s \in [1..Len(s) -> Nat]
  BY LenProperties
<1>2. IsFiniteSet(1..Len(s)) /\ Cardinality(1..Len(s)) = Len(s)
  <2>1. 1 \in Int /\ Len(s) \in Int
    BY <1>1
  <2>2. /\ IsFiniteSet(1..Len(s))
        /\ Cardinality(1..Len(s)) = IF 1 > Len(s) THEN 0 ELSE Len(s) - 1 + 1
    BY <2>1, FS_Interval
  <2> QED BY <1>1, <2>2
<1>3. \A i, j \in 1..Len(s) : s[i] = s[j] => i = j
  <2> SUFFICES ASSUME NEW i \in 1..Len(s), NEW j \in 1..Len(s), i < j PROVE s[i] # s[j]
    BY <1>1
  <2>1. s[i] < s[j] /\ s[i] \in Nat /\ s[j] \in Nat
    BY <1>1 DEF Increasing
  <2> QED BY <2>1
<1>4. s \in Surjection(1..Len(s), RowsOf(s))
  BY <1>1 DEF Surjection, RowsOf
<1>5. s \in Injection(1..Len(s), RowsOf(s))
  BY <1>1, <1>3 DEF Injection, IsInjective, RowsOf
<1> QED BY <1>2, <1>4, <1>5, FS_Surjection

(* A page is the rows behind the offset, and there is one unless the offset*)
(* has passed the end.                                                     *)
LEMMA PageIsASlice ==
  ASSUME DatastoreTypes
  PROVE  /\ Page \in Seq(Nat) /\ Len(Page) <= PageSize
         /\ offset + Len(Page) <= Len(datastore) \/ Len(Page) = 0
         /\ \A i \in 1..Len(Page) : /\ offset + i \in 1..Len(datastore)
                                    /\ Page[i] = datastore[offset + i]
<1> DEFINE e == Lesser(Len(datastore), offset + Lesser(PageSize, cap))
<1>1. /\ Len(datastore) \in Nat /\ datastore \in [1..Len(datastore) -> Nat]
      /\ offset \in Nat /\ cap \in Nat \ {0} /\ PageSize \in Nat \ {0}
  BY LenProperties, DatastoreAssumption DEF DatastoreTypes
<1>2. e \in Nat /\ e <= Len(datastore) /\ e <= offset + PageSize
  BY <1>1 DEF Lesser
<1>3. \A i \in (offset + 1)..e : datastore[i] \in Nat
  BY <1>1, <1>2
<1>4. Page = SubSeq(datastore, offset + 1, e)
  BY DEF Page
<1> HIDE DEF e
<1>5. /\ Page \in Seq(Nat)
      /\ Len(Page) = IF offset + 1 <= e THEN e - offset ELSE 0
      /\ \A i \in 1..(e - (offset + 1) + 1) : Page[i] = datastore[(offset + 1) + i - 1]
  <2>1. offset + 1 \in Int /\ e \in Int /\ e - (offset + 1) + 1 = e - offset
    BY <1>1, <1>2
  <2> QED BY <1>3, <1>4, <2>1, SubSeqProperties
<1>6. \A i \in 1..Len(Page) : /\ offset + i \in 1..Len(datastore)
                               /\ Page[i] = datastore[offset + i]
  <2> SUFFICES ASSUME NEW i \in 1..Len(Page)
               PROVE  offset + i \in 1..Len(datastore) /\ Page[i] = datastore[offset + i]
    OBVIOUS
  <2>1. offset + 1 <= e /\ i \in 1..(e - offset) /\ e - (offset + 1) + 1 = e - offset
        /\ (offset + 1) + i - 1 = offset + i
    BY <1>1, <1>2, <1>5
  <2> QED BY <1>1, <1>2, <1>5, <2>1
<1> QED BY <1>1, <1>2, <1>5, <1>6

-----------------------------------------------------------------------------
(* The datastore starts as the rows 1..Initial.                            *)
LEMMA DatastoreInvInit == DatastoreInit => DatastoreInv
<1> SUFFICES ASSUME DatastoreInit PROVE DatastoreInv
  OBVIOUS
<1>1. /\ datastore \in Seq(Nat) /\ Len(datastore) = Initial
      /\ \A i \in 1..Initial : datastore[i] = i
  BY DatastoreAssumption DEF DatastoreInit
<1>2. DatastoreTypes
  BY <1>1, DatastoreAssumption, EmptySeq DEF DatastoreInit, DatastoreTypes
<1>3. Ordered
  BY <1>1, DatastoreAssumption DEF DatastoreInit, Ordered, Increasing, UpTo
<1>4. Counted
  BY DEF DatastoreInit, Counted, Increasing
<1> QED BY <1>2, <1>3, <1>4 DEF DatastoreInv

(* A row inserted is greater than all rows before it.                      *)
LEMMA InsertKeepsInv == DatastoreInv /\ InsertRow => DatastoreInv'
<1> SUFFICES ASSUME DatastoreInv, InsertRow PROVE DatastoreInv'
  OBVIOUS
<1>1. /\ Len(datastore) \in Nat /\ datastore \in [1..Len(datastore) -> Nat]
      /\ Len(output) \in Nat /\ output \in [1..Len(output) -> Nat]
      /\ inserted \in Nat /\ offset \in Nat
  BY LenProperties DEF DatastoreInv, DatastoreTypes
<1>2. /\ datastore' \in Seq(Nat) /\ Len(datastore') = Len(datastore) + 1
      /\ \A i \in 1..Len(datastore) : datastore'[i] = datastore[i]
      /\ datastore'[Len(datastore) + 1] = inserted + 1
  BY <1>1, AppendProperties DEF InsertRow, DatastoreInv, DatastoreTypes
<1>3. DatastoreTypes'
  BY <1>1, <1>2 DEF InsertRow, DatastoreInv, DatastoreTypes
<1>4. Ordered'
  <2>1. Increasing(datastore)' /\ UpTo(datastore, inserted)'
    BY <1>1, <1>2 DEF InsertRow, DatastoreInv, Ordered, Increasing, UpTo
  <2>2. Increasing(output)' /\ UpTo(output, inserted)'
    <3>1. UNCHANGED output /\ inserted' = inserted + 1 /\ Increasing(output)
      BY DEF InsertRow, DatastoreInv, Ordered
    <3>2. \A i \in 1..Len(output) : output[i] \in Nat /\ output[i] <= inserted
      BY <1>1 DEF DatastoreInv, Ordered, UpTo
    <3>3. \A i \in 1..Len(output) : output[i] <= inserted + 1
      BY <1>1, <3>2
    <3> QED BY <3>1, <3>3 DEF Increasing, UpTo
  <2>3. \A i \in 1..Len(output) : \A k \in (offset + 1)..Len(datastore') : output[i] < datastore'[k]
    <3> SUFFICES ASSUME NEW i \in 1..Len(output), NEW k \in (offset + 1)..(Len(datastore) + 1)
                 PROVE  output[i] < datastore'[k]
      BY <1>2
    <3>1. CASE k = Len(datastore) + 1
      <4>1. output[i] \in Nat /\ output[i] <= inserted
        BY <1>1 DEF DatastoreInv, Ordered, UpTo
      <4> QED BY <1>1, <1>2, <3>1, <4>1
    <3>2. CASE k # Len(datastore) + 1
      <4>1. k \in (offset + 1)..Len(datastore) /\ k \in 1..Len(datastore)
        BY <1>1, <3>2
      <4> QED BY <1>2, <4>1 DEF DatastoreInv, Ordered
    <3> QED BY <3>1, <3>2
  <2> QED BY <2>1, <2>2, <2>3 DEF InsertRow, Ordered
<1>5. Counted'
  BY DEF InsertRow, DatastoreInv, Counted, Increasing
<1> QED BY <1>3, <1>4, <1>5 DEF DatastoreInv

(* A deletion moves the rows behind it one place to the front.             *)
LEMMA DeleteKeepsInv == DatastoreInv /\ DeleteRow => DatastoreInv'
<1> SUFFICES ASSUME DatastoreInv, DeleteRow PROVE DatastoreInv'
  OBVIOUS
<1>1. /\ Len(datastore) \in Nat /\ datastore \in [1..Len(datastore) -> Nat]
      /\ Len(output) \in Nat /\ output \in [1..Len(output) -> Nat]
      /\ inserted \in Nat /\ offset \in Nat
  BY LenProperties DEF DatastoreInv, DatastoreTypes
<1>2. PICK d \in 1..Len(datastore) :
        datastore' = [k \in 1..(Len(datastore) - 1) |->
                        IF k < d THEN datastore[k] ELSE datastore[k + 1]]
  BY DEF DeleteRow
<1>3. /\ datastore' \in Seq(Nat) /\ Len(datastore') = Len(datastore) - 1
      /\ \A k \in 1..Len(datastore') :
           datastore'[k] = IF k < d THEN datastore[k] ELSE datastore[k + 1]
  <2>1. Len(datastore) - 1 \in Nat
    BY <1>1
  <2>2. \A k \in 1..(Len(datastore) - 1) :
          (IF k < d THEN datastore[k] ELSE datastore[k + 1]) \in Nat
    BY <1>1
  <2>3. datastore' \in [1..(Len(datastore) - 1) -> Nat]
    BY <1>2, <2>2
  <2>4. DOMAIN datastore' = 1..(Len(datastore) - 1)
    BY <2>3
  <2>5. datastore' \in Seq(Nat)
    BY <2>1, <2>3
  <2>6. Len(datastore') = Len(datastore) - 1
    BY <2>1, <2>4, <2>5, LenProperties
  <2> QED BY <1>2, <2>5, <2>6
<1>4. DatastoreTypes'
  BY <1>3 DEF DeleteRow, DatastoreInv, DatastoreTypes
<1>5. Ordered'
  <2>1. Increasing(datastore)' /\ UpTo(datastore, inserted)'
    BY <1>1, <1>3 DEF DeleteRow, DatastoreInv, Ordered, Increasing, UpTo
  <2>2. Increasing(output)' /\ UpTo(output, inserted)'
    BY <1>1 DEF DeleteRow, DatastoreInv, Ordered, Increasing, UpTo
  <2>3. \A i \in 1..Len(output) : \A k \in (offset + 1)..Len(datastore') : output[i] < datastore'[k]
    BY <1>1, <1>3 DEF DatastoreInv, Ordered
  <2> QED BY <2>1, <2>2, <2>3 DEF DeleteRow, Ordered
<1>6. Counted'
  <2>1. RowsOf(datastore') \subseteq RowsOf(datastore)
    BY <1>1, <1>3 DEF RowsOf
  <2>2. UNCHANGED <<expected, output, fetching, grew, start>>
    BY DEF DeleteRow
  <2>3. /\ RowsOf(output') = RowsOf(output) /\ RowsOf(start') = RowsOf(start)
        /\ Increasing(start') <=> Increasing(start)
    BY <2>2 DEF RowsOf, Increasing
  <2> QED BY <2>1, <2>2, <2>3 DEF DatastoreInv, Counted
<1> QED BY <1>4, <1>5, <1>6 DEF DatastoreInv

(* A page continues the output, and leaves what is behind the next offset. *)
LEMMA FetchKeepsInv == DatastoreInv /\ FetchPage => DatastoreInv'
<1> SUFFICES ASSUME DatastoreInv, FetchPage PROVE DatastoreInv'
  OBVIOUS
<1> DatastoreTypes
  BY DEF DatastoreInv
<1>1. /\ Len(datastore) \in Nat /\ datastore \in [1..Len(datastore) -> Nat]
      /\ Len(output) \in Nat /\ output \in [1..Len(output) -> Nat]
      /\ inserted \in Nat /\ offset \in Nat /\ PageSize \in Nat \ {0}
  BY LenProperties, DatastoreAssumption DEF DatastoreTypes
<1>2. /\ Page \in Seq(Nat) /\ Len(Page) \in Nat /\ Len(Page) <= PageSize
      /\ \A i \in 1..Len(Page) : /\ offset + i \in 1..Len(datastore)
                                 /\ Page[i] = datastore[offset + i]
  BY PageIsASlice, LenProperties
<1>3. /\ output' \in Seq(Nat) /\ Len(output') = Len(output) + Len(Page)
      /\ \A i \in 1..Len(output') :
           output'[i] = IF i <= Len(output) THEN output[i] ELSE Page[i - Len(output)]
  BY <1>2, ConcatProperties DEF FetchPage, DatastoreTypes
<1>4. \A i \in 1..Len(output') :
        \/ i \in 1..Len(output) /\ output'[i] = output[i]
        \/ /\ i - Len(output) \in 1..Len(Page) /\ offset + (i - Len(output)) \in 1..Len(datastore)
           /\ output'[i] = datastore[offset + (i - Len(output))]
  <2> SUFFICES ASSUME NEW i \in 1..Len(output')
               PROVE  \/ i \in 1..Len(output) /\ output'[i] = output[i]
                      \/ /\ i - Len(output) \in 1..Len(Page)
                         /\ offset + (i - Len(output)) \in 1..Len(datastore)
                         /\ output'[i] = datastore[offset + (i - Len(output))]
    OBVIOUS
  <2>1. CASE i <= Len(output)
    BY <1>1, <1>2, <1>3, <2>1
  <2>2. CASE ~(i <= Len(output))
    <3>1. i - Len(output) \in 1..Len(Page)
      BY <1>1, <1>2, <1>3, <2>2
    <3>2. output'[i] = Page[i - Len(output)]
      BY <1>3, <2>2
    <3> QED BY <1>2, <3>1, <3>2
  <2> QED BY <2>1, <2>2
<1>5. offset' = offset + PageSize /\ UNCHANGED <<cap, datastore, inserted, expected, fetching, grew, start>>
  BY DEF FetchPage
<1>6. DatastoreTypes'
  BY <1>1, <1>3, <1>5 DEF DatastoreTypes
<1>7. Ordered'
  <2>1. Increasing(datastore)' /\ UpTo(datastore, inserted)'
    BY <1>5 DEF DatastoreInv, Ordered, Increasing, UpTo
  <2>2. Increasing(output)'
    <3> SUFFICES ASSUME NEW i \in 1..Len(output'), NEW j \in 1..Len(output'), i < j
                 PROVE  output'[i] < output'[j]
      BY DEF Increasing
    <3>1. CASE j <= Len(output)
      BY <1>1, <1>3, <3>1 DEF DatastoreInv, Ordered, Increasing
    <3>2. CASE i <= Len(output) /\ j > Len(output)
      <4>1. i \in 1..Len(output) /\ output'[i] = output[i]
        BY <1>1, <1>3, <3>2
      <4>2. /\ j - Len(output) \in 1..Len(Page) /\ offset + (j - Len(output)) \in 1..Len(datastore)
            /\ output'[j] = datastore[offset + (j - Len(output))]
        BY <1>1, <1>4, <3>2
      <4>3. offset + (j - Len(output)) \in (offset + 1)..Len(datastore)
        BY <1>1, <1>2, <4>2
      <4> QED BY <4>1, <4>2, <4>3 DEF DatastoreInv, Ordered
    <3>3. CASE i > Len(output)
      <4>1. /\ offset + (i - Len(output)) \in 1..Len(datastore)
            /\ output'[i] = datastore[offset + (i - Len(output))]
        BY <1>1, <1>4, <3>3
      <4>2. /\ offset + (j - Len(output)) \in 1..Len(datastore)
            /\ output'[j] = datastore[offset + (j - Len(output))]
        <5>1. j > Len(output)
          BY <1>1, <1>3, <3>3
        <5> QED BY <1>1, <1>4, <5>1
      <4>3. offset + (i - Len(output)) < offset + (j - Len(output))
        BY <1>1, <1>3
      <4> QED BY <4>1, <4>2, <4>3 DEF DatastoreInv, Ordered, Increasing
    <3> QED BY <1>1, <3>1, <3>2, <3>3
  <2>3. UpTo(output, inserted)'
    BY <1>1, <1>4, <1>5 DEF DatastoreInv, Ordered, UpTo
  <2>4. \A i \in 1..Len(output') : \A k \in (offset' + 1)..Len(datastore) : output'[i] < datastore[k]
    <3> SUFFICES ASSUME NEW i \in 1..Len(output'), NEW k \in (offset' + 1)..Len(datastore)
                 PROVE  output'[i] < datastore[k]
      OBVIOUS
    <3>1. k \in (offset + 1)..Len(datastore) /\ k > offset + PageSize
      BY <1>1, <1>5
    <3>2. CASE i \in 1..Len(output) /\ output'[i] = output[i]
      BY <3>1, <3>2 DEF DatastoreInv, Ordered
    <3>3. CASE /\ i - Len(output) \in 1..Len(Page) /\ offset + (i - Len(output)) \in 1..Len(datastore)
               /\ output'[i] = datastore[offset + (i - Len(output))]
      <4>1. offset + (i - Len(output)) < k
        BY <1>1, <1>2, <3>1, <3>3
      <4> QED BY <1>1, <3>1, <3>3, <4>1 DEF DatastoreInv, Ordered, Increasing
    <3> QED BY <1>4, <3>2, <3>3
  <2> QED BY <1>5, <2>1, <2>2, <2>3, <2>4 DEF Ordered
<1>8. Counted'
  <2>1. RowsOf(output') \subseteq RowsOf(output) \cup RowsOf(datastore)
    BY <1>4 DEF RowsOf
  <2>2. RowsOf(datastore') = RowsOf(datastore) /\ RowsOf(start') = RowsOf(start)
        /\ (Increasing(start') <=> Increasing(start))
    BY <1>5 DEF RowsOf, Increasing
  <2>3. fetching = "page" /\ expected' = expected /\ start' = start /\ fetching' = fetching
        /\ grew' = grew
    BY <1>5 DEF FetchPage
  <2> QED BY <2>1, <2>2, <2>3 DEF DatastoreInv, Counted
<1> QED BY <1>6, <1>7, <1>8 DEF DatastoreInv

(* The invariant is kept by every step.                                    *)
LEMMA DatastoreInvStep == DatastoreInv /\ [DatastoreNext]_datastoreVars => DatastoreInv'
<1> SUFFICES ASSUME DatastoreInv, [DatastoreNext]_datastoreVars PROVE DatastoreInv'
  OBVIOUS
<1>1. CASE UNCHANGED datastoreVars
  <2>1. UNCHANGED <<cap, datastore, inserted, expected, offset, output, grew, start>>
        /\ (fetching' = fetching)
    BY <1>1 DEF datastoreVars
  <2>2. /\ RowsOf(output') = RowsOf(output) /\ RowsOf(start') = RowsOf(start)
        /\ RowsOf(datastore') = RowsOf(datastore)
        /\ (Increasing(start') <=> Increasing(start))
    BY <2>1 DEF RowsOf, Increasing
  <2>3. DatastoreTypes' /\ Ordered'
    BY <2>1 DEF DatastoreInv, DatastoreTypes, Ordered, Increasing, UpTo
  <2>4. Counted'
    BY <2>1, <2>2 DEF DatastoreInv, Counted
  <2> QED BY <2>3, <2>4 DEF DatastoreInv
<1>2. CASE CountRows
  <2>1. DatastoreTypes' /\ Ordered'
    BY <1>2, LenProperties DEF CountRows, DatastoreInv, DatastoreTypes, Ordered, Increasing, UpTo
  <2>2. RowsOf(<<>>) = {}
    BY DEF RowsOf
  <2>3. Counted'
    BY <1>2, <2>2 DEF CountRows, DatastoreInv, Ordered, Counted, Increasing
  <2> QED BY <2>1, <2>3 DEF DatastoreInv
<1>3. CASE FetchLastPage
  <2>1. UNCHANGED <<cap, datastore, inserted, expected, offset, output, grew, start>>
        /\ (fetching' = fetching \/ (fetching = "page" /\ fetching' \in {"done", "failed"}))
    BY <1>3 DEF FetchLastPage
  <2>2. /\ RowsOf(output') = RowsOf(output) /\ RowsOf(start') = RowsOf(start)
        /\ RowsOf(datastore') = RowsOf(datastore)
        /\ (Increasing(start') <=> Increasing(start))
    BY <2>1 DEF RowsOf, Increasing
  <2>3. DatastoreTypes' /\ Ordered'
    BY <2>1 DEF DatastoreInv, DatastoreTypes, Ordered, Increasing, UpTo
  <2>4. Counted'
    BY <2>1, <2>2 DEF DatastoreInv, Counted
  <2> QED BY <2>3, <2>4 DEF DatastoreInv
<1>4. CASE FetchFails
  <2>1. UNCHANGED <<cap, datastore, inserted, expected, offset, output, grew, start>>
        /\ (fetching' = fetching \/ fetching' = "failed")
    BY <1>4 DEF FetchFails
  <2>2. /\ RowsOf(output') = RowsOf(output) /\ RowsOf(start') = RowsOf(start)
        /\ RowsOf(datastore') = RowsOf(datastore)
        /\ (Increasing(start') <=> Increasing(start))
    BY <2>1 DEF RowsOf, Increasing
  <2>3. DatastoreTypes' /\ Ordered'
    BY <2>1 DEF DatastoreInv, DatastoreTypes, Ordered, Increasing, UpTo
  <2>4. Counted'
    BY <2>1, <2>2 DEF DatastoreInv, Counted
  <2> QED BY <2>3, <2>4 DEF DatastoreInv
<1> QED
  BY <1>1, <1>2, <1>3, <1>4, InsertKeepsInv, DeleteKeepsInv, FetchKeepsInv DEF DatastoreNext

(* No row is taken twice, and a row that was counted and not taken shows in*)
(* the two numbers, unless rows were inserted meanwhile.                   *)
THEOREM MissingRowsShow == DatastoreSpec => []IncompleteIsMismatched
<1>1. DatastoreInv => IncompleteIsMismatched
  <2> SUFFICES ASSUME DatastoreInv PROVE IncompleteIsMismatched
    OBVIOUS
  <2>1. /\ IsFiniteSet(RowsOf(output)) /\ Cardinality(RowsOf(output)) = Len(output)
        /\ IsFiniteSet(RowsOf(start)) /\ Cardinality(RowsOf(start)) = Len(start)
    BY IncreasingHasNoRepeats DEF DatastoreInv, DatastoreTypes, Ordered, Counted
  <2>2. ASSUME fetching = "done", ~grew, RowsOf(output) # RowsOf(start) PROVE Len(output) # expected
    <3>1. RowsOf(output) \in SUBSET RowsOf(start) /\ expected = Len(start)
      BY <2>2 DEF DatastoreInv, Counted
    <3>2. Cardinality(RowsOf(start)) # Cardinality(RowsOf(output))
      BY <2>1, <2>2, <3>1, FS_Subset
    <3> QED BY <2>1, <3>1, <3>2
  <2> QED BY <2>1, <2>2 DEF IncompleteIsMismatched
<1> QED BY <1>1, DatastoreInvInit, DatastoreInvStep, PTL DEF DatastoreSpec

-----------------------------------------------------------------------------
(* RecordReading.                                                          *)
Row == [record : Nat, order : Nat]

\* Row i is of record i, and of a log it bears the number i.
InOrder(rows, first) ==
  \A i \in 1..Len(rows) : /\ rows[i].record = first + i - 1
                          /\ document.kind = "log" => rows[i].order = first + i - 1

\* What has been taken is written or waits in the buffer, in order.
ColumnTypes == [c \in ColumnNames |-> TypeOf(c)]
RecordTypes ==
  /\ document \in Documents /\ taken \in Nat /\ order \in Nat
  /\ buffer \in Seq(Nat) /\ written \in Seq(Row)
  /\ stage \in {"open", "rows", "done", "failed"}
WorkSoFar ==
  /\ taken <= Len(Records)
  /\ stage = "open" => taken = 0
  /\ Len(buffer) <= RecordBatch /\ (document.kind # "log" => buffer = <<>>)
  /\ Len(written) + Len(buffer) = taken
  /\ InOrder(written, 1)
  /\ \A i \in 1..Len(buffer) : buffer[i] = Len(written) + i
  /\ stage \in {"open", "rows"} /\ document.kind = "log" => order = Len(written) + 1
  /\ stage = "done" => taken = Len(Records) /\ buffer = <<>>
  /\ stage \in {"rows", "done"} => types = ColumnTypes
RecordInv == RecordTypes /\ WorkSoFar

(* Rows that go on where the written ones end keep the order.              *)
LEMMA WritingOn ==
  ASSUME NEW w \in Seq(Row), NEW rows \in Seq(Row), InOrder(w, 1), InOrder(rows, Len(w) + 1)
  PROVE  /\ w \o rows \in Seq(Row) /\ Len(w \o rows) = Len(w) + Len(rows)
         /\ InOrder(w \o rows, 1)
<1>1. Len(w) \in Nat /\ Len(rows) \in Nat
  BY LenProperties
<1>2. /\ w \o rows \in Seq(Row) /\ Len(w \o rows) = Len(w) + Len(rows)
      /\ \A i \in 1..(Len(w) + Len(rows)) :
           (w \o rows)[i] = IF i <= Len(w) THEN w[i] ELSE rows[i - Len(w)]
  BY ConcatProperties
<1>3. ASSUME NEW i \in 1..(Len(w) + Len(rows))
      PROVE  /\ (w \o rows)[i].record = 1 + i - 1
             /\ document.kind = "log" => (w \o rows)[i].order = 1 + i - 1
  <2>1. CASE i <= Len(w)
    BY <1>1, <1>2, <2>1 DEF InOrder
  <2>2. CASE ~(i <= Len(w))
    <3> PICK k : k = i - Len(w)
      OBVIOUS
    <3>1. k \in 1..Len(rows) /\ (w \o rows)[i] = rows[k] /\ Len(w) + 1 + k - 1 = 1 + i - 1
      BY <1>1, <1>2, <2>2
    <3>2. rows[k].record = Len(w) + 1 + k - 1 /\ (document.kind = "log" => rows[k].order = Len(w) + 1 + k - 1)
      BY <3>1 DEF InOrder
    <3> QED BY <3>1, <3>2
  <2> QED BY <2>1, <2>2
<1> QED BY <1>2, <1>3 DEF InOrder

(* The lines of the buffer bear the numbers behind those written.          *)
LEMMA BufferGoesOn ==
  ASSUME RecordInv, stage = "rows"
  PROVE  /\ NumberedLines(buffer, order) \in Seq(Row)
         /\ Len(NumberedLines(buffer, order)) = Len(buffer)
         /\ InOrder(NumberedLines(buffer, order), Len(written) + 1)
<1> DEFINE n == Len(buffer)
           rows == NumberedLines(buffer, order)
<1>1. n \in Nat /\ Len(written) \in Nat /\ order \in Nat /\ buffer \in [1..n -> Nat]
  BY LenProperties DEF RecordInv, RecordTypes, WorkSoFar
<1>2. rows = [i \in 1..n |-> [record |-> buffer[i], order |-> order + i - 1]]
  BY DEF NumberedLines
<1>3. \A i \in 1..n : [record |-> buffer[i], order |-> order + i - 1] \in Row
  BY <1>1 DEF Row
<1> HIDE DEF n, rows
<1>4. rows \in Seq(Row) /\ Len(rows) = n
  BY <1>1, <1>2, <1>3
<1>5. \A i \in 1..n : buffer[i] = Len(written) + i
  BY DEF RecordInv, RecordTypes, WorkSoFar, n
<1>6. document.kind = "log" => order = Len(written) + 1
  BY DEF RecordInv, RecordTypes, WorkSoFar
<1>7. ASSUME NEW i \in 1..n
      PROVE  /\ rows[i].record = (Len(written) + 1) + i - 1
             /\ document.kind = "log" => rows[i].order = (Len(written) + 1) + i - 1
  <2>1. rows[i].record = buffer[i] /\ rows[i].order = order + i - 1
    BY <1>2
  <2>2. buffer[i] = Len(written) + i /\ Len(written) + i = (Len(written) + 1) + i - 1
    BY <1>1, <1>5
  <2> QED BY <1>6, <2>1, <2>2
<1>8. InOrder(rows, Len(written) + 1)
  BY <1>4, <1>7 DEF InOrder
<1> QED BY <1>4, <1>8 DEF n, rows

LEMMA RecordInvInit == RecordInit => RecordInv
  BY RecordAssumption, EmptySeq DEF RecordInit, RecordInv, RecordTypes, WorkSoFar, Records, InOrder

(* The columns are those of the document.                                  *)
LEMMA ColumnsStay == ASSUME UNCHANGED document PROVE ColumnTypes' = ColumnTypes
  BY DEF ColumnTypes, ColumnNames, TypeOf, FieldTypes, Records

LEMMA OpenKeepsInv == ASSUME RecordInv, OpenDocument \/ RejectDocument PROVE RecordInv'
<1>1. UNCHANGED <<document, taken, buffer, order, written>> /\ stage = "open"
  BY DEF OpenDocument, RejectDocument
<1>2. \/ stage' = "failed" /\ UNCHANGED types
      \/ stage' = "rows" /\ types' = ColumnTypes
  BY DEF OpenDocument, RejectDocument, ColumnTypes
<1>3. ColumnTypes' = ColumnTypes
  BY <1>1, ColumnsStay
<1> QED BY <1>1, <1>2, <1>3 DEF RecordInv, RecordTypes, WorkSoFar, InOrder, Records

LEMMA TypesStay ==
  ASSUME RecordInv, UNCHANGED <<document, types>>, stage = "rows"
  PROVE  types' = ColumnTypes'
  BY ColumnsStay DEF RecordInv, WorkSoFar

LEMMA WriteKeepsInv == ASSUME RecordInv, WriteRecords PROVE RecordInv'
<1> PICK n : n = Rest(BatchOf(document.kind))
  OBVIOUS
<1> PICK rows : rows = [i \in 1..n |-> [record |-> taken + i, order |-> 0]]
  OBVIOUS
<1>1. /\ stage = "rows" /\ document.kind # "log" /\ written' = written \o rows /\ taken' = taken + n
      /\ UNCHANGED <<document, types, buffer, order, stage>> /\ taken < Len(Records)
  BY DEF WriteRecords, Write
<1>2. /\ taken \in Nat /\ Len(Records) \in Nat /\ document \in Documents /\ buffer = <<>>
      /\ written \in Seq(Row) /\ Len(written) = taken /\ InOrder(written, 1)
  BY <1>1, RecordAssumption, LenProperties, EmptySeq DEF RecordInv, RecordTypes, WorkSoFar, Records
<1>3. n \in Nat /\ taken + n <= Len(Records)
  BY <1>1, <1>2, RecordAssumption DEF Rest, BatchOf
<1>4. rows \in Seq(Row) /\ Len(rows) = n
  <2>1. \A i \in 1..n : [record |-> taken + i, order |-> 0] \in Row
    BY <1>2, <1>3 DEF Row
  <2> QED BY <1>3, <2>1
<1>5. InOrder(rows, Len(written) + 1)
  BY <1>1, <1>2, <1>3, <1>4 DEF InOrder
<1>6. written' \in Seq(Row) /\ Len(written') = taken + n /\ InOrder(written', 1)
  <2>1. /\ written \o rows \in Seq(Row) /\ Len(written \o rows) = Len(written) + n
        /\ InOrder(written \o rows, 1)
    <3>1. written \in Seq(Row) /\ InOrder(written, 1) /\ rows \in Seq(Row)
      BY <1>2, <1>4
    <3>2. /\ written \o rows \in Seq(Row) /\ Len(written \o rows) = Len(written) + Len(rows)
          /\ InOrder(written \o rows, 1)
      BY <1>5, <3>1, WritingOn
    <3> QED BY <1>4, <3>2
  <2> QED BY <1>1, <1>2, <2>1
<1>7. InOrder(written, 1)'
  BY <1>1, <1>6 DEF InOrder
<1>8. types' = ColumnTypes'
  BY <1>1, TypesStay
<1> QED BY <1>1, <1>2, <1>3, <1>6, <1>7, <1>8, EmptySeq DEF RecordInv, RecordTypes, WorkSoFar, Records

LEMMA ReadKeepsInv == ASSUME RecordInv, ReadLine PROVE RecordInv'
<1>1. /\ stage = "rows" /\ document.kind = "log" /\ taken < Len(Records) /\ Len(buffer) < RecordBatch
      /\ buffer' = Append(buffer, taken + 1) /\ taken' = taken + 1
      /\ UNCHANGED <<document, types, order, written, stage>>
  BY DEF ReadLine
<1>2. /\ taken \in Nat /\ Len(Records) \in Nat /\ buffer \in Seq(Nat) /\ Len(buffer) \in Nat
      /\ Len(written) \in Nat /\ Len(written) + Len(buffer) = taken /\ RecordBatch \in Nat
  BY RecordAssumption, LenProperties DEF RecordInv, RecordTypes, WorkSoFar, Records
<1>3. /\ buffer' \in Seq(Nat) /\ Len(buffer') = Len(buffer) + 1
      /\ \A i \in 1..Len(buffer) : buffer'[i] = buffer[i]
      /\ buffer'[Len(buffer) + 1] = taken + 1
  BY <1>1, <1>2, AppendProperties
<1>4. \A i \in 1..Len(buffer') : buffer'[i] = Len(written) + i
  <2> SUFFICES ASSUME NEW i \in 1..Len(buffer') PROVE buffer'[i] = Len(written) + i
    OBVIOUS
  <2>1. CASE i \in 1..Len(buffer)
    BY <1>3, <2>1 DEF RecordInv, RecordTypes, WorkSoFar
  <2>2. CASE i = Len(buffer) + 1
    <3>1. taken + 1 = Len(written) + i
      BY <1>2, <2>2
    <3> QED BY <1>3, <2>2, <3>1
  <2>3. i \in 1..Len(buffer) \/ i = Len(buffer) + 1
    BY <1>2, <1>3
  <2> QED BY <2>1, <2>2, <2>3
<1>5. types' = ColumnTypes' /\ InOrder(written, 1)'
  BY <1>1, TypesStay DEF RecordInv, RecordTypes, WorkSoFar, InOrder
<1>6. taken' <= Len(Records)' /\ Len(buffer') <= RecordBatch /\ Len(written') + Len(buffer') = taken'
  <2>1. Len(Records)' = Len(Records) /\ Len(written') = Len(written)
    BY <1>1 DEF Records
  <2>2. taken + 1 <= Len(Records) /\ Len(buffer) + 1 <= RecordBatch
    BY <1>1, <1>2
  <2>3. Len(written) + (Len(buffer) + 1) = taken + 1
    BY <1>2
  <2>4. taken' = taken + 1 /\ Len(buffer') = Len(buffer) + 1
    BY <1>1, <1>3
  <2> QED BY <2>1, <2>2, <2>3, <2>4
<1>7. taken' \in Nat /\ buffer' \in Seq(Nat)
  BY <1>1, <1>2, <1>3
<1>8. /\ document' \in Documents /\ document'.kind = "log" /\ order' \in Nat /\ written' \in Seq(Row)
      /\ stage' = "rows" /\ order' = Len(written') + 1 /\ written' = written
  BY <1>1 DEF RecordInv, RecordTypes, WorkSoFar
<1>9. RecordTypes'
  BY <1>7, <1>8 DEF RecordTypes
<1>10. WorkSoFar'
  BY <1>4, <1>5, <1>6, <1>8 DEF WorkSoFar
<1> QED BY <1>9, <1>10 DEF RecordInv

(* The buffer is written, and begins anew.                                 *)
LEMMA FlushKeepsInv ==
  ASSUME RecordInv, stage = "rows", UNCHANGED <<document, types, taken>>,
         Write(NumberedLines(buffer, order)), buffer' = <<>>, order' \in Nat,
         \/ stage' = "rows" /\ order' = order + Len(buffer)
         \/ stage' \in {"done", "failed"} /\ taken = Len(Records)
  PROVE  RecordInv'
<1>1. /\ taken \in Nat /\ buffer \in Seq(Nat) /\ Len(buffer) \in Nat /\ written \in Seq(Row)
      /\ Len(written) \in Nat /\ Len(written) + Len(buffer) = taken /\ RecordBatch \in Nat
      /\ order \in Nat /\ (document.kind = "log" => order = Len(written) + 1) /\ InOrder(written, 1)
      /\ Len(<<>>) = 0 /\ <<>> \in Seq(Nat)
  BY RecordAssumption, LenProperties, EmptySeq DEF RecordInv, RecordTypes, WorkSoFar
<1>2. /\ written' \in Seq(Row) /\ Len(written') = Len(written) + Len(buffer) /\ InOrder(written', 1)
  BY <1>1, BufferGoesOn, WritingOn DEF Write
<1>3. types' = ColumnTypes' /\ InOrder(written, 1)'
  BY <1>2, TypesStay DEF InOrder
<1>4. Len(Records)' = Len(Records) /\ taken <= Len(Records)
  BY DEF Records, RecordInv, RecordTypes, WorkSoFar
<1>5. Len(written') + 0 = taken
  BY <1>1, <1>2
<1>6. ASSUME stage' = "rows", document.kind = "log" PROVE order' = Len(written') + 1
  <2>1. order' = order + Len(buffer) /\ order = Len(written) + 1
    BY <1>1, <1>6
  <2> QED BY <1>1, <1>2, <2>1
<1> QED BY <1>1, <1>2, <1>3, <1>4, <1>5, <1>6 DEF RecordInv, RecordTypes, WorkSoFar

LEMMA RecordInvStep == ASSUME RecordInv, [RecordNext]_recordVars PROVE RecordInv'
<1>0. order \in Nat /\ RecordBatch \in Nat
  BY RecordAssumption DEF RecordInv, RecordTypes, WorkSoFar
<1>1. CASE OpenDocument \/ RejectDocument
  BY <1>1, OpenKeepsInv
<1>2. CASE WriteRecords
  BY <1>2, WriteKeepsInv
<1>3. CASE ReadLine
  BY <1>3, ReadKeepsInv
<1>4. CASE WriteLines
  BY <1>0, <1>4, FlushKeepsInv DEF WriteLines
<1>5. CASE FinishRecords
  BY <1>0, <1>5, FlushKeepsInv DEF FinishRecords
<1>6. CASE UNCHANGED recordVars
  <2>1. UNCHANGED <<document, types, taken, buffer, order, written, stage>>
    BY <1>6 DEF recordVars
  <2>2. stage \in {"rows", "done"} => types' = ColumnTypes'
    BY <2>1, ColumnsStay DEF RecordInv, WorkSoFar
  <2> QED BY <2>1, <2>2 DEF RecordInv, RecordTypes, WorkSoFar, InOrder, Records
<1> QED BY <1>1, <1>2, <1>3, <1>4, <1>5, <1>6 DEF RecordNext

(* A column of one type has the type of each of its values.                *)
LEMMA OneTypeIsTheirs ==
  ASSUME RecordInv, NEW i \in 1..Len(Records), NEW c \in DOMAIN Records[i].fields
  PROVE  c \in ColumnNames /\ (Records[i].fields[c] \in {"null", TypeOf(c)} \/ TypeOf(c) = "text")
<1> DEFINE V == {k \in 1..Len(Records) : c \in DOMAIN Records[k].fields}
           f == [k \in V |-> Records[k].fields[c]]
           T == {f[k] : k \in V}
<1>1. c \in ColumnNames
  BY DEF ColumnNames
<1>2. IsFiniteSet(FieldTypes(c))
  <2>1. 1 \in Int /\ Len(Records) \in Int
    BY RecordAssumption DEF RecordInv, RecordTypes, WorkSoFar, Records
  <2>2. IsFiniteSet(1..Len(Records))
    BY <2>1, FS_Interval
  <2>3. IsFiniteSet(V)
    BY <2>2, FS_Subset
  <2>4. f \in Surjection(V, T)
    BY DEF Surjection
  <2>5. FieldTypes(c) \subseteq T
    BY DEF FieldTypes
  <2> HIDE DEF V, f, T
  <2>6. IsFiniteSet(T)
    BY <2>3, <2>4, FS_Surjection
  <2> QED BY <2>5, <2>6, FS_Subset
<1>3. Records[i].fields[c] = "null" \/ Records[i].fields[c] \in FieldTypes(c)
  BY DEF FieldTypes
<1>4. CASE document.kind # "package" /\ Cardinality(FieldTypes(c)) = 1
  <2>1. PICK x : FieldTypes(c) = {x}
    BY <1>2, <1>4, FS_Singleton
  <2>2. TypeOf(c) = x
    BY <1>4, <2>1 DEF TypeOf
  <2> QED BY <1>1, <1>3, <2>1, <2>2
<1>5. CASE ~(document.kind # "package" /\ Cardinality(FieldTypes(c)) = 1)
  BY <1>1, <1>5 DEF TypeOf
<1> QED BY <1>4, <1>5

(* One row per record, in order, and one number per line of a log, for     *)
(* documents, batches and columns of any number; each value has the type   *)
(* of its column or is kept as text.                                       *)
THEOREM RecordsBecomeRows == RecordSpec => []RecordsAreRows
<1>1. RecordInv => RecordsAreRows
  <2> SUFFICES ASSUME RecordInv, stage = "done" PROVE RecordsAreRows
    BY DEF RecordsAreRows
  <2>1. Len(written) = Len(Records) /\ InOrder(written, 1)
    BY LenProperties, EmptySeq DEF RecordInv, RecordTypes, WorkSoFar
  <2>2. \A i \in 1..Len(written) : 1 + i - 1 = i
    BY LenProperties DEF RecordInv, RecordTypes, WorkSoFar
  <2>3. \A i \in 1..Len(Records) : \A c \in DOMAIN Records[i].fields :
          Records[i].fields[c] \in {"null", types[c]} \/ types[c] = "text"
    <3>1. types = [c \in ColumnNames |-> TypeOf(c)]
      BY DEF RecordInv, WorkSoFar, ColumnTypes
    <3> QED BY <3>1, OneTypeIsTheirs
  <2> QED BY <2>1, <2>2, <2>3 DEF RecordsAreRows, InOrder
<1> QED BY <1>1, RecordInvInit, RecordInvStep, PTL DEF RecordSpec
=============================================================================
