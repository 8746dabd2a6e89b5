------------------------ MODULE IngestPipelineProofs ------------------------
(***************************************************************************)
(* Proofs about IngestPipeline: for any numbers of jobs, files on a page,  *)
(* worker slots, retries, replays and faults.                              *)
(***************************************************************************)
EXTENDS IngestPipeline, JobLedgerProofs, SequenceTheorems, FiniteSetTheorems

Statuses == {"PENDING", "PROCESSING", "SUCCESS", "FAILED", "DELETED"}
ResultMessage == [status : Statuses, job : Jobs, index : Nat, total : Nat, artifact : BOOLEAN]

\* A file's message says where some attempt at its page found the file.
StandsIn(l, c, i) == Len(l) > 1 /\ i + 1 \in 1..Len(l) /\ l[i + 1] = c
Found(q) == ~TopLevel(q.job) =>
  \E l \in crawled[ParentOf[q.job]] : StandsIn(l, q.job, q.index) /\ q.total = Len(l)
JobMessage == {q \in JobMsgs : Found(q)}

\* A worker's success says that the job's own object is in S3; a page has one
\* once an attempt found a single file.
Single(j) == IsPage(j) => \E l \in crawled[j] : Len(l) = 1
Attempted == {m \in ResultMessage : /\ Found(m)
                                    /\ m.status = "SUCCESS" => m.job \in objects
                                    /\ m.status = "SUCCESS" /\ m.artifact => Single(m.job)}

\* What the ledger is told: that the job's data is in S3.
InStorage(j) ==
  \/ j \in objects
  \/ IsPage(j) /\ \E l \in crawled[j] : crawled[j] = {l} => Files(l) \subseteq objects
Told == {m \in ResultMessage : m.status = "SUCCESS" => InStorage(m.job)}

\* What is passed on as received.
PassedOn == {m \in ResultMessage : m.status = "SUCCESS" => m.job \in objects}

Outgoing ==
  [topic : {"parquet-results"}, msg : Attempted] \cup [topic : {"jobs"}, msg : JobMessage]

WorkerState == [handled : Nat, step : {"idle", "convert", "publish"}, out : Seq(Outgoing)]
WorkersOK ==
  /\ queue \in [Slots -> Seq(JobMessage)] /\ worker \in [Slots -> WorkerState]
  /\ \A w \in Slots : /\ worker[w].handled <= Len(queue[w])
                      /\ worker[w].step # "idle" => worker[w].handled > 0

ResultsOK == parquetResults \in Seq(Attempted)
LedgerTopicOK == jobResults \in Seq(Told)

\* A group is only looked at after a row of it was written.
CoordinatorState ==
  [handled : Nat, step : {"idle", "merge", "record failed", "publish"}, out : Seq(Told)]
CoordinatorOK ==
  /\ coordinator \in CoordinatorState /\ coordinator.handled <= Len(parquetResults)
  /\ coordinator.step \in {"merge", "record failed"} => coordinator.handled > 0 /\ ~TopLevel(ChildOf)
  /\ coordinator.step = "merge" => childRecords[ParentOf[ChildOf]].total > 0

StorageOK ==
  /\ objects \subseteq Jobs
  /\ crawled \in [Jobs -> SUBSET Seq(Jobs)] /\ \A j \in Jobs : crawled[j] \subseteq Crawls[j]

\* The rows of a group: the total is that of a list found, a row stands where
\* some list has its file, and a recorded success has its object.
Row == [job : Jobs, status : {"SUCCESS", "FAILED"}]
RowsSound(p) ==
  /\ childRecords[p].total > 0 =>
       \E l \in crawled[p] : Len(l) > 1 /\ childRecords[p].total = Len(l)
  /\ \A i \in DOMAIN childRecords[p].rows :
       LET row == childRecords[p].rows[i] IN
         /\ \E l \in crawled[p] : StandsIn(l, row.job, i)
         /\ row.status = "SUCCESS" => row.job \in objects
RecordsOK ==
  /\ childRecords \in [Jobs -> [total : Nat, rows : UNION {[D -> Row] : D \in SUBSET Nat}]]
  /\ \A p \in Jobs : RowsSound(p)

\* The table of a page.
FileTables == UNION {[D -> Jobs] : D \in SUBSET Nat}
PageTable(p, files) ==
  /\ \E l \in crawled[p] : Cardinality(DOMAIN files) = Len(l)
  /\ \A i \in DOMAIN files :
       /\ files[i] \in objects
       /\ \E l \in crawled[p] : i \in DOMAIN Parts(p, l) /\ files[i] = Parts(p, l)[i]
Table == [job : Jobs, version : Nat, files : FileTables]
TableSound(r) ==
  /\ ResourceOf[table[r].job] = r /\ table[r].version = Version[table[r].job]
  /\ IsPage(table[r].job) => PageTable(table[r].job, table[r].files)
TablesOK ==
  /\ table \in [Resources -> {NoTable} \cup Table]
  /\ \A r \in Resources : table[r] # NoTable => TableSound(r)

PipelineInv ==
  /\ WorkersOK /\ ResultsOK /\ LedgerTopicOK /\ CoordinatorOK /\ StorageOK /\ RecordsOK /\ TablesOK

-----------------------------------------------------------------------------
(* Helpers.                                                                *)
LEMMA SeqGrows == ASSUME NEW S, NEW T, S \subseteq T PROVE Seq(S) \subseteq Seq(T)
  OBVIOUS

LEMMA AfterIsSeq ==
  ASSUME NEW S, NEW s \in Seq(S), NEW n \in Nat PROVE After(s, n) \in Seq(S)
<1>1. n + 1 \in 1..(n + 1) /\ Len(s) \in Nat
  BY LenProperties
<1> QED BY <1>1, SubSeqProperties DEF After

LEMMA SingleIsSeq == ASSUME NEW S, NEW e \in S PROVE <<e>> \in Seq(S)
  OBVIOUS

LEMMA IdleIsIdle == Idle.handled = 0 /\ Idle.step = "idle" /\ Idle.out = <<>>
  BY DEF Idle

LEMMA IdleIsState == Idle \in WorkerState /\ Idle \in CoordinatorState
<1>1. <<>> \in Seq(Outgoing) /\ <<>> \in Seq(Told)
  BY EmptySeq
<1> QED BY <1>1 DEF Idle, WorkerState, CoordinatorState

LEMMA MsgIsMessage ==
  ASSUME NEW s \in Statuses, NEW q \in JobMsgs, NEW a \in BOOLEAN
  PROVE  /\ Msg(s, q, a) \in ResultMessage /\ Msg(s, q, a).status = s /\ Msg(s, q, a).artifact = a
         /\ Msg(s, q, a).job = q.job /\ Msg(s, q, a).index = q.index /\ Msg(s, q, a).total = q.total
  BY DEF Msg, ResultMessage, JobMsgs

LEMMA TopLevelMessage ==
  ASSUME NEW j \in Jobs
  PROVE  /\ JobMsg(j) \in JobMsgs /\ JobMsg(j).job = j
         /\ TopLevel(j) => JobMsg(j) \in JobMessage
  BY DEF JobMsg, FileMsg, JobMsgs, JobMessage, Found

(* A message that is no success tells nothing.                             *)
LEMMA HarmlessMessages ==
  ASSUME NEW s \in Statuses \ {"SUCCESS"}, NEW q \in JobMsgs, NEW a \in BOOLEAN
  PROVE  /\ Msg(s, q, a) \in Told
         /\ q \in JobMessage => Msg(s, q, a) \in Attempted
<1>1. Msg(s, q, a) \in Told
  BY MsgIsMessage DEF Told
<1>2. q \in JobMessage => Found(Msg(s, q, a))
  BY MsgIsMessage DEF Found, JobMessage
<1> QED BY <1>1, <1>2, MsgIsMessage DEF Attempted

(* The lists a crawl may find, and the page of a file that was found.      *)
LEMMA ListsAreLists ==
  ASSUME NEW p \in Jobs, NEW l \in Crawls[p]
  PROVE  /\ l \in Seq(Jobs) /\ Len(l) \in Nat /\ Len(l) > 0 /\ IsPage(p)
         /\ \A i \in 1..Len(l) : l[i] \in Jobs /\ ParentOf[l[i]] = p
<1>1. l \in Seq(Jobs) /\ l # <<>>
  BY PipelineAssumption
<1>2. Len(l) \in Nat /\ Len(l) > 0
  BY <1>1, EmptySeq, LenProperties
<1>3. \A i \in 1..Len(l) : l[i] \in Jobs
  BY <1>1, ElementOfSeq
<1>4. \A i \in 1..Len(l) : ParentOf[l[i]] = p
  BY PipelineAssumption DEF Files
<1> QED BY <1>1, <1>2, <1>3, <1>4 DEF IsPage

LEMMA ParentIsJob ==
  ASSUME NEW c \in Jobs, ~TopLevel(c) PROVE ParentOf[c] \in Jobs
  BY JobsAssumption DEF TopLevel

(* Whatever does not depend on the storage stays as it is while it does.   *)
storageVars == <<objects, crawled>>

LEMMA SameObjects ==
  ASSUME UNCHANGED storageVars
  PROVE  /\ Attempted' = Attempted /\ Told' = Told /\ Outgoing' = Outgoing
         /\ JobMessage' = JobMessage
         /\ WorkerState' = WorkerState /\ CoordinatorState' = CoordinatorState
  BY DEF storageVars, Attempted, Told, InStorage, Outgoing, JobMessage, Found, Single, WorkerState,
         CoordinatorState

LEMMA UnchangedParts ==
  ASSUME PipelineInv, UNCHANGED storageVars
  PROVE  /\ StorageOK'
         /\ UNCHANGED <<queue, worker>> => WorkersOK'
         /\ UNCHANGED parquetResults => ResultsOK'
         /\ UNCHANGED jobResults => LedgerTopicOK'
         /\ UNCHANGED <<coordinator, parquetResults, childRecords>> => CoordinatorOK'
         /\ UNCHANGED childRecords => RecordsOK'
         /\ UNCHANGED table => TablesOK'
<1>1. UNCHANGED <<queue, worker>> => WorkersOK'
  BY SameObjects DEF PipelineInv, WorkersOK
<1>2. UNCHANGED parquetResults => ResultsOK'
  BY SameObjects DEF PipelineInv, ResultsOK
<1>3. UNCHANGED jobResults => LedgerTopicOK'
  BY SameObjects DEF PipelineInv, LedgerTopicOK
<1>4. UNCHANGED <<coordinator, parquetResults, childRecords>> => CoordinatorOK'
  <2> SUFFICES ASSUME UNCHANGED <<coordinator, parquetResults, childRecords>> PROVE CoordinatorOK'
    OBVIOUS
  <2>1. ChildOf' = ChildOf
    BY DEF ChildOf
  <2> QED BY <2>1, SameObjects DEF PipelineInv, CoordinatorOK
<1>5. StorageOK'
  BY DEF PipelineInv, StorageOK, storageVars
<1>6. UNCHANGED childRecords => RecordsOK'
  BY DEF PipelineInv, RecordsOK, RowsSound, storageVars
<1>7. UNCHANGED table => TablesOK'
  BY DEF PipelineInv, TablesOK, TableSound, PageTable, storageVars
<1> QED BY <1>1, <1>2, <1>3, <1>4, <1>5, <1>6, <1>7

-----------------------------------------------------------------------------
(* A message more in one of the topics.                                    *)
LEMMA ResultArrives ==
  ASSUME PipelineInv, NEW m \in Attempted, parquetResults' = Append(parquetResults, m),
         UNCHANGED <<coordinator, childRecords>>, UNCHANGED storageVars
  PROVE  ResultsOK' /\ CoordinatorOK'
<1>1. parquetResults \in Seq(Attempted) /\ Len(parquetResults) \in Nat
  BY LenProperties DEF PipelineInv, ResultsOK
<1>2. /\ parquetResults' \in Seq(Attempted) /\ Len(parquetResults') = Len(parquetResults) + 1
      /\ \A i \in 1..Len(parquetResults) : parquetResults'[i] = parquetResults[i]
  BY <1>1, AppendProperties
<1>3. coordinator.handled \in Nat /\ coordinator.handled <= Len(parquetResults)
  BY DEF PipelineInv, CoordinatorOK, CoordinatorState
<1>4. coordinator.handled > 0 => ChildOf' = ChildOf
  BY <1>2, <1>3 DEF ChildOf
<1>5. coordinator'.handled <= Len(parquetResults')
  BY <1>1, <1>2, <1>3
<1>6. CoordinatorOK'
  BY <1>4, <1>5, SameObjects DEF PipelineInv, CoordinatorOK
<1> QED BY <1>2, <1>6, SameObjects DEF ResultsOK

LEMMA LedgerIsTold ==
  ASSUME PipelineInv, NEW m \in Told, jobResults' = Append(jobResults, m), UNCHANGED storageVars
  PROVE  LedgerTopicOK'
  BY AppendProperties, SameObjects DEF PipelineInv, LedgerTopicOK

LEMMA JobQueued ==
  ASSUME PipelineInv, NEW s \in Slots, NEW q \in JobMessage, queue' = [queue EXCEPT ![s] = Append(@, q)]
  PROVE  /\ queue' \in [Slots -> Seq(JobMessage)]
         /\ \A w \in Slots : Len(queue[w]) \in Nat /\ Len(queue'[w]) \in Nat /\ Len(queue[w]) <= Len(queue'[w])
<1>1. queue \in [Slots -> Seq(JobMessage)]
  BY DEF PipelineInv, WorkersOK
<1>2. /\ Append(queue[s], q) \in Seq(JobMessage) /\ Len(Append(queue[s], q)) = Len(queue[s]) + 1
  BY <1>1, AppendProperties
<1>3. \A w \in Slots : Len(queue[w]) \in Nat
  BY <1>1, LenProperties
<1> QED BY <1>1, <1>2, <1>3

\* A job queued while the workers stay as they are.
LEMMA QueuedKeepsWorkers ==
  ASSUME PipelineInv, NEW s \in Slots, NEW q \in JobMessage, queue' = [queue EXCEPT ![s] = Append(@, q)],
         UNCHANGED worker, UNCHANGED storageVars
  PROVE  WorkersOK'
<1>1. \A w \in Slots : worker[w].handled \in Nat /\ worker[w].handled <= Len(queue[w])
  BY DEF PipelineInv, WorkersOK, WorkerState
<1>2. \A w \in Slots : worker'[w].handled <= Len(queue'[w])
  BY <1>1, JobQueued
<1> QED BY <1>2, JobQueued, SameObjects DEF PipelineInv, WorkersOK

\* The ledger's jobs: an outside event is about a top-level job.
LEMMA PlannedIsTopLevel ==
  ASSUME NEW j \in Jobs, PublishPending(j) \/ PublishJob(j) \/ RetryJob(j)
  PROVE  JobMsg(j) \in JobMessage /\ JobMsg(j) \in JobMsgs
  BY TopLevelMessage DEF PublishPending, PublishJob, RetryJob

LEMMA SourcesKeepInv ==
  ASSUME PipelineInv, NEW j \in Jobs, PublishPending(j) \/ PublishJob(j) \/ RetryJob(j)
  PROVE  PipelineInv'
<1>1. CASE PublishPending(j)
  <2>1. /\ UNCHANGED <<queue, worker, parquetResults, coordinator, childRecords, table>>
        /\ UNCHANGED storageVars
        /\ jobResults' = Append(jobResults, Msg("PENDING", JobMsg(j), FALSE))
    BY <1>1 DEF PublishPending, Discovered, workerVars, coordinatorVars, storageVars
  <2>2. LedgerTopicOK'
    BY <2>1, PlannedIsTopLevel, HarmlessMessages, LedgerIsTold DEF Statuses
  <2> QED BY <2>1, <2>2, UnchangedParts DEF PipelineInv
<1>2. CASE PublishJob(j) \/ RetryJob(j)
  <2>1. /\ UNCHANGED <<worker, parquetResults, jobResults, coordinator, childRecords, table>>
        /\ UNCHANGED storageVars
        /\ \E s \in Slots : queue' = [queue EXCEPT ![s] = Append(@, JobMsg(j))]
    BY <1>2, PipelineAssumption DEF PublishJob, RetryJob, topicVars, coordinatorVars, storageVars
  <2>2. WorkersOK'
    BY <2>1, PlannedIsTopLevel, QueuedKeepsWorkers
  <2> QED BY <2>1, <2>2, UnchangedParts DEF PipelineInv
<1> QED BY <1>1, <1>2

-----------------------------------------------------------------------------
(* The workers.                                                            *)
\* The new state of one worker, whatever happens to the queues and objects.
LEMMA OneWorker ==
  ASSUME PipelineInv, NEW w \in Slots, NEW p \in WorkerState', worker' = [worker EXCEPT ![w] = p],
         WorkerState \subseteq WorkerState',
         JobMessage \subseteq JobMessage', queue' \in [Slots -> Seq(JobMessage')],
         \A x \in Slots \ {w} : Len(queue[x]) <= Len(queue'[x]),
         p.handled <= Len(queue'[w]), p.step # "idle" => p.handled > 0
  PROVE  WorkersOK'
<1>1. worker \in [Slots -> WorkerState] /\ queue \in [Slots -> Seq(JobMessage)]
  BY DEF PipelineInv, WorkersOK
<1>2. worker' \in [Slots -> WorkerState']
  BY <1>1
<1>3. \A x \in Slots \ {w} : worker'[x] = worker[x] /\ worker[x].handled \in Nat
  BY <1>1 DEF WorkerState
<1>4. \A x \in Slots : Len(queue[x]) \in Nat /\ Len(queue'[x]) \in Nat
  BY <1>1, LenProperties
<1>5. worker'[w] = p
  BY <1>1
<1>6. \A x \in Slots \ {w} : worker[x].handled <= Len(queue[x]) /\ (worker[x].step # "idle" => worker[x].handled > 0)
  BY DEF PipelineInv, WorkersOK
<1>7. \A x \in Slots : /\ worker'[x].handled <= Len(queue'[x])
                       /\ worker'[x].step # "idle" => worker'[x].handled > 0
  BY <1>3, <1>4, <1>5, <1>6
<1> QED BY <1>2, <1>7 DEF WorkersOK

LEMMA AWorker ==
  ASSUME PipelineInv, NEW w \in Slots
  PROVE  /\ worker[w] \in WorkerState /\ worker \in [Slots -> WorkerState]
         /\ worker[w].handled \in Nat /\ worker[w].handled <= Len(queue[w])
         /\ worker[w].step # "idle" => worker[w].handled > 0
         /\ worker[w].out \in Seq(Outgoing) /\ queue \in [Slots -> Seq(JobMessage)] /\ Len(queue[w]) \in Nat
  BY LenProperties DEF PipelineInv, WorkersOK, WorkerState

LEMMA MessageAt ==
  ASSUME PipelineInv, NEW w \in Slots, NEW n \in Nat, n > 0, n <= Len(queue[w])
  PROVE  queue[w][n] \in JobMessage /\ queue[w][n] \in JobMsgs /\ queue[w][n].job \in Jobs
<1>1. queue[w] \in Seq(JobMessage) /\ n \in 1..Len(queue[w])
  BY AWorker
<1>2. queue[w][n] \in JobMessage
  BY <1>1, ElementOfSeq
<1> QED BY <1>2 DEF JobMessage, JobMsgs

LEMMA BeginKeepsInv ==
  ASSUME PipelineInv, NEW w \in Slots, BeginJob(w) PROVE PipelineInv'
<1> DEFINE q == queue[w][worker[w].handled + 1]
           p == [worker[w] EXCEPT !.handled = @ + 1, !.step = "convert"]
<1>1. /\ UNCHANGED <<queue, jobResults, coordinator, childRecords, table>>
      /\ UNCHANGED storageVars
      /\ parquetResults' = Append(parquetResults, Msg("PROCESSING", q, FALSE))
      /\ worker' = [worker EXCEPT ![w] = p] /\ worker[w].handled < Len(queue[w])
  BY DEF BeginJob, coordinatorVars, storageVars
<1>2. q \in JobMessage /\ q \in JobMsgs
  <2> PICK n : n = worker[w].handled + 1
    OBVIOUS
  <2>1. n \in Nat /\ n > 0 /\ n <= Len(queue[w])
    BY <1>1, AWorker
  <2> QED BY <2>1, MessageAt
<1>3. /\ p \in WorkerState /\ p.handled = worker[w].handled + 1 /\ p.step = "convert"
  <2>1. worker[w].handled + 1 \in Nat
    BY AWorker
  <2> QED BY <2>1, AWorker DEF WorkerState
<1> HIDE DEF p
<1>4. p.handled <= Len(queue[w]) /\ p.handled > 0
  BY <1>1, <1>3, AWorker
<1>5. \A x \in Slots : Len(queue[x]) <= Len(queue'[x])
  BY <1>1, LenProperties, AWorker
<1>6. WorkersOK'
  BY <1>1, <1>3, <1>4, <1>5, AWorker, SameObjects, OneWorker
<1>7. ResultsOK' /\ CoordinatorOK'
  BY <1>1, <1>2, HarmlessMessages, ResultArrives DEF Statuses
<1> QED BY <1>1, <1>6, <1>7, UnchangedParts DEF PipelineInv

LEMMA PublishNextKeepsInv ==
  ASSUME PipelineInv, NEW w \in Slots, PublishNext(w) PROVE PipelineInv'
<1> DEFINE o == Head(worker[w].out)
           p == [worker[w] EXCEPT !.out = Tail(@)]
<1>1. /\ UNCHANGED <<jobResults, coordinator, childRecords, table>> /\ UNCHANGED storageVars
      /\ worker' = [worker EXCEPT ![w] = p] /\ worker[w].out # <<>> /\ worker[w].step = "publish"
      /\ \/ o.topic = "jobs" /\ queue' = [queue EXCEPT ![SlotOf[o.msg.job]] = Append(@, o.msg)] /\ UNCHANGED parquetResults
         \/ o.topic # "jobs" /\ parquetResults' = Append(parquetResults, o.msg) /\ UNCHANGED queue
  BY Zenon DEF PublishNext, coordinatorVars, storageVars
<1>2. o \in Outgoing /\ Tail(worker[w].out) \in Seq(Outgoing)
  BY Zenon, <1>1, AWorker, HeadTailProperties
<1>3. p \in WorkerState /\ p.handled = worker[w].handled /\ p.step = "publish"
  BY Zenon, <1>1, <1>2, AWorker DEF WorkerState
<1> HIDE DEF p, o
<1>4. CASE o.topic = "jobs" /\ queue' = [queue EXCEPT ![SlotOf[o.msg.job]] = Append(@, o.msg)] /\ UNCHANGED parquetResults
  <2>1. o.msg \in JobMessage /\ SlotOf[o.msg.job] \in Slots
    BY <1>2, <1>4, PipelineAssumption DEF Outgoing, JobMessage, JobMsgs
  <2>2. /\ queue' \in [Slots -> Seq(JobMessage)]
        /\ \A x \in Slots : Len(queue[x]) \in Nat /\ Len(queue'[x]) \in Nat /\ Len(queue[x]) <= Len(queue'[x])
    BY <1>4, <2>1, JobQueued
  <2>3. p.handled <= Len(queue'[w]) /\ p.handled > 0
    BY <1>1, <1>3, <2>2, AWorker
  <2>4. WorkersOK'
    BY <1>1, <1>3, <2>2, <2>3, SameObjects, OneWorker
  <2> QED BY <1>1, <1>4, <2>4, UnchangedParts DEF PipelineInv
<1>5. CASE o.topic # "jobs" /\ parquetResults' = Append(parquetResults, o.msg) /\ UNCHANGED queue
  <2>1. o.msg \in Attempted
    BY <1>2, <1>5 DEF Outgoing
  <2>2. \A x \in Slots : Len(queue[x]) <= Len(queue'[x])
    BY <1>5, LenProperties, AWorker
  <2>3. p.handled <= Len(queue'[w]) /\ p.handled > 0
    BY <1>1, <1>3, <1>5, AWorker
  <2>4. WorkersOK'
    BY <1>1, <1>3, <1>5, <2>2, <2>3, AWorker, SameObjects, OneWorker
  <2>5. ResultsOK' /\ CoordinatorOK'
    BY <1>1, <1>5, <2>1, ResultArrives
  <2> QED BY <1>1, <2>4, <2>5, UnchangedParts DEF PipelineInv
<1> QED BY <1>1, <1>4, <1>5

LEMMA CommitJobKeepsInv ==
  ASSUME PipelineInv, NEW w \in Slots, CommitJob(w) PROVE PipelineInv'
<1>1. UNCHANGED <<jobResults, parquetResults, coordinator, childRecords, table>> /\ UNCHANGED storageVars
  BY DEF CommitJob, topicVars, coordinatorVars, storageVars
<1>2. CASE queue' = [queue EXCEPT ![w] = After(@, worker[w].handled)] /\ worker' = [worker EXCEPT ![w] = Idle]
  <2>1. After(queue[w], worker[w].handled) \in Seq(JobMessage)
    BY AWorker, AfterIsSeq
  <2>2. /\ queue' \in [Slots -> Seq(JobMessage)] /\ Len(queue'[w]) \in Nat
        /\ \A x \in Slots \ {w} : queue'[x] = queue[x] /\ Len(queue[x]) \in Nat
    BY <1>2, <2>1, AWorker, LenProperties
  <2>3. Idle.handled <= Len(queue'[w])
    BY <2>2, IdleIsIdle
  <2>4. \A x \in Slots \ {w} : Len(queue[x]) <= Len(queue'[x])
    BY <2>2
  <2>5. WorkersOK'
    BY <1>1, <1>2, <2>2, <2>3, <2>4, IdleIsIdle, IdleIsState, SameObjects, OneWorker
  <2> QED BY <1>1, <2>5, UnchangedParts DEF PipelineInv
<1>3. CASE worker' = [worker EXCEPT ![w].step = "idle"] /\ UNCHANGED queue
  <2> DEFINE p == [worker[w] EXCEPT !.step = "idle"]
  <2>1. worker' = [worker EXCEPT ![w] = p] /\ p \in WorkerState /\ p.handled = worker[w].handled /\ p.step = "idle"
    BY <1>3, AWorker DEF WorkerState
  <2> HIDE DEF p
  <2>2. \A x \in Slots : Len(queue[x]) <= Len(queue'[x])
    BY <1>3, LenProperties, AWorker
  <2>3. WorkersOK'
    BY <1>1, <1>3, <2>1, <2>2, AWorker, SameObjects, OneWorker
  <2> QED BY <1>1, <2>3, UnchangedParts DEF PipelineInv
<1> QED BY <1>2, <1>3 DEF CommitJob

LEMMA CrashWorkersKeepsInv == PipelineInv /\ CrashWorkers => PipelineInv'
<1> SUFFICES ASSUME PipelineInv, CrashWorkers PROVE PipelineInv'
  OBVIOUS
<1>1. /\ UNCHANGED <<queue, jobResults, parquetResults, coordinator, childRecords, table>>
      /\ UNCHANGED storageVars
      /\ worker' = [x \in Slots |-> Idle]
  BY DEF CrashWorkers, topicVars, coordinatorVars, storageVars
<1>2. \A x \in Slots : Len(queue[x]) \in Nat
  BY AWorker
<1>3. WorkersOK'
  BY <1>1, <1>2, IdleIsIdle, IdleIsState, SameObjects DEF WorkersOK, PipelineInv
<1> QED BY <1>1, <1>3, UnchangedParts DEF PipelineInv

-----------------------------------------------------------------------------
(* Conversion, the one step that adds objects and finds lists.             *)
StorageGrows == objects \subseteq objects' /\ \A j \in Jobs : crawled[j] \subseteq crawled'[j]

LEMMA FoundStays ==
  ASSUME StorageGrows, NEW q, q.job \in Jobs, Found(q) PROVE Found(q)'
  BY ParentIsJob DEF StorageGrows, Found

LEMMA InStorageStays ==
  ASSUME StorageGrows, NEW j \in Jobs, InStorage(j) PROVE InStorage(j)'
<1>1. CASE j \in objects
  BY <1>1 DEF StorageGrows, InStorage
<1>2. CASE IsPage(j) /\ \E l \in crawled[j] : crawled[j] = {l} => Files(l) \subseteq objects
  <2> PICK l \in crawled[j] : crawled[j] = {l} => Files(l) \subseteq objects
    BY <1>2
  <2>1. l \in crawled'[j] /\ (crawled'[j] = {l} => crawled[j] = {l})
    BY DEF StorageGrows
  <2>2. crawled'[j] = {l} => Files(l) \subseteq objects'
    BY <2>1 DEF StorageGrows
  <2> QED BY <1>2, <2>1, <2>2 DEF InStorage
<1> QED BY <1>1, <1>2 DEF InStorage

LEMMA ObjectsGrow ==
  ASSUME StorageGrows
  PROVE  /\ JobMessage \subseteq JobMessage' /\ Attempted \subseteq Attempted' /\ Told \subseteq Told'
         /\ Outgoing \subseteq Outgoing'
         /\ WorkerState \subseteq WorkerState' /\ CoordinatorState \subseteq CoordinatorState'
<1>1. JobMessage \subseteq JobMessage'
  BY FoundStays DEF JobMessage, JobMsgs
<1>2. Told \subseteq Told'
  BY InStorageStays DEF Told, ResultMessage
<1>3. Attempted \subseteq Attempted'
  <2> SUFFICES ASSUME NEW m \in Attempted PROVE m \in Attempted'
    OBVIOUS
  <2>1. m \in ResultMessage /\ m.job \in Jobs /\ Found(m) /\ (m.status = "SUCCESS" => m.job \in objects)
        /\ (m.status = "SUCCESS" /\ m.artifact => Single(m.job))
    BY DEF Attempted, ResultMessage
  <2>2. Found(m)'
    BY <2>1, FoundStays
  <2>3. Single(m.job) => Single(m.job)'
    BY <2>1 DEF Single, StorageGrows
  <2> QED BY <2>1, <2>2, <2>3 DEF Attempted, StorageGrows
<1>4. Outgoing \subseteq Outgoing'
  BY <1>1, <1>3 DEF Outgoing
<1>5. Seq(Outgoing) \subseteq Seq(Outgoing') /\ Seq(Told) \subseteq Seq(Told')
  BY <1>2, <1>4, SeqGrows
<1> QED BY <1>1, <1>2, <1>3, <1>4, <1>5 DEF WorkerState, CoordinatorState

LEMMA RowsStaySound ==
  ASSUME PipelineInv, StorageGrows, UNCHANGED <<childRecords, table>>
  PROVE  RecordsOK' /\ TablesOK'
<1>1. \A p \in Jobs : RowsSound(p)'
  BY DEF PipelineInv, RecordsOK, RowsSound, StorageGrows
<1>2. ASSUME NEW r \in Resources, table[r] # NoTable PROVE TableSound(r)'
  <2>1. TableSound(r) /\ table[r].job \in Jobs
    BY <1>2 DEF PipelineInv, TablesOK, Table
  <2>2. PageTable(table[r].job, table[r].files) => PageTable(table[r].job, table[r].files)'
    BY <2>1 DEF PageTable, StorageGrows
  <2> QED BY <2>1, <2>2 DEF TableSound
<1> QED BY <1>1, <1>2 DEF PipelineInv, RecordsOK, TablesOK

\* For each file its announcement and its job.
LEMMA ChildMessagesAreOutgoing ==
  ASSUME NEW j \in Jobs, NEW l \in Crawls[j], l \in crawled'[j], Len(l) > 1
  PROVE  ChildMessages(l) \in Seq(Outgoing')
<1> DEFINE n == Len(l)
           q(k) == FileMsg(l[k], k - 1, n)
           Said(i) == LET k == (i + 1) \div 2 IN
             IF i % 2 = 1 THEN ToResults(Discovered("PENDING", q(k))) ELSE ToJobs(q(k))
<1>1. n \in Nat /\ n > 1 /\ \A i \in 1..n : l[i] \in Jobs /\ ParentOf[l[i]] = j
  BY ListsAreLists
<1>2. \A i \in 1..(2 * n) : (i + 1) \div 2 \in 1..n
  <2> HIDE DEF n
  <2> QED BY <1>1
<1>3. ASSUME NEW k \in 1..n
      PROVE  ToResults(Discovered("PENDING", q(k))) \in Outgoing' /\ ToJobs(q(k)) \in Outgoing'
  <2>1. k - 1 \in Nat /\ (k - 1) + 1 = k
    BY <1>1
  <2>2. /\ q(k) \in JobMsgs /\ q(k).job = l[k] /\ q(k).index = k - 1 /\ q(k).total = n
    BY <1>1, <2>1 DEF FileMsg, JobMsgs
  <2>3. StandsIn(l, l[k], k - 1)
    BY <1>1, <2>1 DEF StandsIn
  <2> HIDE DEF q
  <2>4. Found(q(k))'
    BY <1>1, <2>2, <2>3 DEF Found
  <2>5. q(k) \in JobMessage'
    BY <2>2, <2>4 DEF JobMessage
  <2> DEFINE m == Msg("PENDING", q(k), FALSE)
  <2>6. m \in ResultMessage /\ m.status = "PENDING" /\ m.job = q(k).job /\ m.index = q(k).index /\ m.total = q(k).total
    BY <2>2, MsgIsMessage DEF Statuses
  <2> HIDE DEF m
  <2>7. Found(m)'
    BY <2>4, <2>6 DEF Found
  <2>8. m \in Attempted'
    BY <2>6, <2>7 DEF Attempted
  <2> QED BY <2>5, <2>8 DEF Discovered, ToResults, ToJobs, Outgoing, m
<1>4. \A i \in 1..(2 * n) : Said(i) \in Outgoing'
  <2> HIDE DEF q, n
  <2> QED BY <1>2, <1>3
<1>5. 2 * n \in Nat
  BY <1>1
<1>6. ChildMessages(l) = [i \in 1..(2 * n) |-> Said(i)]
  BY DEF ChildMessages
<1> HIDE DEF Said, n
<1> QED BY <1>4, <1>5, <1>6

LEMMA ConversionsAreSound ==
  ASSUME PipelineInv, NEW q \in JobMessage, NEW c \in Conversions(q), StorageGrows,
         objects' = objects \cup c.uploaded, crawled'[q.job] = crawled[q.job] \cup c.found
  PROVE  c.out \in Seq(Outgoing') /\ c.uploaded \subseteq {q.job} /\ c.found \subseteq Crawls[q.job]
<1> DEFINE j == q.job
           Result(s, has) == <<ToResults(Msg(s, q, has))>>
           Outcome(out, uploaded, found) == [out |-> out, uploaded |-> uploaded, found |-> found]
<1>0. q \in JobMsgs /\ Found(q)' /\ j \in Jobs
  BY FoundStays DEF JobMessage, JobMsgs
<1>1. ASSUME NEW s \in Statuses, NEW has \in BOOLEAN,
             s = "SUCCESS" => j \in objects' /\ (has => Single(j)')
      PROVE  Result(s, has) \in Seq(Outgoing')
  <2> DEFINE m == Msg(s, q, has)
             o == ToResults(m)
  <2>1. /\ m \in ResultMessage /\ m.status = s /\ m.artifact = has
        /\ m.job = j /\ m.index = q.index /\ m.total = q.total
    BY <1>0, MsgIsMessage
  <2> HIDE DEF m
  <2>2. Found(m)'
    BY <1>0, <2>1 DEF Found
  <2>3. m \in Attempted'
    BY <1>1, <2>1, <2>2 DEF Attempted
  <2>4. o \in Outgoing'
    BY <2>3 DEF ToResults, Outgoing
  <2> HIDE DEF o
  <2>5. <<o>> \in Seq(Outgoing')
    BY <2>4, SingleIsSeq
  <2> QED BY <2>5 DEF o, m
<1>2. ASSUME NEW found, NEW uploaded, NEW f \in Failures, c = Outcome(Result(f, FALSE), uploaded, found),
             uploaded \subseteq {j}, found \subseteq Crawls[j]
      PROVE  c.out \in Seq(Outgoing') /\ c.uploaded \subseteq {j} /\ c.found \subseteq Crawls[j]
  <2>1. f \in Statuses /\ f # "SUCCESS"
    BY PipelineAssumption DEF Statuses
  <2>2. Result(f, FALSE) \in Seq(Outgoing')
    BY <1>1, <2>1
  <2> HIDE DEF Result
  <2> QED BY <1>2, <2>2
<1>3. ASSUME NEW found, c = Outcome(Result("SUCCESS", TRUE), {j}, found), found \subseteq Crawls[j],
             IsPage(j) => \E l \in found : Len(l) = 1
      PROVE  c.out \in Seq(Outgoing') /\ c.uploaded \subseteq {j} /\ c.found \subseteq Crawls[j]
  <2>1. c.uploaded = {j} /\ c.found = found /\ c.out = Result("SUCCESS", TRUE)
    BY <1>3
  <2>2. j \in objects' /\ Single(j)'
    BY <1>3, <2>1 DEF Single
  <2>3. Result("SUCCESS", TRUE) \in Seq(Outgoing')
    BY <1>1, <2>2 DEF Statuses
  <2> HIDE DEF Result
  <2> QED BY <1>3, <2>1, <2>3
<1>4. ASSUME TopLevel(j) /\ j \in objects /\ c = Outcome(Result("SUCCESS", FALSE), {}, {})
      PROVE  c.out \in Seq(Outgoing') /\ c.uploaded \subseteq {j} /\ c.found \subseteq Crawls[j]
  <2>1. Result("SUCCESS", FALSE) \in Seq(Outgoing')
    BY <1>1, <1>4 DEF Statuses, StorageGrows
  <2> HIDE DEF Result
  <2> QED BY <1>4, <2>1
<1>5. ASSUME NEW l \in Crawls[j], Len(l) > 1,
             c = Outcome(Result("PROCESSING", FALSE) \o ChildMessages(l), {}, {l})
      PROVE  c.out \in Seq(Outgoing') /\ c.uploaded \subseteq {j} /\ c.found \subseteq Crawls[j]
  <2>1. c.uploaded = {} /\ c.found = {l} /\ c.out = Result("PROCESSING", FALSE) \o ChildMessages(l)
    BY <1>5
  <2>2. ChildMessages(l) \in Seq(Outgoing')
    BY <1>0, <1>5, <2>1, ChildMessagesAreOutgoing
  <2>3. Result("PROCESSING", FALSE) \in Seq(Outgoing')
    BY <1>1 DEF Statuses
  <2> HIDE DEF Result
  <2>4. Result("PROCESSING", FALSE) \o ChildMessages(l) \in Seq(Outgoing')
    BY <2>2, <2>3, ConcatProperties
  <2> QED BY <2>1, <2>4
<1>6. \/ TopLevel(j) /\ j \in objects /\ c = Outcome(Result("SUCCESS", FALSE), {}, {})
      \/ \E f \in Failures, uploaded \in {{}, {j}}, found \in {{}} \cup {{l} : l \in Crawls[j]} :
           c = Outcome(Result(f, FALSE), uploaded, found)
      \/ \E found \in {{}} \cup {{l} : l \in Crawls[j]} :
           /\ c = Outcome(Result("SUCCESS", TRUE), {j}, found)
           /\ IsPage(j) => \E l \in found : Len(l) = 1
      \/ \E l \in Crawls[j] :
           Len(l) > 1 /\ c = Outcome(Result("PROCESSING", FALSE) \o ChildMessages(l), {}, {l})
  <2> DEFINE Failed(uploaded, found) ==
               {Outcome(Result(f, FALSE), uploaded, found) : f \in Failures \cap {"FAILED"}}
             Converted(found) ==
               {Outcome(Result("SUCCESS", TRUE), {j}, found)} \cup Failed({j}, found)
  <2>1. \/ TopLevel(j) /\ j \in objects /\ c = Outcome(Result("SUCCESS", FALSE), {}, {})
        \/ c \in Failed({}, {})
        \/ c \in {Outcome(Result(f, FALSE), {}, {}) : f \in Failures}
        \/ ~IsPage(j) /\ c \in Converted({})
        \/ \E l \in Crawls[j] : Len(l) = 1 /\ c \in Converted({l})
        \/ \E l \in Crawls[j] :
             Len(l) > 1 /\ c = Outcome(Result("PROCESSING", FALSE) \o ChildMessages(l), {}, {l})
    BY DEF Conversions
  <2> HIDE DEF Result, Outcome
  <2> QED BY <2>1
<1> HIDE DEF Result, Outcome
<1>7. \A found \in {{}} \cup {{l} : l \in Crawls[j]} : found \subseteq Crawls[j]
  OBVIOUS
<1> QED BY <1>2, <1>3, <1>4, <1>5, <1>6, <1>7

LEMMA ConvertKeepsInv ==
  ASSUME PipelineInv, NEW w \in Slots, ConvertJob(w) PROVE PipelineInv'
<1> DEFINE q == JobAt(w)
<1>1. /\ UNCHANGED <<queue, parquetResults, jobResults, coordinator, childRecords, table>>
      /\ worker[w].step = "convert"
  BY DEF ConvertJob, topicVars, coordinatorVars
<1>2. q \in JobMessage /\ q.job \in Jobs
  BY <1>1, AWorker, MessageAt DEF JobAt
<1>3. PICK c \in Conversions(q) :
        /\ objects' = objects \cup c.uploaded
        /\ crawled' = [crawled EXCEPT ![q.job] = @ \cup c.found]
        /\ worker' = [worker EXCEPT ![w].step = "publish", ![w].out = c.out]
  BY DEF ConvertJob
<1> HIDE DEF q
<1>4. crawled \in [Jobs -> SUBSET Seq(Jobs)] /\ crawled'[q.job] = crawled[q.job] \cup c.found
      /\ \A j \in Jobs \ {q.job} : crawled'[j] = crawled[j]
  BY <1>2, <1>3 DEF PipelineInv, StorageOK
<1>5. StorageGrows
  BY <1>2, <1>3, <1>4 DEF StorageGrows
<1>6. c.out \in Seq(Outgoing') /\ c.uploaded \subseteq {q.job} /\ c.found \subseteq Crawls[q.job]
  BY <1>2, <1>3, <1>4, <1>5, ConversionsAreSound
<1>7. StorageOK'
  <2>1. c.found \subseteq Seq(Jobs)
    BY <1>2, <1>6, PipelineAssumption
  <2>2. crawled' \in [Jobs -> SUBSET Seq(Jobs)]
    BY <1>2, <1>3, <1>4, <2>1
  <2> QED BY <1>2, <1>3, <1>4, <1>6, <2>2 DEF PipelineInv, StorageOK
<1>8. WorkersOK'
  <2> DEFINE p == [worker[w] EXCEPT !.step = "publish", !.out = c.out]
  <2>1. worker' = [worker EXCEPT ![w] = p]
    BY <1>3
  <2>2. p \in WorkerState' /\ p.handled = worker[w].handled
    BY <1>6, AWorker DEF WorkerState
  <2> HIDE DEF p
  <2>3. \A x \in Slots : Len(queue[x]) <= Len(queue'[x])
    BY <1>1, LenProperties, AWorker
  <2>4. JobMessage \subseteq JobMessage' /\ WorkerState \subseteq WorkerState'
    BY <1>5, ObjectsGrow
  <2>5. queue' \in [Slots -> Seq(JobMessage')]
    BY <1>1, <2>4, AWorker, SeqGrows
  <2>6. p.handled <= Len(queue'[w]) /\ p.handled > 0
    BY <1>1, <2>2, AWorker
  <2> QED BY <2>1, <2>2, <2>3, <2>4, <2>5, <2>6, OneWorker
<1>9. ResultsOK' /\ LedgerTopicOK'
  BY <1>1, <1>5, ObjectsGrow, SeqGrows DEF PipelineInv, ResultsOK, LedgerTopicOK
<1>10. CoordinatorOK'
  <2>1. ChildOf' = ChildOf
    BY <1>1 DEF ChildOf
  <2> QED BY <1>1, <1>5, <2>1, ObjectsGrow DEF PipelineInv, CoordinatorOK
<1>11. RecordsOK' /\ TablesOK'
  BY <1>1, <1>5, RowsStaySound
<1> QED BY <1>7, <1>8, <1>9, <1>10, <1>11 DEF PipelineInv

-----------------------------------------------------------------------------
(* The coordinator.                                                        *)
LEMMA ResultAt ==
  ASSUME PipelineInv, NEW n \in Nat, n > 0, n <= Len(parquetResults)
  PROVE  /\ parquetResults[n] \in Attempted /\ parquetResults[n] \in ResultMessage
         /\ parquetResults[n].job \in Jobs
<1>1. parquetResults \in Seq(Attempted) /\ n \in 1..Len(parquetResults)
  BY LenProperties DEF PipelineInv, ResultsOK
<1>2. parquetResults[n] \in Attempted
  BY <1>1, ElementOfSeq
<1> QED BY <1>2 DEF Attempted, ResultMessage

LEMMA TheCoordinator ==
  ASSUME PipelineInv
  PROVE  /\ coordinator \in CoordinatorState /\ coordinator.handled \in Nat
         /\ coordinator.handled <= Len(parquetResults) /\ Len(parquetResults) \in Nat
         /\ coordinator.out \in Seq(Told) /\ parquetResults \in Seq(Attempted)
         /\ coordinator.step \in {"merge", "record failed"} =>
              coordinator.handled > 0 /\ ~TopLevel(ChildOf) /\ ChildOf \in Jobs
         /\ coordinator.step = "merge" => childRecords[ParentOf[ChildOf]].total > 0
<1>1. /\ coordinator \in CoordinatorState /\ coordinator.handled \in Nat
      /\ coordinator.handled <= Len(parquetResults) /\ Len(parquetResults) \in Nat
      /\ coordinator.out \in Seq(Told) /\ parquetResults \in Seq(Attempted)
      /\ coordinator.step \in {"merge", "record failed"} => coordinator.handled > 0 /\ ~TopLevel(ChildOf)
      /\ coordinator.step = "merge" => childRecords[ParentOf[ChildOf]].total > 0
  BY LenProperties DEF PipelineInv, CoordinatorOK, CoordinatorState, ResultsOK
<1>2. coordinator.handled > 0 => ChildOf \in Jobs
  BY <1>1, ResultAt DEF ChildOf
<1> QED BY <1>1, <1>2

(* The positions of a list, and what a table with as many files as the     *)
(* only list found looks like.                                             *)
LEMMA PartsOfList ==
  ASSUME NEW p \in Jobs, NEW l \in Crawls[p]
  PROVE  /\ DOMAIN Parts(p, l) = 0..(Len(l) - 1)
         /\ Len(l) = 1 => Parts(p, l) = Own(p)
         /\ Len(l) > 1 => Parts(p, l) = [i \in 0..(Len(l) - 1) |-> l[i + 1]]
<1>1. Len(l) \in Nat /\ Len(l) > 0
  BY ListsAreLists
<1>2. CASE Len(l) = 1
  <2>1. 0..(Len(l) - 1) = {0}
    BY <1>2
  <2> QED BY <1>2, <2>1 DEF Parts, Own
<1>3. CASE Len(l) > 1
  BY <1>3 DEF Parts
<1>4. Len(l) = 1 \/ Len(l) > 1
  <2> PICK n : n = Len(l)
    OBVIOUS
  <2>1. n \in Nat /\ n > 0
    BY <1>1
  <2>2. n = 1 \/ n > 1
    BY <2>1
  <2> QED BY <2>2
<1> QED BY <1>2, <1>3, <1>4

LEMMA WholeList ==
  ASSUME NEW p \in Jobs, NEW l \in Crawls[p], crawled[p] = {l},
         NEW files \in FileTables, PageTable(p, files)
  PROVE  files = Parts(p, l)
<1> DEFINE n == Len(l)
           D == DOMAIN files
<1>1. n \in Nat /\ n > 0 /\ 0 \in Int /\ n - 1 \in Int
  BY ListsAreLists
<1>2. IsFiniteSet(0..(n - 1)) /\ Cardinality(0..(n - 1)) = n
  <2>1. ~(0 > n - 1) /\ (n - 1) - 0 + 1 = n
    BY <1>1
  <2> HIDE DEF n
  <2> QED BY <1>1, <2>1, FS_Interval
<1>3. /\ Cardinality(D) = n
      /\ \A i \in D : i \in DOMAIN Parts(p, l) /\ files[i] = Parts(p, l)[i]
  BY DEF PageTable
<1>4. D \subseteq 0..(n - 1)
  BY <1>3, PartsOfList
<1>5. D = 0..(n - 1)
  <2> HIDE DEF n, D
  <2> QED BY <1>2, <1>3, <1>4, FS_Subset
<1>6. files = [i \in D |-> files[i]]
  BY DEF FileTables
<1>7. DOMAIN Parts(p, l) = D /\ Parts(p, l) = [i \in D |-> Parts(p, l)[i]]
  BY <1>5, PartsOfList DEF Parts, Own
<1> QED BY <1>3, <1>6, <1>7

\* A registered table is sound, and replaces none that is as new.
LEMMA RegisterIsSound ==
  ASSUME PipelineInv, NEW j \in Jobs, NEW files \in FileTables, Register(j, files), UNCHANGED storageVars,
         IsPage(j) => PageTable(j, files)
  PROVE  /\ TablesOK'
         /\ \A r \in Resources : table[r] # NoTable =>
              table'[r] # NoTable /\ table'[r].version >= table[r].version
<1> DEFINE t == [job |-> j, version |-> Version[j], files |-> files]
           r0 == ResourceOf[j]
<1>1. t \in Table /\ t.job = j /\ t.version = Version[j] /\ t.files = files /\ t # NoTable /\ r0 \in Resources
      /\ Version[j] \in Nat
  BY PipelineAssumption, JobsAssumption DEF Table, NoTable
<1>2. /\ table \in [Resources -> {NoTable} \cup Table]
      /\ \A r \in Resources : table[r] # NoTable => TableSound(r) /\ table[r].version \in Nat
  BY DEF PipelineInv, TablesOK, Table
<1>3. table' = IF IsStale(r0, j) THEN table ELSE [table EXCEPT ![r0] = t]
  BY DEF Register
<1>4. IsPage(j) => PageTable(j, files)'
  BY DEF PageTable, storageVars
<1> HIDE DEF t
<1>5. CASE IsStale(r0, j)
  <2>1. table' = table
    BY <1>3, <1>5
  <2> QED BY <1>2, <2>1, UnchangedParts
<1>6. CASE ~IsStale(r0, j)
  <2>1. /\ table' \in [Resources -> {NoTable} \cup Table] /\ table'[r0] = t
        /\ \A r \in Resources \ {r0} : table'[r] = table[r]
    BY <1>1, <1>2, <1>3, <1>6
  <2>2. table[r0] # NoTable => ~(table[r0].version >= t.version)
    BY <1>1, <1>6 DEF IsStale
  <2>3. TableSound(r0)'
    BY <1>1, <1>4, <2>1 DEF TableSound
  <2>4. \A r \in Resources \ {r0} : table[r] # NoTable => TableSound(r)'
    <3> SUFFICES ASSUME NEW r \in Resources \ {r0}, table[r] # NoTable PROVE TableSound(r)'
      OBVIOUS
    <3>1. TableSound(r) /\ table'[r] = table[r]
      BY <1>2, <2>1
    <3> QED BY <3>1 DEF TableSound, PageTable, storageVars
  <2>5. TablesOK'
    BY <2>1, <2>3, <2>4 DEF TablesOK
  <2>6. table[r0] # NoTable => table'[r0].version >= table[r0].version
    BY <1>1, <1>2, <2>1, <2>2
  <2>7. \A r \in Resources \ {r0} : table[r] # NoTable => table'[r].version >= table[r].version
    BY <1>2, <2>1
  <2> QED BY <1>1, <2>1, <2>5, <2>6, <2>7
<1> QED BY <1>5, <1>6

\* A recorded row keeps the group sound.
LEMMA RecordIsSound ==
  ASSUME PipelineInv, NEW m \in ResultMessage, ~TopLevel(m.job), Found(m),
         NEW s, s = "SUCCESS" => m.job \in objects, Record(m, s), UNCHANGED storageVars
  PROVE  RecordsOK' /\ childRecords'[ParentOf[m.job]].total > 0
<1> DEFINE p == ParentOf[m.job]
           row == [job |-> m.job, status |-> IF s = "SUCCESS" THEN s ELSE "FAILED"]
           old == childRecords[p]
           new == [total |-> m.total, rows |-> Recorded(old.rows, m.index, row)]
           Rows == UNION {[D -> Row] : D \in SUBSET Nat}
<1>1. m.job \in Jobs /\ m.index \in Nat /\ m.total \in Nat /\ p \in Jobs
  BY ParentIsJob DEF ResultMessage
<1>2. PICK l \in crawled[p] : StandsIn(l, m.job, m.index) /\ m.total = Len(l)
  BY DEF Found
<1>3. Len(l) > 1
  BY <1>2 DEF StandsIn
<1>4. /\ childRecords \in [Jobs -> [total : Nat, rows : Rows]]
      /\ \A x \in Jobs : RowsSound(x)
  BY DEF PipelineInv, RecordsOK
<1>5. childRecords' = [childRecords EXCEPT ![p] = new]
  BY DEF Record
<1>6. row \in Row /\ (row.status = "SUCCESS" => row.job \in objects) /\ row.job = m.job
  BY <1>1 DEF Row
<1> HIDE DEF row
<1>7. Recorded(old.rows, m.index, row) \in Rows
  <2>0. old.rows \in Rows
    <3> HIDE DEF Rows
    <3>1. childRecords[p] \in [total : Nat, rows : Rows]
      BY <1>1, <1>4
    <3> QED BY <3>1
  <2>1. PICK D \in SUBSET Nat : old.rows \in [D -> Row]
    BY <2>0
  <2>2. DOMAIN old.rows = D /\ D \cup {m.index} \in SUBSET Nat
    BY <1>1, <2>1
  <2>3. [k \in D \cup {m.index} |-> IF k = m.index THEN row ELSE old.rows[k]] \in [D \cup {m.index} -> Row]
    BY <1>6, <2>1
  <2>4. \/ Recorded(old.rows, m.index, row) = old.rows
        \/ Recorded(old.rows, m.index, row) =
             [k \in D \cup {m.index} |-> IF k = m.index THEN row ELSE old.rows[k]]
    BY <2>2 DEF Recorded
  <2> QED BY <2>1, <2>2, <2>3, <2>4
<1>8. \A i \in DOMAIN Recorded(old.rows, m.index, row) :
        LET x == Recorded(old.rows, m.index, row)[i] IN
          \/ i = m.index /\ x = row
          \/ i \in DOMAIN old.rows /\ x = old.rows[i]
  BY DEF Recorded
<1>9. new \in [total : Nat, rows : Rows] /\ new.total = m.total
      /\ new.rows = Recorded(old.rows, m.index, row)
  BY <1>1, <1>7
<1> HIDE DEF new
<1>10. /\ childRecords' \in [Jobs -> [total : Nat, rows : Rows]]
       /\ childRecords'[p] = new /\ \A x \in Jobs \ {p} : childRecords'[x] = childRecords[x]
  BY <1>1, <1>4, <1>5, <1>9
<1>11. RowsSound(p)'
  <2>1. \E k \in crawled[p] : Len(k) > 1 /\ new.total = Len(k)
    BY <1>2, <1>3, <1>9
  <2>2. ASSUME NEW i \in DOMAIN new.rows
        PROVE  /\ \E k \in crawled[p] : StandsIn(k, new.rows[i].job, i)
               /\ new.rows[i].status = "SUCCESS" => new.rows[i].job \in objects
    <3>1. CASE i = m.index /\ new.rows[i] = row
      BY <1>2, <1>6, <3>1
    <3>2. CASE i \in DOMAIN old.rows /\ new.rows[i] = old.rows[i]
      BY <1>1, <1>4, <3>2 DEF RowsSound
    <3> QED BY <1>8, <1>9, <2>2, <3>1, <3>2
  <2> QED BY <1>10, <2>1, <2>2 DEF RowsSound, storageVars
<1>12. \A x \in Jobs \ {p} : RowsSound(x)'
  BY <1>4, <1>10 DEF RowsSound, storageVars
<1>13. new.total > 0
  BY <1>1, <1>2, <1>3, <1>9
<1> QED BY <1>10, <1>11, <1>12, <1>13 DEF RecordsOK

\* The steps of the table: none, or a sound registration.
Registered ==
  \E j \in Jobs, files \in FileTables : Register(j, files) /\ (IsPage(j) => PageTable(j, files))

LEMMA TableStep ==
  ASSUME PipelineInv, UNCHANGED table \/ Registered, UNCHANGED storageVars
  PROVE  /\ TablesOK'
         /\ \A r \in Resources : table[r] # NoTable =>
              table'[r] # NoTable /\ table'[r].version >= table[r].version
<1>1. CASE UNCHANGED table
  <2>1. \A r \in Resources : table[r] # NoTable => table[r].version \in Nat
    BY DEF PipelineInv, TablesOK, Table
  <2> QED BY <1>1, <2>1, UnchangedParts
<1>2. CASE Registered
  BY <1>2, RegisterIsSound DEF Registered
<1> QED BY <1>1, <1>2

LEMMA NextPosition ==
  ASSUME NEW n \in Nat, NEW h \in Nat, h < n PROVE h + 1 \in Nat /\ h + 1 <= n /\ h + 1 > 0
  OBVIOUS

LEMMA WithinLength ==
  ASSUME NEW n \in Nat, NEW h \in Nat, h <= n PROVE h \in 0..n
  OBVIOUS

\* A received message is taken to the next step.
LEMMA Forwarding ==
  ASSUME PipelineInv, coordinator.handled < Len(parquetResults), UNCHANGED parquetResults,
         UNCHANGED storageVars,
         NEW step \in {"merge", "record failed", "publish"}, NEW o \in Told,
         coordinator' = [coordinator EXCEPT !.handled = @ + 1, !.step = step, !.out = <<o>>],
         LET c == parquetResults[coordinator.handled + 1].job IN
           /\ step \in {"merge", "record failed"} => ~TopLevel(c)
           /\ step = "merge" => childRecords'[ParentOf[c]].total > 0
  PROVE  CoordinatorOK'
<1>1. /\ coordinator.handled + 1 \in Nat /\ coordinator.handled + 1 <= Len(parquetResults)
      /\ coordinator.handled + 1 > 0
  <2>1. coordinator.handled \in Nat /\ Len(parquetResults) \in Nat
    BY TheCoordinator
  <2> QED BY <2>1, NextPosition
<1>2. <<o>> \in Seq(Told)
  BY SingleIsSeq
<1>3. /\ coordinator' \in CoordinatorState /\ coordinator'.handled = coordinator.handled + 1
      /\ coordinator'.step = step
  BY <1>1, <1>2, TheCoordinator DEF CoordinatorState
<1>4. ChildOf' = parquetResults[coordinator.handled + 1].job
  BY <1>3 DEF ChildOf
<1>5. coordinator'.handled > 0
  BY <1>1, <1>3
<1> QED BY <1>1, <1>3, <1>4, <1>5, SameObjects DEF CoordinatorOK

LEMMA ReceiveChildSound ==
  ASSUME PipelineInv, NEW m, m = parquetResults[coordinator.handled + 1], m \in Attempted,
         coordinator.handled < Len(parquetResults), UNCHANGED parquetResults, UNCHANGED storageVars,
         ReceiveChildResult(m)
  PROVE  CoordinatorOK' /\ RecordsOK' /\ UNCHANGED table /\ coordinator'.out \in Seq(PassedOn)
<1> DEFINE s == IF m.status = "SUCCESS" /\ ~m.artifact THEN "FAILED" ELSE m.status
           o == [m EXCEPT !.status = s, !.artifact = FALSE]
<1>1. m \in ResultMessage /\ m.job \in Jobs /\ s \in Statuses /\ (s = "SUCCESS" => m.job \in objects) /\ Found(m)
  BY DEF Attempted, ResultMessage, Statuses
<1>2. UNCHANGED table /\ ~TopLevel(m.job)
  BY DEF ReceiveChildResult
<1>3. PICK step \in {"merge", "record failed"} :
        /\ Record(m, s) \/ (step = "record failed" /\ UNCHANGED childRecords)
        /\ coordinator' = [coordinator EXCEPT !.handled = @ + 1, !.step = step, !.out = <<o>>]
  BY DEF ReceiveChildResult
<1> HIDE DEF s
<1>4. o \in ResultMessage /\ o.status = s /\ o.job = m.job
  BY <1>1 DEF ResultMessage
<1> HIDE DEF o
<1>5. o \in Told
  BY <1>1, <1>4 DEF Told, InStorage
<1>6. RecordsOK' /\ (step = "merge" => childRecords'[ParentOf[m.job]].total > 0)
  BY <1>1, <1>2, <1>3, RecordIsSound, UnchangedParts
<1>7. CoordinatorOK'
  BY <1>2, <1>3, <1>5, <1>6, Forwarding
<1>8. coordinator'.out = <<o>>
  BY <1>3, TheCoordinator DEF CoordinatorState
<1>9. coordinator'.out \in Seq(PassedOn)
  BY <1>1, <1>4, <1>8, SingleIsSeq DEF PassedOn
<1> QED BY <1>2, <1>6, <1>7, <1>9

\* A page converted as the single file it has.
LEMMA OwnTable ==
  ASSUME PipelineInv, NEW j \in Jobs, j \in objects, Single(j)
  PROVE  Own(j) \in FileTables /\ (IsPage(j) => PageTable(j, Own(j)))
<1>1. Own(j) \in [{0} -> Jobs] /\ DOMAIN Own(j) = {0} /\ Own(j)[0] = j
  BY DEF Own
<1>2. Own(j) \in FileTables
  BY <1>1 DEF FileTables
<1>3. ASSUME IsPage(j) PROVE PageTable(j, Own(j))
  <2>1. PICK l \in crawled[j] : Len(l) = 1
    BY <1>3 DEF Single
  <2>2. Cardinality(DOMAIN Own(j)) = Len(l)
    BY <1>1, <2>1, FS_Singleton
  <2>3. Parts(j, l) = Own(j)
    BY <2>1 DEF Parts
  <2> QED BY <1>1, <2>2, <2>3 DEF PageTable
<1> QED BY <1>2, <1>3

LEMMA ReceiveResultSound ==
  ASSUME PipelineInv, NEW m, m = parquetResults[coordinator.handled + 1], m \in Attempted,
         coordinator.handled < Len(parquetResults), UNCHANGED parquetResults, UNCHANGED storageVars,
         ReceiveResult(m)
  PROVE  /\ CoordinatorOK' /\ UNCHANGED childRecords /\ (UNCHANGED table \/ Registered)
         /\ coordinator'.out \in Seq(PassedOn)
<1>1. m \in ResultMessage /\ m.job \in Jobs /\ m.status \in Statuses
  BY DEF Attempted, ResultMessage
<1>2. UNCHANGED childRecords
  BY DEF ReceiveResult
<1>3. PICK s \in {m.status, "FAILED"} :
        coordinator' = [coordinator EXCEPT !.handled = @ + 1, !.step = "publish", !.out = <<[m EXCEPT !.status = s]>>]
  BY DEF ReceiveResult
<1> DEFINE o == [m EXCEPT !.status = s]
<1>4. o \in Told /\ o \in PassedOn
  <2>1. o \in ResultMessage /\ o.status = s /\ o.job = m.job
    BY <1>1 DEF ResultMessage, Statuses
  <2>2. s = "SUCCESS" => m.job \in objects
    BY DEF Attempted
  <2> HIDE DEF o
  <2> QED BY <2>1, <2>2 DEF Told, InStorage, PassedOn
<1> HIDE DEF o
<1>5. coordinator' = [coordinator EXCEPT !.handled = @ + 1, !.step = "publish", !.out = <<o>>]
  BY <1>3 DEF o
<1>6. CoordinatorOK'
  BY <1>4, <1>5, Forwarding
<1>7. UNCHANGED table \/ Registered
  <2>1. UNCHANGED table \/ (m.status = "SUCCESS" /\ m.artifact /\ Register(m.job, Own(m.job)))
    BY DEF ReceiveResult
  <2>2. m.status = "SUCCESS" /\ m.artifact => m.job \in objects /\ Single(m.job)
    BY DEF Attempted
  <2> QED BY <1>1, <2>1, <2>2, OwnTable DEF Registered
<1>8. coordinator'.out \in Seq(PassedOn)
  <2>1. coordinator'.out = <<o>>
    BY <1>5, TheCoordinator DEF CoordinatorState
  <2> QED BY <1>4, <2>1, SingleIsSeq
<1> QED BY <1>2, <1>6, <1>7, <1>8

LEMMA ReceiveSound ==
  ASSUME PipelineInv, ReceiveAny
  PROVE  PipelineInv' /\ (UNCHANGED table \/ Registered) /\ coordinator'.out \in Seq(PassedOn)
<1>1. /\ UNCHANGED <<queue, worker, parquetResults, jobResults>> /\ UNCHANGED storageVars
      /\ coordinator.handled < Len(parquetResults)
  BY DEF ReceiveAny, workerVars, topicVars, storageVars
<1> DEFINE m == parquetResults[coordinator.handled + 1]
<1>2. m \in Attempted
  <2>1. coordinator.handled + 1 \in Nat /\ coordinator.handled + 1 <= Len(parquetResults)
        /\ coordinator.handled + 1 > 0
    BY <1>1, TheCoordinator, NextPosition
  <2> QED BY <2>1, ResultAt
<1>3. ReceiveChildResult(m) \/ ReceiveResult(m)
  BY DEF ReceiveAny
<1> HIDE DEF m
<1>4. /\ CoordinatorOK' /\ RecordsOK' /\ (UNCHANGED table \/ Registered)
      /\ coordinator'.out \in Seq(PassedOn)
  BY <1>1, <1>2, <1>3, ReceiveChildSound, ReceiveResultSound, UnchangedParts DEF m
<1>5. TablesOK'
  BY <1>1, <1>4, TableStep
<1> QED BY <1>1, <1>4, <1>5, UnchangedParts DEF PipelineInv

(* A group without a failure and as long as its total is a table for its   *)
(* page, and, when the page was always found the same, has all its files.  *)
LEMMA MergeIsWhole ==
  ASSUME PipelineInv, NEW p \in Jobs, childRecords[p].total > 0, ~AnyFailed(p), AllRecorded(p)
  PROVE  LET files == [i \in DOMAIN childRecords[p].rows |-> childRecords[p].rows[i].job] IN
           /\ files \in FileTables /\ PageTable(p, files) /\ IsPage(p)
           /\ \E l \in crawled[p] : crawled[p] = {l} => Files(l) \subseteq objects
<1> DEFINE rows == childRecords[p].rows
           files == [i \in DOMAIN rows |-> rows[i].job]
<1>1. /\ rows \in UNION {[D -> Row] : D \in SUBSET Nat} /\ RowsSound(p)
      /\ crawled[p] \subseteq Crawls[p]
  BY DEF PipelineInv, RecordsOK, StorageOK
<1>2. PICK l \in crawled[p] : Len(l) > 1 /\ childRecords[p].total = Len(l)
  BY <1>1 DEF RowsSound
<1>3. \A i \in DOMAIN rows : rows[i] \in Row /\ rows[i].status = "SUCCESS"
  BY <1>1 DEF AnyFailed, Row
<1>4. files \in FileTables
  BY <1>1, <1>3 DEF FileTables, Row
<1>5. Cardinality(DOMAIN files) = Len(l)
  BY <1>2 DEF AllRecorded
<1>6. ASSUME NEW i \in DOMAIN files
      PROVE  /\ files[i] \in objects
             /\ \E k \in crawled[p] : i \in DOMAIN Parts(p, k) /\ files[i] = Parts(p, k)[i]
  <2>1. files[i] \in objects
    BY <1>1, <1>3 DEF RowsSound
  <2>2. PICK k \in crawled[p] : StandsIn(k, rows[i].job, i)
    BY <1>1 DEF RowsSound
  <2>3. k \in Crawls[p] /\ i \in Nat /\ k[i + 1] = files[i]
    <3>1. k \in Crawls[p]
      BY <1>1
    <3>2. DOMAIN rows \subseteq Nat
      BY <1>1
    <3>3. k[i + 1] = rows[i].job
      BY <2>2 DEF StandsIn
    <3> QED BY <3>1, <3>2, <3>3
  <2>4. Len(k) \in Nat /\ Len(k) > 1 /\ i + 1 \in 1..Len(k) /\ i \in 0..(Len(k) - 1)
    <3>1. Len(k) \in Nat
      BY <2>3, ListsAreLists
    <3>2. Len(k) > 1 /\ i + 1 \in 1..Len(k)
      BY <2>2 DEF StandsIn
    <3> HIDE DEF files, rows
    <3> QED BY <3>1, <3>2, <2>3
  <2>5. i \in DOMAIN Parts(p, k) /\ files[i] = Parts(p, k)[i]
    BY <2>3, <2>4, PartsOfList
  <2> QED BY <2>1, <2>5
<1>7. PageTable(p, files)
  BY <1>2, <1>5, <1>6 DEF PageTable
<1>8. l \in Crawls[p] /\ IsPage(p) /\ Len(l) \in Nat
  BY <1>1, <1>2, ListsAreLists
<1> HIDE DEF files
<1>9. crawled[p] = {l} => Files(l) \subseteq objects
  <2> SUFFICES ASSUME crawled[p] = {l}, NEW c \in Files(l) PROVE c \in objects
    OBVIOUS
  <2>1. PICK i \in 1..Len(l) : c = l[i]
    BY DEF Files
  <2>2. files = Parts(p, l)
    BY <1>4, <1>7, <1>8, WholeList
  <2>3. i - 1 \in 0..(Len(l) - 1) /\ (i - 1) + 1 = i
    BY <1>8
  <2>4. i - 1 \in DOMAIN files /\ files[i - 1] = l[i]
    BY <1>2, <1>8, <2>2, <2>3, PartsOfList
  <2> QED BY <1>6, <2>1, <2>4
<1> QED BY <1>2, <1>4, <1>7, <1>8, <1>9 DEF files

LEMMA MergeSound ==
  ASSUME PipelineInv, MergeChildren
  PROVE  PipelineInv' /\ (UNCHANGED table \/ Registered)
<1> DEFINE p == ParentOf[ChildOf]
<1>1. /\ UNCHANGED <<queue, worker, parquetResults, jobResults, childRecords>> /\ UNCHANGED storageVars
      /\ coordinator.step \in {"merge", "record failed"} /\ coordinator.out = <<>>
  BY DEF MergeChildren, workerVars, topicVars, storageVars
<1>2. p \in Jobs
  BY <1>1, TheCoordinator, ParentIsJob
<1>3. \/ coordinator' = ParentIs("FAILED") /\ UNCHANGED table
      \/ coordinator' = [coordinator EXCEPT !.step = "publish"] /\ UNCHANGED table
      \/ /\ coordinator.step = "merge" /\ ~AnyFailed(p) /\ AllRecorded(p)
         /\ coordinator' \in {ParentIs("SUCCESS"), ParentIs("FAILED")}
         /\ UNCHANGED table \/ RegisterChildren(p)
  BY DEF MergeChildren
<1>4. coordinator.step = "merge" /\ ~AnyFailed(p) /\ AllRecorded(p) =>
        InStorage(p) /\ (RegisterChildren(p) => Registered)
  BY <1>2, TheCoordinator, MergeIsWhole DEF InStorage, RegisterChildren, Registered
<1>5. UNCHANGED table \/ Registered
  BY <1>3, <1>4
<1>6. CoordinatorOK'
  <2>1. ASSUME NEW s \in {"FAILED", "SUCCESS"}, coordinator' = ParentIs(s), s = "SUCCESS" => InStorage(p)
        PROVE  CoordinatorOK'
    <3> DEFINE o == Msg(s, JobMsg(p), TRUE)
    <3>1. o \in ResultMessage /\ o.status = s /\ o.job = p
      <4>1. s \in Statuses /\ TRUE \in BOOLEAN /\ JobMsg(p) \in JobMsgs /\ JobMsg(p).job = p
        BY <1>2, TopLevelMessage DEF Statuses
      <4> HIDE DEF p
      <4> QED BY <4>1, MsgIsMessage
    <3>2. coordinator' = [coordinator EXCEPT !.step = "publish", !.out = <<o>>]
      BY <2>1 DEF ParentIs
    <3> HIDE DEF o, p
    <3>3. <<o>> \in Seq(Told)
      BY <2>1, <3>1, SingleIsSeq DEF Told
    <3>4. coordinator' \in CoordinatorState /\ coordinator'.handled = coordinator.handled /\ coordinator'.step = "publish"
      BY <3>2, <3>3, TheCoordinator DEF CoordinatorState
    <3> QED BY <1>1, <3>4, TheCoordinator, SameObjects DEF CoordinatorOK
  <2>2. CASE coordinator' = [coordinator EXCEPT !.step = "publish"]
    <3>1. coordinator' \in CoordinatorState /\ coordinator'.handled = coordinator.handled /\ coordinator'.step = "publish"
      BY <2>2, TheCoordinator DEF CoordinatorState
    <3> QED BY <1>1, <3>1, TheCoordinator, SameObjects DEF CoordinatorOK
  <2> QED BY <1>3, <1>4, <2>1, <2>2
<1>7. TablesOK'
  BY <1>1, <1>5, TableStep
<1> QED BY <1>1, <1>5, <1>6, <1>7, UnchangedParts DEF PipelineInv

LEMMA ForwardKeepsInv == PipelineInv /\ ForwardNext => PipelineInv' /\ UNCHANGED table
<1> SUFFICES ASSUME PipelineInv, ForwardNext PROVE PipelineInv' /\ UNCHANGED table
  OBVIOUS
<1>1. /\ UNCHANGED <<queue, worker, parquetResults, childRecords, table>> /\ UNCHANGED storageVars
      /\ coordinator.out # <<>> /\ jobResults' = Append(jobResults, Head(coordinator.out))
      /\ coordinator' = [coordinator EXCEPT !.out = Tail(@)]
  BY DEF ForwardNext, workerVars, storageVars
<1>2. Head(coordinator.out) \in Told /\ Tail(coordinator.out) \in Seq(Told)
  BY <1>1, TheCoordinator, HeadTailProperties
<1>3. LedgerTopicOK'
  BY <1>1, <1>2, LedgerIsTold
<1>4. /\ coordinator' \in CoordinatorState /\ coordinator'.handled = coordinator.handled
      /\ coordinator'.step = coordinator.step
  BY <1>1, <1>2, TheCoordinator DEF CoordinatorState
<1>5. ChildOf' = ChildOf
  BY <1>1, <1>4 DEF ChildOf
<1>6. CoordinatorOK'
  BY <1>1, <1>4, <1>5, SameObjects DEF PipelineInv, CoordinatorOK
<1> QED BY <1>1, <1>3, <1>6, UnchangedParts DEF PipelineInv

LEMMA CommitResultKeepsInv ==
  ASSUME PipelineInv, CommitResult \/ CrashCoordinator PROVE PipelineInv' /\ UNCHANGED table
<1>1. UNCHANGED <<queue, worker, jobResults, childRecords, table>> /\ UNCHANGED storageVars
  BY DEF CommitResult, CrashCoordinator, workerVars, topicVars, storageVars
<1>2. \/ coordinator' = Idle /\ parquetResults' = After(parquetResults, coordinator.handled)
      \/ coordinator' = Idle /\ UNCHANGED parquetResults
      \/ coordinator' = [coordinator EXCEPT !.step = "idle"] /\ UNCHANGED parquetResults
  BY DEF CommitResult, CrashCoordinator, topicVars
<1>3. After(parquetResults, coordinator.handled) \in Seq(Attempted)
  BY TheCoordinator, AfterIsSeq
<1>4. parquetResults' \in Seq(Attempted) /\ Len(parquetResults') \in Nat
  BY <1>2, <1>3, TheCoordinator, LenProperties
<1>5. CASE coordinator' = Idle
  <2>1. CoordinatorOK'
    BY <1>1, <1>4, <1>5, IdleIsIdle, IdleIsState, SameObjects DEF CoordinatorOK
  <2> QED BY <1>1, <1>4, <2>1, SameObjects, UnchangedParts DEF PipelineInv, ResultsOK
<1>6. CASE coordinator' = [coordinator EXCEPT !.step = "idle"] /\ UNCHANGED parquetResults
  <2>1. /\ coordinator' \in CoordinatorState /\ coordinator'.handled = coordinator.handled
        /\ coordinator'.step = "idle"
    BY <1>6, TheCoordinator DEF CoordinatorState
  <2>2. CoordinatorOK'
    BY <1>1, <1>6, <2>1, TheCoordinator, SameObjects DEF CoordinatorOK
  <2> QED BY <1>1, <1>4, <2>2, SameObjects, UnchangedParts DEF PipelineInv, ResultsOK
<1> QED BY <1>2, <1>5, <1>6

-----------------------------------------------------------------------------
(* The result consumer.                                                    *)
LEMMA ConsumeKeepsInv == PipelineInv /\ ConsumeResult => PipelineInv' /\ UNCHANGED table
<1> SUFFICES ASSUME PipelineInv, ConsumeResult PROVE PipelineInv' /\ UNCHANGED table
  OBVIOUS
<1>1. /\ UNCHANGED <<queue, worker, parquetResults, coordinator, childRecords, table>>
      /\ UNCHANGED storageVars
      /\ jobResults # <<>> /\ (jobResults' = Tail(jobResults) \/ UNCHANGED jobResults)
  BY DEF ConsumeResult, workerVars, coordinatorVars, storageVars
<1>2. jobResults' \in Seq(Told)
  BY <1>1, HeadTailProperties DEF PipelineInv, LedgerTopicOK
<1>3. LedgerTopicOK'
  BY <1>1, <1>2, SameObjects DEF LedgerTopicOK
<1> QED BY <1>1, <1>3, UnchangedParts DEF PipelineInv

\* What the consumer does to the ledger is one of the ledger's transactions.
LEMMA ApplyingIsLedgerStep ==
  ASSUME NEW m \in ResultMessage, ApplyToLedger(m) PROVE [Next]_vars
<1> DEFINE j == m.job
<1>1. j \in Jobs
  BY DEF ResultMessage
<1>2. \/ ApplyPending(j) \/ ApplyProcessing(j) \/ UNCHANGED vars
      \/ \E s \in Terminals : ApplyChildTerminal(j, s)
      \/ ApplySuccessRows(j, NoDelimiter, {}) \/ ApplySuccessEmpty(j, NoDelimiter)
      \/ ApplyFailed(j, {}) \/ ApplyDeleted(j)
  BY DEF ApplyToLedger, Terminals
<1>3. ApplySuccessRows(j, NoDelimiter, {}) \/ ApplySuccessEmpty(j, NoDelimiter)
      \/ ApplyFailed(j, {}) \/ ApplyDeleted(j) => ApplyOutcome(j)
  BY DEF ApplyOutcome
<1> HIDE DEF j
<1>4. ApplyResult(j) \/ UNCHANGED vars
  BY <1>2, <1>3 DEF ApplyResult
<1> QED BY <1>1, <1>4 DEF Next

\* Only a message of success completes a job, and only the one it is about.
LEMMA OnlySuccessCompletes ==
  ASSUME NEW m \in ResultMessage, ApplyToLedger(m)
  PROVE  \/ UNCHANGED jobs
         \/ \E s : jobs' = [jobs EXCEPT ![m.job] = s] /\ (s = "completed" => m.status = "SUCCESS")
<1> DEFINE j == m.job
           End == CASE m.status = "SUCCESS" -> "completed"
                    [] m.status = "FAILED" -> "failed"
                    [] OTHER -> "deleted"
<1>1. \/ UNCHANGED jobs
      \/ SetJob(j, "pending") \/ SetJob(j, "processing") \/ SetJob(j, "failed") \/ SetJob(j, "deleted")
      \/ SetJob(j, End)
      \/ m.status = "SUCCESS" /\ SetJob(j, "completed")
  BY DEF ApplyToLedger, ApplyPending, ApplyProcessing, ApplyChildTerminal, ApplySuccessRows,
         ApplySuccessEmpty, ApplyFailed, ApplyDeleted, Finish, vars
<1>2. End = "completed" => m.status = "SUCCESS"
  OBVIOUS
<1> HIDE DEF End
<1> QED BY <1>1, <1>2 DEF SetJob

\* The head of the topic is a message the ledger may be told.
LEMMA TheHeadIsTold ==
  ASSUME PipelineInv, ConsumeResult
  PROVE  Head(jobResults) \in Told /\ Head(jobResults) \in ResultMessage /\ ApplyToLedger(Head(jobResults))
<1>1. jobResults # <<>> /\ jobResults \in Seq(Told) /\ ApplyToLedger(Head(jobResults))
  BY DEF ConsumeResult, PipelineInv, LedgerTopicOK
<1>2. Head(jobResults) \in Told
  BY <1>1, HeadTailProperties
<1> QED BY <1>1, <1>2 DEF Told

-----------------------------------------------------------------------------
(* The invariant.                                                          *)
LEMMA PipelineInvInit == PipelineInit => PipelineInv
<1> SUFFICES ASSUME PipelineInit PROVE PipelineInv
  OBVIOUS
<1>1. /\ queue = [w \in Slots |-> <<>>] /\ worker = [w \in Slots |-> Idle] /\ parquetResults = <<>>
      /\ objects = {} /\ coordinator = Idle /\ childRecords = [p \in Jobs |-> [total |-> 0, rows |-> <<>>]]
      /\ crawled = [j \in Jobs |-> {}]
      /\ table = [r \in Resources |-> NoTable] /\ jobResults = <<>>
  BY DEF PipelineInit
<1>2. WorkersOK
  BY <1>1, EmptySeq, IdleIsIdle, IdleIsState DEF WorkersOK
<1>3. ResultsOK /\ LedgerTopicOK
  BY <1>1, EmptySeq DEF ResultsOK, LedgerTopicOK
<1>4. CoordinatorOK
  BY <1>1, EmptySeq, IdleIsIdle, IdleIsState DEF CoordinatorOK
<1>5. StorageOK /\ TablesOK
  BY <1>1 DEF StorageOK, TablesOK
<1>6. RecordsOK
  <2>1. DOMAIN <<>> = {} /\ <<>> \in [{} -> Row]
    OBVIOUS
  <2>2. <<>> \in UNION {[D -> Row] : D \in SUBSET Nat}
    BY <2>1
  <2> PICK none : none = <<>>
    OBVIOUS
  <2>3. \A p \in Jobs : childRecords[p].total = 0 /\ DOMAIN childRecords[p].rows = {}
    BY <1>1, <2>1
  <2>4. childRecords \in [Jobs -> [total : Nat, rows : UNION {[D -> Row] : D \in SUBSET Nat}]]
    BY <1>1, <2>2
  <2> QED BY <2>3, <2>4 DEF RecordsOK, RowsSound
<1> QED BY <1>2, <1>3, <1>4, <1>5, <1>6 DEF PipelineInv

LEMMA PipelineInvStep ==
  ASSUME PipelineInv, [PipelineNext]_pipelineVars
  PROVE  PipelineInv' /\ (UNCHANGED table \/ (Registered /\ UNCHANGED storageVars))
<1>1. CASE UNCHANGED pipelineVars
  <2>1. UNCHANGED <<queue, worker, parquetResults, jobResults, coordinator, childRecords, table>>
        /\ UNCHANGED storageVars
    BY <1>1 DEF pipelineVars, storageVars
  <2> QED BY <2>1, UnchangedParts DEF PipelineInv
<1>2. ASSUME NEW j \in Jobs, PublishPending(j) \/ PublishJob(j) \/ RetryJob(j)
      PROVE  PipelineInv' /\ UNCHANGED table
  BY <1>2, SourcesKeepInv DEF PublishPending, PublishJob, RetryJob, coordinatorVars
<1>3. ASSUME NEW w \in Slots, WorkerStep(w) PROVE PipelineInv' /\ UNCHANGED table
  BY Zenon, <1>3, BeginKeepsInv, ConvertKeepsInv, PublishNextKeepsInv, CommitJobKeepsInv
  DEF WorkerStep, BeginJob, ConvertJob, PublishNext, CommitJob, coordinatorVars
<1>4. CASE CrashWorkers
  BY <1>4, CrashWorkersKeepsInv DEF CrashWorkers, coordinatorVars
<1>5. CASE ReceiveAny \/ MergeChildren
  BY <1>5, ReceiveSound, MergeSound DEF ReceiveAny, MergeChildren, workerVars, storageVars
<1>6. CASE ForwardNext \/ CommitResult \/ CrashCoordinator \/ ConsumeResult
  BY <1>6, ForwardKeepsInv, CommitResultKeepsInv, ConsumeKeepsInv
<1> QED BY <1>1, <1>2, <1>3, <1>4, <1>5, <1>6 DEF PipelineNext, CoordinatorStep

(* Success messages, recorded children and registered pages are backed by  *)
(* objects in S3 at every point of the pipeline.                           *)
THEOREM PipelineInvariant == PipelineSpec => []PipelineInv
  BY PipelineInvInit, PipelineInvStep, PTL DEF PipelineSpec

(* The pipeline drives the ledger: whatever its topics deliver, in whatever *)
(* order, is a behaviour of JobLedger, so that all that is proved of the    *)
(* ledger holds in the pipeline.                                            *)
THEOREM PipelineRunsTheLedger == PipelineSpec => Spec
<1>1. PipelineInit => Init
  BY DEF PipelineInit
<1>2. ASSUME PipelineInv, [PipelineNext]_pipelineVars PROVE [Next]_vars
  <2>1. CASE ConsumeResult
    BY <1>2, <2>1, TheHeadIsTold, ApplyingIsLedgerStep
  <2>2. CASE UNCHANGED vars
    BY <2>2
  <2>3. ConsumeResult \/ UNCHANGED vars
    BY Zenon, <1>2 DEF PipelineNext, CoordinatorStep, WorkerStep, PublishPending, PublishJob, RetryJob, BeginJob,
            ConvertJob, PublishNext, CommitJob, CrashWorkers, ReceiveAny, MergeChildren, ForwardNext,
            CommitResult, CrashCoordinator, pipelineVars
  <2> QED BY <2>1, <2>2, <2>3
<1> QED BY <1>1, <1>2, PipelineInvariant, PTL DEF PipelineSpec, Spec

(* Types of the pipeline's own state and of the ledger it writes.          *)
THEOREM PipelineTypeCorrect == PipelineSpec => []PipelineTypeOK
<1>1. PipelineInv /\ TypeOK => PipelineTypeOK
  <2> SUFFICES ASSUME PipelineInv, TypeOK PROVE PipelineTypeOK
    OBVIOUS
  <2>1. \A w \in Slots : worker[w].handled \in 0..Len(queue[w])
    BY AWorker
  <2>2. coordinator.handled \in 0..Len(parquetResults)
    <3>1. /\ coordinator.handled \in Nat /\ Len(parquetResults) \in Nat
          /\ coordinator.handled <= Len(parquetResults)
      BY TheCoordinator
    <3> QED BY <3>1, WithinLength
  <2>3. queue \in [Slots -> Seq(JobMsgs)]
    <3>1. JobMessage \subseteq JobMsgs
      BY DEF JobMessage
    <3>2. Seq(JobMessage) \subseteq Seq(JobMsgs)
      BY <3>1, SeqGrows
    <3> QED BY <3>2 DEF PipelineInv, WorkersOK
  <2>4. \A p \in Jobs : \A i \in DOMAIN childRecords[p].rows :
          childRecords[p].rows[i] \in [job : Jobs, status : {"SUCCESS", "FAILED"}]
    <3> DEFINE Rows == UNION {[D -> Row] : D \in SUBSET Nat}
    <3>1. childRecords \in [Jobs -> [total : Nat, rows : Rows]]
      BY DEF PipelineInv, RecordsOK
    <3> HIDE DEF Rows
    <3>2. \A p \in Jobs : childRecords[p].rows \in Rows
      BY <3>1
    <3> SUFFICES ASSUME NEW p \in Jobs
                 PROVE  \A i \in DOMAIN childRecords[p].rows : childRecords[p].rows[i] \in Row
      BY DEF Row
    <3>3. PICK D \in SUBSET Nat : childRecords[p].rows \in [D -> Row]
      BY <3>2 DEF Rows
    <3> QED BY <3>3
  <2> QED BY <2>1, <2>2, <2>3, <2>4 DEF PipelineInv, StorageOK, TablesOK, TableSound, PipelineTypeOK
<1> QED BY <1>1, PipelineInvariant, PipelineRunsTheLedger, TypeCorrect, PTL

(* Objects and the lists found are never taken back.                       *)
LEMMA StorageNeverShrinks ==
  ASSUME PipelineInv, [PipelineNext]_pipelineVars PROVE StorageGrows
<1>1. ASSUME NEW w \in Slots, ConvertJob(w) PROVE StorageGrows
  <2>1. PICK c : /\ objects' = objects \cup c.uploaded
                 /\ crawled' = [crawled EXCEPT ![JobAt(w).job] = @ \cup c.found]
    BY Zenon, <1>1 DEF ConvertJob
  <2>2. crawled \in [Jobs -> SUBSET Seq(Jobs)]
    BY DEF PipelineInv, StorageOK
  <2> QED BY <2>1, <2>2 DEF StorageGrows
<1>2. CASE UNCHANGED storageVars
  BY <1>2 DEF StorageGrows, storageVars
<1>3. UNCHANGED storageVars \/ \E w \in Slots : ConvertJob(w)
  BY Zenon DEF PipelineNext, CoordinatorStep, WorkerStep, PublishPending, PublishJob, RetryJob, BeginJob,
         PublishNext, CommitJob, CrashWorkers, ReceiveAny, MergeChildren, ForwardNext,
         CommitResult, CrashCoordinator, ConsumeResult, pipelineVars, workerVars, storageVars
<1> QED BY <1>1, <1>2, <1>3

(* No job is shown as completed before its data is in S3, however jobs are *)
(* retried, replayed, crash or find what an earlier attempt has left: its  *)
(* own object, or, for a page that was always found the same, the object   *)
(* of each of its files.                                                   *)
THEOREM CompletedJobsHaveObjects == PipelineSpec => []CompletedHasObjects
<1>1. PipelineInit => CompletedHasObjects
  BY DEF PipelineInit, Init, CompletedHasObjects
<1>2. ASSUME PipelineInv, TypeOK, CompletedHasObjects, [PipelineNext]_pipelineVars
      PROVE  CompletedHasObjects'
  <2>1. \A j \in Jobs : InStorage(j) => InStorage(j)'
    BY <1>2, StorageNeverShrinks, InStorageStays
  <2>2. CASE UNCHANGED jobs
    BY <1>2, <2>1, <2>2 DEF CompletedHasObjects, InStorage
  <2>3. CASE ConsumeResult
    <3> DEFINE m == Head(jobResults)
    <3>1. m \in Told /\ m \in ResultMessage /\ ApplyToLedger(m)
      BY <1>2, <2>3, TheHeadIsTold
    <3> HIDE DEF m
    <3>2. \/ UNCHANGED jobs
          \/ \E s : jobs' = [jobs EXCEPT ![m.job] = s] /\ (s = "completed" => m.status = "SUCCESS")
      BY <3>1, OnlySuccessCompletes
    <3>3. CASE \E s : jobs' = [jobs EXCEPT ![m.job] = s] /\ (s = "completed" => m.status = "SUCCESS")
      <4> PICK s : jobs' = [jobs EXCEPT ![m.job] = s] /\ (s = "completed" => m.status = "SUCCESS")
        BY Zenon, <3>3
      <4>1. s = "completed" => InStorage(m.job)
        BY <3>1 DEF Told
      <4>2. \A j \in Jobs : jobs'[j] = IF j = m.job THEN s ELSE jobs[j]
        BY <1>2 DEF TypeOK
      <4>3. \A j \in Jobs : jobs'[j] = "completed" => InStorage(j)
        BY <1>2, <4>1, <4>2 DEF CompletedHasObjects, InStorage
      <4> QED BY <2>1, <4>3 DEF CompletedHasObjects, InStorage
    <3> QED BY <2>2, <3>2, <3>3
  <2>4. ConsumeResult \/ UNCHANGED jobs
    BY Zenon, <1>2 DEF PipelineNext, CoordinatorStep, WorkerStep, PublishPending, PublishJob, RetryJob, BeginJob,
            ConvertJob, PublishNext, CommitJob, CrashWorkers, ReceiveAny, MergeChildren, ForwardNext,
            CommitResult, CrashCoordinator, pipelineVars, vars
  <2> QED BY <2>2, <2>3, <2>4
<1> QED BY <1>1, <1>2, PipelineInvariant, PipelineRunsTheLedger, TypeCorrect, PTL DEF PipelineSpec

(* The table of a page is as long as a list found for it and has, at each  *)
(* position, the object of a file found there: when the page was always    *)
(* found the same, it is the table of all its files, each once.            *)
THEOREM PagesAreRegisteredWhole == PipelineSpec => []MergedTablesAreWhole
<1>1. PipelineInv => MergedTablesAreWhole
  <2> SUFFICES ASSUME PipelineInv, NEW p \in Jobs, IsPage(p), table[ResourceOf[p]].job = p
               PROVE  /\ PageTable(p, table[ResourceOf[p]].files)
                      /\ \A l \in crawled[p] : crawled[p] = {l} => table[ResourceOf[p]].files = Parts(p, l)
    BY Zenon DEF MergedTablesAreWhole, PageTable
  <2> DEFINE files == table[ResourceOf[p]].files
  <2>1. ResourceOf[p] \in Resources /\ table[ResourceOf[p]] # NoTable
    BY JobsAssumption DEF NoTable
  <2>2. table[ResourceOf[p]] \in Table /\ PageTable(p, files)
    BY <2>1 DEF PipelineInv, TablesOK, TableSound
  <2>3. files \in FileTables
    BY <2>2 DEF Table
  <2>4. crawled[p] \subseteq Crawls[p]
    BY DEF PipelineInv, StorageOK
  <2> QED BY <2>2, <2>3, <2>4, WholeList
<1> QED BY <1>1, PipelineInvariant, PTL

(* Whatever the step, a table stays or is replaced by one that is no older. *)
LEMMA TablesGrow ==
  ASSUME PipelineInv, [PipelineNext]_pipelineVars
  PROVE  \A r \in Resources : table[r] # NoTable =>
           table'[r] # NoTable /\ table'[r].version \in Nat /\ table[r].version \in Nat
           /\ table'[r].version >= table[r].version
<1>1. PipelineInv' /\ (UNCHANGED table \/ (Registered /\ UNCHANGED storageVars))
  BY PipelineInvStep
<1>2. /\ \A r \in Resources : table[r] # NoTable => table[r].version \in Nat
      /\ \A r \in Resources : table'[r] # NoTable => table'[r].version \in Nat
  BY <1>1 DEF PipelineInv, TablesOK, Table
<1>3. \A r \in Resources : table[r] # NoTable =>
        table'[r] # NoTable /\ table'[r].version >= table[r].version
  <2>1. CASE UNCHANGED table
    BY <1>2, <2>1
  <2>2. CASE Registered /\ UNCHANGED storageVars
    BY <2>2, TableStep
  <2> QED BY <1>1, <2>1, <2>2
<1> QED BY <1>2, <1>3

(* registered_version is compared in the transaction that replaces a       *)
(* table: late and replayed results never bring back an older version.     *)
THEOREM TablesNeverGoBack == PipelineSpec => TableNeverGoesBack
<1>1. PipelineInv /\ [PipelineNext]_pipelineVars =>
        [\A r \in Resources : table[r] # NoTable =>
           table'[r] # NoTable /\ table'[r].version >= table[r].version]_pipelineVars
  BY TablesGrow
<1> QED BY <1>1, PipelineInvariant, PTL DEF PipelineSpec, TableNeverGoesBack

-----------------------------------------------------------------------------
(* Pages are queryable when the ledger hears of their success.             *)
Merged(j) == IsPage(j) /\ j \notin objects
Spoken == {m \in ResultMessage : m.status = "SUCCESS" /\ Merged(m.job) => Queryable(m.job)}
PagesInv == /\ jobResults \in Seq(Spoken) /\ coordinator.out \in Seq(Spoken)
            /\ CompletedPagesAreQueryable

LEMMA QueryableStays ==
  ASSUME PipelineInv, [PipelineNext]_pipelineVars, NEW j \in Jobs, Queryable(j) PROVE Queryable(j)'
<1>1. ResourceOf[j] \in Resources /\ Version[j] \in Nat
  BY JobsAssumption, PipelineAssumption
<1> QED BY <1>1, TablesGrow DEF Queryable

LEMMA SpokenGrows ==
  ASSUME PipelineInv, [PipelineNext]_pipelineVars
  PROVE  Spoken \subseteq Spoken' /\ Seq(Spoken) \subseteq Seq(Spoken')
<1>1. Spoken \subseteq Spoken'
  BY QueryableStays, StorageNeverShrinks DEF Spoken, ResultMessage, Merged, StorageGrows
<1> QED BY <1>1, SeqGrows

LEMMA RegisteringIsEnough ==
  ASSUME PipelineInv, NEW p \in Jobs, NEW files, Register(p, files) PROVE Queryable(p)'
<1> DEFINE r == ResourceOf[p]
           t == [job |-> p, version |-> Version[p], files |-> files]
<1>1. r \in Resources /\ Version[p] \in Nat /\ DOMAIN table = Resources
  BY JobsAssumption, PipelineAssumption DEF PipelineInv, TablesOK
<1>2. t # NoTable /\ t.version = Version[p]
  BY JobsAssumption DEF NoTable
<1>3. IsStale(r, p) => table[r] # NoTable /\ table[r].version >= Version[p]
  BY <1>1 DEF IsStale, PipelineInv, TablesOK, TableSound
<1>4. CASE IsStale(r, p)
  BY <1>3, <1>4 DEF Register, Queryable
<1>5. CASE ~IsStale(r, p)
  <2>1. table' = [table EXCEPT ![r] = t]
    BY <1>5 DEF Register
  <2> HIDE DEF t
  <2>2. table'[r] = t
    BY <1>1, <2>1
  <2> QED BY <1>1, <1>2, <2>2 DEF Queryable
<1> QED BY <1>4, <1>5

LEMMA OtherMessagesAreSpoken ==
  ASSUME NEW m \in ResultMessage, m.status # "SUCCESS" PROVE m \in Spoken
  BY DEF Spoken

LEMMA SpokenAsReceived ==
  ASSUME PipelineInv, [PipelineNext]_pipelineVars
  PROVE  PassedOn \subseteq Spoken' /\ Seq(PassedOn) \subseteq Seq(Spoken')
<1>1. PassedOn \subseteq Spoken'
  BY StorageNeverShrinks DEF PassedOn, Spoken, Merged, StorageGrows
<1> QED BY <1>1, SeqGrows

LEMMA MergingIsSpoken ==
  ASSUME PipelineInv, MergeChildren, [PipelineNext]_pipelineVars PROVE coordinator'.out \in Seq(Spoken')
<1> PICK p : p = ParentOf[ChildOf]
  OBVIOUS
<1>1. /\ coordinator.step \in {"merge", "record failed"} /\ coordinator.out = <<>>
      /\ coordinator \in CoordinatorState
  BY TheCoordinator DEF MergeChildren
<1>2. p \in Jobs
  BY <1>1, TheCoordinator, ParentIsJob
<1>3. \/ coordinator' = ParentIs("FAILED")
      \/ coordinator' = [coordinator EXCEPT !.step = "publish"]
      \/ RegisterChildren(p) /\ coordinator' = ParentIs("SUCCESS")
  BY DEF MergeChildren
<1>4. CASE coordinator' = [coordinator EXCEPT !.step = "publish"]
  <2>1. coordinator'.out = <<>>
    BY <1>1, <1>4 DEF CoordinatorState
  <2> QED BY <2>1, EmptySeq
<1>5. ASSUME NEW s \in {"FAILED", "SUCCESS"}, coordinator' = ParentIs(s), s = "SUCCESS" => Queryable(p)'
      PROVE  coordinator'.out \in Seq(Spoken')
  <2> PICK o : o = Msg(s, JobMsg(p), TRUE)
    OBVIOUS
  <2>1. coordinator'.out = <<o>>
    BY <1>1, <1>5 DEF ParentIs, CoordinatorState
  <2>2. o \in ResultMessage /\ o.status = s /\ o.job = p
    <3>1. s \in Statuses /\ TRUE \in BOOLEAN /\ JobMsg(p) \in JobMsgs /\ JobMsg(p).job = p
      BY <1>2, TopLevelMessage DEF Statuses
    <3> QED BY <3>1, MsgIsMessage
  <2>3. o \in Spoken'
    BY <1>5, <2>2 DEF Spoken
  <2> QED BY <2>1, <2>3, SingleIsSeq
<1>6. CASE RegisterChildren(p) /\ coordinator' = ParentIs("SUCCESS")
  BY <1>2, <1>5, <1>6, RegisteringIsEnough DEF RegisterChildren
<1> QED BY <1>3, <1>4, <1>5, <1>6

LEMMA PagesInvStep == ASSUME PipelineInv, TypeOK, PagesInv, [PipelineNext]_pipelineVars PROVE PagesInv'
<1>1. /\ Spoken \subseteq Spoken' /\ Seq(Spoken) \subseteq Seq(Spoken')
      /\ Seq(PassedOn) \subseteq Seq(Spoken')
  BY SpokenGrows, SpokenAsReceived
<1>2. coordinator \in CoordinatorState /\ coordinator.out \in Seq(Spoken) /\ jobResults \in Seq(Spoken)
  BY Zenon, TheCoordinator DEF PagesInv
<1>3. coordinator'.out \in Seq(Spoken')
  <2>1. CASE ReceiveAny
    BY <1>1, <2>1, ReceiveSound
  <2>2. CASE MergeChildren
    BY <2>2, MergingIsSpoken
  <2>3. CASE coordinator.out # <<>> /\ coordinator' = [coordinator EXCEPT !.out = Tail(@)]
    <3>1. Tail(coordinator.out) \in Seq(Spoken)
      BY <1>2, <2>3, HeadTailProperties
    <3>2. coordinator'.out = Tail(coordinator.out)
      BY <1>2, <2>3 DEF CoordinatorState
    <3> QED BY <1>1, <3>1, <3>2
  <2>4. CASE coordinator' = Idle
    BY <2>4, IdleIsIdle, EmptySeq
  <2>5. CASE coordinator' = [coordinator EXCEPT !.step = "idle"]
    <3>1. coordinator'.out = coordinator.out
      BY <1>2, <2>5 DEF CoordinatorState
    <3> QED BY <1>1, <1>2, <3>1
  <2>6. CASE UNCHANGED coordinator
    BY <1>1, <1>2, <2>6
  <2> QED BY Zenon, <2>1, <2>2, <2>3, <2>4, <2>5, <2>6
          DEF PipelineNext, CoordinatorStep, WorkerStep, PublishPending, PublishJob, RetryJob, BeginJob,
              ConvertJob, PublishNext, CommitJob, CrashWorkers, ForwardNext, CommitResult, CrashCoordinator,
              ConsumeResult, pipelineVars, coordinatorVars
<1>4. jobResults' \in Seq(Spoken')
  <2>1. CASE \E j \in Jobs : jobResults' = Append(jobResults, Discovered("PENDING", JobMsg(j)))
    <3> PICK j \in Jobs : jobResults' = Append(jobResults, Discovered("PENDING", JobMsg(j)))
      BY <2>1
    <3> PICK m : m = Msg("PENDING", JobMsg(j), FALSE)
      OBVIOUS
    <3>1. m \in ResultMessage /\ m.status = "PENDING"
      <4>1. "PENDING" \in Statuses /\ FALSE \in BOOLEAN /\ JobMsg(j) \in JobMsgs
        BY TopLevelMessage DEF Statuses
      <4> QED BY <4>1, MsgIsMessage
    <3>2. m \in Spoken
      BY <3>1, OtherMessagesAreSpoken
    <3>3. Append(jobResults, m) \in Seq(Spoken)
      BY <1>2, <3>2, AppendProperties
    <3> QED BY <1>1, <3>3 DEF Discovered
  <2>2. CASE coordinator.out # <<>> /\ jobResults' = Append(jobResults, Head(coordinator.out))
    <3>1. Head(coordinator.out) \in Spoken
      BY <1>2, <2>2, HeadTailProperties
    <3>2. Append(jobResults, Head(coordinator.out)) \in Seq(Spoken)
      BY <1>2, <3>1, AppendProperties
    <3> QED BY <1>1, <2>2, <3>2
  <2>3. CASE jobResults # <<>> /\ jobResults' = Tail(jobResults)
    <3>1. Tail(jobResults) \in Seq(Spoken)
      BY <1>2, <2>3, HeadTailProperties
    <3> QED BY <1>1, <2>3, <3>1
  <2>4. CASE UNCHANGED jobResults
    BY <1>1, <1>2, <2>4
  <2> QED BY Zenon, <2>1, <2>2, <2>3, <2>4
          DEF PipelineNext, CoordinatorStep, WorkerStep, PublishPending, PublishJob, RetryJob, BeginJob,
              ConvertJob, PublishNext, CommitJob, CrashWorkers, ReceiveAny, MergeChildren, ForwardNext,
              CommitResult, CrashCoordinator, ConsumeResult, pipelineVars, topicVars
<1>5. CompletedPagesAreQueryable'
  <2>1. \A p \in Jobs : (Queryable(p) => Queryable(p)') /\ (Merged(p)' => Merged(p))
    BY QueryableStays, StorageNeverShrinks DEF Merged, StorageGrows
  <2>2. CASE UNCHANGED jobs
    BY <2>1, <2>2 DEF PagesInv, CompletedPagesAreQueryable, Merged
  <2>3. CASE ConsumeResult
    <3> PICK m : m = Head(jobResults)
      OBVIOUS
    <3>1. m \in ResultMessage /\ ApplyToLedger(m) /\ m \in Spoken
      BY <1>2, <2>3, TheHeadIsTold, HeadTailProperties DEF ConsumeResult
    <3>2. \/ UNCHANGED jobs
          \/ \E s : jobs' = [jobs EXCEPT ![m.job] = s] /\ (s = "completed" => m.status = "SUCCESS")
      BY <3>1, OnlySuccessCompletes
    <3>3. CASE \E s : jobs' = [jobs EXCEPT ![m.job] = s] /\ (s = "completed" => m.status = "SUCCESS")
      <4> PICK s : jobs' = [jobs EXCEPT ![m.job] = s] /\ (s = "completed" => m.status = "SUCCESS")
        BY Zenon, <3>3
      <4>1. s = "completed" /\ Merged(m.job) => Queryable(m.job)
        BY <3>1 DEF Spoken
      <4>2. \A j \in Jobs : jobs'[j] = IF j = m.job THEN s ELSE jobs[j]
        BY DEF TypeOK
      <4>3. \A j \in Jobs : Merged(j) /\ jobs'[j] = "completed" => Queryable(j)
        BY <4>1, <4>2 DEF PagesInv, CompletedPagesAreQueryable, Merged
      <4> QED BY <2>1, <4>3 DEF CompletedPagesAreQueryable, Merged
    <3> QED BY <2>2, <3>2, <3>3
  <2>4. ConsumeResult \/ UNCHANGED jobs
    BY Zenon DEF PipelineNext, CoordinatorStep, WorkerStep, PublishPending, PublishJob, RetryJob, BeginJob,
           ConvertJob, PublishNext, CommitJob, CrashWorkers, ReceiveAny, MergeChildren, ForwardNext,
           CommitResult, CrashCoordinator, pipelineVars, vars
  <2> QED BY <2>2, <2>3, <2>4
<1> QED BY <1>3, <1>4, <1>5 DEF PagesInv

(* A page the ledger shows as completed has a table of its version or a    *)
(* newer one: its success is only told once its children are registered.   *)
THEOREM CompletedPagesQueryable == PipelineSpec => []CompletedPagesAreQueryable
<1>1. PipelineInit => PagesInv
  <2> SUFFICES ASSUME PipelineInit PROVE PagesInv
    OBVIOUS
  <2>1. jobResults = <<>> /\ coordinator.out = <<>>
    BY IdleIsIdle DEF PipelineInit
  <2>2. <<>> \in Seq(Spoken)
    BY EmptySeq
  <2>3. CompletedPagesAreQueryable
    BY DEF PipelineInit, Init, CompletedPagesAreQueryable
  <2> QED BY <2>1, <2>2, <2>3 DEF PagesInv
<1>2. PagesInv => CompletedPagesAreQueryable
  BY DEF PagesInv
<1> QED BY <1>1, <1>2, PagesInvStep, PipelineInvariant, PipelineRunsTheLedger, TypeCorrect, PTL
        DEF PipelineSpec

=============================================================================
