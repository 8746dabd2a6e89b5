---------------------------- MODULE IngestPipeline ----------------------------
(***************************************************************************)
(* From a queued job to a queryable table: the ingest workers, the worker  *)
(* coordinator, the Parquet objects in S3, the DuckLake catalog and the    *)
(* orchestrator's result consumer, which writes the job ledger.            *)
(*                                                                         *)
(*   queue (jobs, jobs-retry) -> worker -> parquetResults -> coordinator   *)
(*     -> jobResults -> result consumer -> ledger                          *)
(*                                                                         *)
(* A topic partition is the sequence of messages from its consumer's       *)
(* stored offset on; the consumer has handled the first few of them, and a *)
(* crash makes it handle those again.  Both result topics have one         *)
(* partition, the default; a worker slot consumes one partition of jobs or *)
(* jobs-retry.                                                             *)
(*                                                                         *)
(* A resource may be a page: each attempt at its job crawls the page again *)
(* and starts one job per file found, or, when it finds a single file,     *)
(* converts that file itself.                                              *)
(***************************************************************************)
EXTENDS JobLedger, Sequences

CONSTANTS
  Slots,       \* worker slots, one per partition of jobs and jobs-retry
  SlotOf,      \* the jobs partition of each job (key: resource id)
  RetrySlot,   \* the jobs-retry partition
  Version,     \* source_version of each job
  Crawls,      \* the lists of files that crawls of a page may find, as the jobs
               \* of the files; {} for a plain file
  Failures,    \* the failed outcomes explored: "FAILED", "DELETED" (source is gone)
  Disturbances, \* the disturbances explored: "retry" (HTTP), "replan" (a later
               \* sync or a replay queues the job again), "fault" (a crash, a
               \* failed offset commit, a failed catalog write)
  MaxDisturbances \* bound: disturbances in all

IsPage(j) == Crawls[j] # {}
Files(l) == {l[i] : i \in 1..Len(l)}

\* A crawl sorts what it finds by resource id: two lists never differ in the
\* order of their common files, and no list has a file twice.
SameOrder(l, k) ==
  \A a, b \in 1..Len(l), c, d \in 1..Len(k) :
    l[a] = k[c] /\ l[b] = k[d] => (a < b <=> c < d)

ASSUME PipelineAssumption ==
  /\ SlotOf \in [Jobs -> Slots] /\ RetrySlot \in Slots
  /\ Version \in [Jobs -> Nat]
  /\ Crawls \in [Jobs -> SUBSET (Seq(Jobs) \ {<<>>})]
  /\ \A p \in Jobs : \A l \in Crawls[p] :
       /\ \A c \in Files(l) : ParentOf[c] = p
       /\ \A k \in Crawls[p] : SameOrder(l, k)
  /\ Failures \subseteq {"FAILED", "DELETED"}
  /\ Disturbances \subseteq {"retry", "replan", "fault"} /\ MaxDisturbances \in Nat

VARIABLES
  queue,          \* the partitions of the job topics: sequences of job messages
  announced,      \* how often each job was announced (PENDING, then its job)
  planned,        \* how often each job was queued by the sync worker
  worker,         \* per slot: messages handled, step, messages to publish
  parquetResults, \* the worker's results
  objects,        \* jobs whose Parquet object is in S3 (key: resource, version)
  coordinator,    \* messages handled, step, messages to publish
  childRecords,   \* the coordinator's child table, folded per page and position
  table,          \* the DuckLake table of each resource: its tags, its files
  jobResults,     \* announcements and the coordinator's results
  newest,         \* auxiliary: the slot that began each job last
  crawled,        \* auxiliary: the lists that attempts at each page have found
  disturbances    \* auxiliary: counter for the bound

workerVars == <<queue, worker, objects, newest, crawled>>
topicVars == <<parquetResults, jobResults>>
coordinatorVars == <<coordinator, childRecords, table>>
pipelineVars == <<vars, queue, announced, planned, worker, parquetResults, objects, coordinator,
                  childRecords, table, jobResults, newest, crawled, disturbances>>

\* A job's message says where a file stands in the list it was found in: its
\* child_index and the list's total_child_count.
FileMsg(j, i, n) == [job |-> j, index |-> i, total |-> n]
JobMsg(j) == FileMsg(j, 0, 0)

\* A result repeats the message of its job; artifact: a Parquet file comes
\* with it (and with it a row count).
Msg(s, q, has) ==
  [status |-> s, job |-> q.job, index |-> q.index, total |-> q.total, artifact |-> has]

\* The tables of the catalog: a converted resource is one Parquet file.
NoTable == [job |-> NoJob, version |-> 0, files |-> <<>>]
Own(j) == [i \in {0} |-> j]
Disturb(kind) ==
  /\ kind \in Disturbances /\ disturbances < MaxDisturbances
  /\ disturbances' = disturbances + 1
Fault == Disturb("fault")
Idle == [handled |-> 0, step |-> "idle", out |-> <<>>]
After(log, n) == SubSeq(log, n + 1, Len(log))

PipelineInit ==
  /\ Init /\ instances = Instances
  /\ queue = [w \in Slots |-> <<>>]
  /\ announced = [j \in Jobs |-> 0]
  /\ planned = [j \in Jobs |-> 0]
  /\ worker = [w \in Slots |-> Idle]
  /\ parquetResults = <<>>
  /\ objects = {}
  /\ coordinator = Idle
  /\ childRecords = [p \in Jobs |-> [total |-> 0, rows |-> <<>>]]
  /\ table = [r \in Resources |-> NoTable]
  /\ jobResults = <<>>
  /\ newest = [j \in Jobs |-> RetrySlot]
  /\ crawled = [j \in Jobs |-> {}]
  /\ disturbances = 0

-----------------------------------------------------------------------------
(* The sources of jobs.                                                    *)

\* JobResultMessage::discovery: an announcement carries no result.
Discovered(status, q) == Msg(status, q, FALSE)

\* The sync worker announces a job and, once the announcement is stored,
\* queues it; a later sync, or the replay of this one, does both again as
\* long as the job has not completed.  Older versions come first.
PublishPending(j) ==
  /\ TopLevel(j) /\ jobs[j] # "completed"
  /\ announced[j] = planned[j]
  /\ IF announced[j] = 0 THEN UNCHANGED disturbances ELSE Disturb("replan")
  /\ \A k \in Jobs : ResourceOf[k] = ResourceOf[j] /\ Version[k] > Version[j] => announced[k] = 0
  /\ jobResults' = Append(jobResults, Discovered("PENDING", JobMsg(j)))
  /\ announced' = [announced EXCEPT ![j] = @ + 1]
  /\ UNCHANGED <<workerVars, planned, parquetResults, coordinatorVars, vars>>

PublishJob(j) ==
  /\ TopLevel(j) /\ planned[j] < announced[j]
  /\ queue' = [queue EXCEPT ![SlotOf[j]] = Append(@, JobMsg(j))]
  /\ planned' = [planned EXCEPT ![j] = @ + 1]
  /\ UNCHANGED <<announced, worker, objects, newest, crawled, topicVars, coordinatorVars, vars,
                 disturbances>>

\* Dispatcher.RetryJob: any stored top-level job, whatever its status.
RetryJob(j) ==
  /\ Known(j) /\ TopLevel(j)
  /\ Disturb("retry")
  /\ queue' = [queue EXCEPT ![RetrySlot] = Append(@, JobMsg(j))]
  /\ UNCHANGED <<announced, planned, worker, objects, newest, crawled, topicVars, coordinatorVars,
                 vars>>

-----------------------------------------------------------------------------
(* WorkerHandler running a JobProcessor.                                   *)

JobAt(w) == queue[w][worker[w].handled]

\* A message is received and its PROCESSING published before any work.
BeginJob(w) ==
  /\ worker[w].step = "idle" /\ worker[w].handled < Len(queue[w])
  /\ LET q == queue[w][worker[w].handled + 1] IN
       /\ parquetResults' = Append(parquetResults, Msg("PROCESSING", q, FALSE))
       /\ newest' = [newest EXCEPT ![q.job] = w]
       /\ worker' = [worker EXCEPT ![w].handled = @ + 1, ![w].step = "convert"]
  /\ UNCHANGED <<queue, announced, planned, objects, crawled, jobResults, coordinatorVars,
                 vars, disturbances>>

ToResults(m) == [topic |-> "parquet-results", msg |-> m]
ToJobs(q) == [topic |-> "jobs", msg |-> q]

\* For each file of the list found: its announcement, then its job.
ChildMessages(l) ==
  [i \in 1..(2 * Len(l)) |->
     LET k == (i + 1) \div 2
         q == FileMsg(l[k], k - 1, Len(l)) IN
     IF i % 2 = 1 THEN ToResults(Discovered("PENDING", q)) ELSE ToJobs(q)]

\* run_conversion: what the attempt may publish, upload and (a page) find.
\* An object left by an earlier attempt of a top-level job is a success
\* without artifact; S3 may fail on the look for it, and an attempt may still
\* fail after its upload, when the artifact's statistics are gathered.  A page
\* with one file is converted like a plain file.
ConversionsWithoutUpload(q) ==                                   \* mutant
  {[out |-> <<ToResults(Msg("SUCCESS", q, TRUE))>>, uploaded |-> {}, found |-> {}]}
Conversions(q) ==
  LET j == q.job
      Outcome(out, uploaded, found) == [out |-> out, uploaded |-> uploaded, found |-> found]
      Result(s, has) == <<ToResults(Msg(s, q, has))>>
      Failed(uploaded, found) ==
        {Outcome(Result(f, FALSE), uploaded, found) : f \in Failures \cap {"FAILED"}}
      Converted(found) ==
        {Outcome(Result("SUCCESS", TRUE), {j}, found)} \cup Failed({j}, found) IN
  IF TopLevel(j) /\ j \in objects
    THEN {Outcome(Result("SUCCESS", FALSE), {}, {})} \cup Failed({}, {})
    ELSE {Outcome(Result(f, FALSE), {}, {}) : f \in Failures}
         \cup (IF IsPage(j) THEN UNION {Converted({l}) : l \in {k \in Crawls[j] : Len(k) = 1}}
                            ELSE Converted({}))
         \cup {Outcome(Result("PROCESSING", FALSE) \o ChildMessages(l), {}, {l}) :
                 l \in {k \in Crawls[j] : Len(k) > 1}}

ConvertJob(w) ==
  /\ worker[w].step = "convert"
  /\ \E c \in Conversions(JobAt(w)) :
       /\ objects' = objects \cup c.uploaded
       /\ crawled' = [crawled EXCEPT ![JobAt(w).job] = @ \cup c.found]
       /\ worker' = [worker EXCEPT ![w].step = "publish", ![w].out = c.out]
  /\ UNCHANGED <<queue, announced, planned, newest, topicVars, coordinatorVars, vars,
                 disturbances>>

\* The results leave one at a time, each confirmed before the next.
PublishNext(w) ==
  /\ worker[w].step = "publish" /\ worker[w].out # <<>>
  /\ LET o == Head(worker[w].out) IN
       IF o.topic = "jobs"
         THEN /\ queue' = [queue EXCEPT ![SlotOf[o.msg.job]] = Append(@, o.msg)]
              /\ UNCHANGED parquetResults
         ELSE /\ parquetResults' = Append(parquetResults, o.msg)
              /\ UNCHANGED queue
  /\ worker' = [worker EXCEPT ![w].out = Tail(@)]
  /\ UNCHANGED <<announced, planned, objects, newest, crawled, jobResults, coordinatorVars,
                 vars, disturbances>>

\* The offset is stored last; a failure to store it is only logged.
CommitJob(w) ==
  /\ worker[w].step = "publish" /\ worker[w].out = <<>>
  /\ \/ /\ queue' = [queue EXCEPT ![w] = After(@, worker[w].handled)]
        /\ worker' = [worker EXCEPT ![w] = Idle]
        /\ UNCHANGED disturbances
     \/ /\ Fault
        /\ worker' = [worker EXCEPT ![w].step = "idle"]
        /\ UNCHANGED queue
  /\ UNCHANGED <<announced, planned, objects, newest, crawled, topicVars,
                 coordinatorVars, vars>>

\* A panic aborts the process, all slots of it.
CrashWorkers ==
  /\ Fault
  /\ \E w \in Slots : worker[w].handled > 0
  /\ worker' = [w \in Slots |-> Idle]
  /\ UNCHANGED <<queue, announced, planned, objects, newest, crawled, topicVars,
                 coordinatorVars, vars>>

-----------------------------------------------------------------------------
(* The worker coordinator: WorkerHandler running a ParquetProcessor.       *)

\* ParquetRegistrar: a table is replaced in one transaction, unless it holds
\* this version or a newer one, or was registered by this very job.
IsStaleByJob(r, j) == table[r] # NoTable /\ table[r].job = j          \* mutant
IsStale(r, j) ==
  table[r] # NoTable /\ (table[r].version >= Version[j] \/ table[r].job = j)

Register(j, files) ==
  LET r == ResourceOf[j] IN
  table' = IF IsStale(r, j) THEN table
           ELSE [table EXCEPT ![r] = [job |-> j, version |-> Version[j], files |-> files]]

\* register_children_with_tags: the page's table holds one file per recorded
\* position, under the same check and in one transaction.
RegisterChildren(p) ==
  Register(p, [i \in DOMAIN childRecords[p].rows |-> childRecords[p].rows[i].job])

Outcomes3 == {"SUCCESS", "FAILED", "DELETED"}

\* ChildJobs.record appends a row; ChildJobs.group folds the rows of a page by
\* position, whatever attempt sent them: a failure (or deletion) recorded for
\* a position stays, else the later row replaces the earlier one, and the
\* total is that of the last row.
Recorded(rows, i, row) ==
  IF i \in DOMAIN rows /\ rows[i].status = "FAILED" THEN rows
  ELSE [k \in DOMAIN rows \cup {i} |-> IF k = i THEN row ELSE rows[k]]

Record(m, s) ==
  childRecords' = [childRecords EXCEPT ![ParentOf[m.job]] =
    [total |-> m.total,
     rows |-> Recorded(@.rows, m.index,
                [job |-> m.job, status |-> IF s = "SUCCESS" THEN s ELSE "FAILED"])]]

AnyFailedFirst(p) ==                                                \* mutant
  0 \in DOMAIN childRecords[p].rows /\ childRecords[p].rows[0].status = "FAILED"
AnyFailed(p) ==
  \E i \in DOMAIN childRecords[p].rows : childRecords[p].rows[i].status = "FAILED"
AllRecordedButOne(p) ==                                             \* mutant
  Cardinality(DOMAIN childRecords[p].rows) + 1 >= childRecords[p].total
AllRecorded(p) == Cardinality(DOMAIN childRecords[p].rows) = childRecords[p].total

\* Results of children are recorded and passed on first; the parent is
\* looked at afterwards.
ReceiveChildResult(m) ==
  /\ ~TopLevel(m.job) /\ m.status \in Outcomes3
  /\ LET s == IF m.status = "SUCCESS" /\ ~m.artifact THEN "FAILED" ELSE m.status
         forward(next) == [coordinator EXCEPT
           !.handled = @ + 1, !.step = next,
           !.out = <<[m EXCEPT !.status = s, !.artifact = FALSE]>>] IN
       \/ Record(m, s) /\ coordinator' = forward("merge") /\ UNCHANGED disturbances
       \/ \* the metadata store fails, before or after the row is written
          /\ \/ Record(m, s)
             \/ UNCHANGED childRecords
          /\ coordinator' = forward("record failed") /\ Fault
  /\ UNCHANGED table

\* A success of a top-level job is registered before it is passed on; when
\* three attempts fail (the last may have been committed all the same) it is
\* passed on as a failure.  Without an artifact there is nothing to register.
ReceiveResult(m) ==
  /\ TopLevel(m.job) \/ m.status \notin Outcomes3
  /\ LET forward(s) == [coordinator EXCEPT
           !.handled = @ + 1, !.step = "publish",
           !.out = <<[m EXCEPT !.status = s]>>] IN
       \/ /\ coordinator' = forward(m.status)
          /\ IF m.status = "SUCCESS" /\ m.artifact
               THEN Register(m.job, Own(m.job)) ELSE UNCHANGED table
          /\ UNCHANGED disturbances
       \/ /\ m.status = "SUCCESS" /\ m.artifact
          /\ coordinator' = forward("FAILED") /\ Fault
          /\ UNCHANGED table \/ Register(m.job, Own(m.job))
  /\ UNCHANGED childRecords

ReceiveAny ==
  /\ coordinator.step = "idle" /\ coordinator.handled < Len(parquetResults)
  /\ LET m == parquetResults[coordinator.handled + 1] IN ReceiveChildResult(m) \/ ReceiveResult(m)
  /\ UNCHANGED <<workerVars, announced, planned, topicVars, vars>>

ChildOf == parquetResults[coordinator.handled].job
ParentIs(s) == [coordinator EXCEPT !.step = "publish",
                  !.out = <<Msg(s, JobMsg(ParentOf[ChildOf]), TRUE)>>]

\* After the child's own result is out: a failed group fails the parent each
\* time, a complete one is merged and registered under the parent.
MergeIgnoringErrors ==                                              \* mutant
  /\ coordinator.step \in {"merge", "record failed"} /\ coordinator.out = <<>>
  /\ LET p == ParentOf[ChildOf] IN
       \/ /\ coordinator.step = "record failed" \/ AnyFailed(p)
          /\ coordinator' = ParentIs("FAILED")
          /\ UNCHANGED <<table, disturbances>>
       \/ /\ coordinator.step = "merge" /\ ~AnyFailed(p) /\ AllRecorded(p)
          /\ coordinator' = ParentIs("SUCCESS")
          /\ \/ RegisterChildren(p) /\ UNCHANGED disturbances
             \/ UNCHANGED table /\ Fault
       \/ /\ coordinator.step = "merge" /\ ~AnyFailed(p) /\ ~AllRecorded(p)
          /\ coordinator' = [coordinator EXCEPT !.step = "publish"]
          /\ UNCHANGED <<table, disturbances>>
  /\ UNCHANGED <<workerVars, announced, planned, topicVars, childRecords, vars>>
MergeSilentOnFailure ==                                             \* mutant
  /\ coordinator.step \in {"merge", "record failed"} /\ coordinator.out = <<>>
  /\ LET p == ParentOf[ChildOf] IN
       IF coordinator.step = "merge" /\ ~AnyFailed(p) /\ AllRecorded(p)
         THEN RegisterChildren(p) /\ coordinator' = ParentIs("SUCCESS")
         ELSE UNCHANGED table /\ coordinator' = [coordinator EXCEPT !.step = "publish"]
  /\ UNCHANGED <<workerVars, announced, planned, topicVars, childRecords, vars,
                 disturbances>>
MergeChildren ==
  /\ coordinator.step \in {"merge", "record failed"} /\ coordinator.out = <<>>
  /\ LET p == ParentOf[ChildOf] IN
       \/ /\ coordinator.step = "record failed" \/ AnyFailed(p)
          /\ coordinator' = ParentIs("FAILED")
          /\ UNCHANGED <<table, disturbances>>
       \/ /\ coordinator.step = "merge" /\ ~AnyFailed(p) /\ AllRecorded(p)
          /\ \/ RegisterChildren(p) /\ coordinator' = ParentIs("SUCCESS") /\ UNCHANGED disturbances
             \/ \* merging or registering fails, and is not tried again
                /\ UNCHANGED table \/ RegisterChildren(p)
                /\ coordinator' = ParentIs("FAILED") /\ Fault
       \/ /\ coordinator.step = "merge" /\ ~AnyFailed(p) /\ ~AllRecorded(p)
          /\ coordinator' = [coordinator EXCEPT !.step = "publish"]
          /\ UNCHANGED <<table, disturbances>>
  /\ UNCHANGED <<workerVars, announced, planned, topicVars, childRecords, vars>>

ForwardNext ==
  /\ coordinator.out # <<>>
  /\ jobResults' = Append(jobResults, Head(coordinator.out))
  /\ coordinator' = [coordinator EXCEPT !.out = Tail(@)]
  /\ UNCHANGED <<workerVars, announced, planned, parquetResults, childRecords, table, vars,
                 disturbances>>

CommitResultKeepsPosition ==                                        \* mutant
  /\ coordinator.step = "publish" /\ coordinator.out = <<>>
  /\ parquetResults' = After(parquetResults, coordinator.handled)
  /\ coordinator' = [coordinator EXCEPT !.step = "idle"]
  /\ UNCHANGED <<workerVars, announced, planned, jobResults, childRecords, table, vars,
                 disturbances>>
CommitResult ==
  /\ coordinator.step = "publish" /\ coordinator.out = <<>>
  /\ \/ /\ parquetResults' = After(parquetResults, coordinator.handled)
        /\ coordinator' = Idle
        /\ UNCHANGED disturbances
     \/ /\ Fault
        /\ coordinator' = [coordinator EXCEPT !.step = "idle"]
        /\ UNCHANGED parquetResults
  /\ UNCHANGED <<workerVars, announced, planned, jobResults, childRecords, table, vars>>

CrashCoordinator ==
  /\ Fault
  /\ coordinator.handled > 0
  /\ coordinator' = Idle
  /\ UNCHANGED <<workerVars, announced, planned, topicVars, childRecords, table, vars>>

-----------------------------------------------------------------------------
(* The orchestrator's result consumer: Consumers.handleJob applies one     *)
(* message to the ledger, then its offset is stored.  A message about a    *)
(* job the ledger does not know is dropped after five looks.               *)

ApplyToLedger(m) ==
  LET j == m.job IN
  CASE m.status = "PENDING" /\ ~Known(j)    -> ApplyPending(j)
    [] m.status = "PROCESSING" /\ Known(j)  -> ApplyProcessing(j)
    [] m.status \in Outcomes3 /\ Open(j) /\ ~TopLevel(j) ->
         ApplyChildTerminal(j, CASE m.status = "SUCCESS" -> "completed"
                                 [] m.status = "FAILED" -> "failed"
                                 [] OTHER -> "deleted")
    [] m.status = "SUCCESS" /\ Open(j) /\ TopLevel(j) ->
         IF m.artifact THEN ApplySuccessRows(j, NoDelimiter, {})
                       ELSE ApplySuccessEmpty(j, NoDelimiter)
    [] m.status = "FAILED" /\ Open(j) /\ TopLevel(j)  -> ApplyFailed(j, {})
    [] m.status = "DELETED" /\ Open(j) /\ TopLevel(j) -> ApplyDeleted(j)
    [] OTHER -> UNCHANGED vars

ConsumeResult ==
  /\ jobResults # <<>>
  /\ ApplyToLedger(Head(jobResults))
  /\ \/ jobResults' = Tail(jobResults) /\ UNCHANGED disturbances
     \/ /\ Fault  \* applied, offset not stored
        /\ UNCHANGED jobResults
  /\ UNCHANGED <<workerVars, announced, planned, parquetResults, coordinatorVars>>

-----------------------------------------------------------------------------
WorkerStep(w) == BeginJob(w) \/ ConvertJob(w) \/ PublishNext(w) \/ CommitJob(w)
CoordinatorStep == ReceiveAny \/ MergeChildren \/ ForwardNext \/ CommitResult

PipelineNext ==
  \/ \E j \in Jobs : PublishPending(j) \/ PublishJob(j) \/ RetryJob(j)
  \/ \E w \in Slots : WorkerStep(w)
  \/ CrashWorkers
  \/ CoordinatorStep
  \/ CrashCoordinator
  \/ ConsumeResult

\* The processes are restarted and go on; nothing obliges a sync to announce
\* a job, a user to retry, or anything to crash.
PipelineFairness ==
  /\ WF_pipelineVars(\E j \in Jobs : PublishJob(j))
  /\ \A w \in Slots : WF_pipelineVars(WorkerStep(w))
  /\ WF_pipelineVars(CoordinatorStep)
  /\ WF_pipelineVars(ConsumeResult)

PipelineSpec == PipelineInit /\ [][PipelineNext]_pipelineVars
FairPipelineSpec == PipelineSpec /\ PipelineFairness

-----------------------------------------------------------------------------
(* Type invariant of the pipeline's own state.                             *)
JobMsgs == [job : Jobs, index : Nat, total : Nat]
PipelineTypeOK ==
  /\ TypeOK
  /\ queue \in [Slots -> Seq(JobMsgs)]
  /\ objects \subseteq Jobs
  /\ \A j \in Jobs : crawled[j] \subseteq Crawls[j]
  /\ \A w \in Slots : worker[w].handled \in 0..Len(queue[w])
  /\ coordinator.handled \in 0..Len(parquetResults)
  /\ \A p \in Jobs : \A i \in DOMAIN childRecords[p].rows :
       childRecords[p].rows[i] \in [job : Jobs, status : {"SUCCESS", "FAILED"}]
  /\ \A r \in Resources : table[r] # NoTable => ResourceOf[table[r].job] = r

(* A completed job has its data in S3, whatever was retried, replayed or   *)
(* cached on the way: the job's own object, or, for a page whose attempts  *)
(* all found the same list, the object of every file on it.                *)
CompletedHasObjects ==
  \A j \in Jobs : jobs[j] = "completed" /\ j \notin objects =>
    IsPage(j) /\ \E l \in crawled[j] : crawled[j] = {l} => Files(l) \subseteq objects

(* The catalog never goes back to an older version of a resource: a        *)
(* delayed or replayed result of an old version does not replace a newer   *)
(* table.                                                                  *)
TableNeverGoesBack ==
  [][\A r \in Resources : table[r] # NoTable =>
       table'[r] # NoTable /\ table'[r].version >= table[r].version]_pipelineVars

(* The table registered for a page is as long as a list that one of its    *)
(* attempts found, and holds at each position the object of a file that    *)
(* some attempt found there.  So, when every attempt found the same list,  *)
(* the table holds each file of the page, each at its own position: it is  *)
(* registered as a whole.  (When the list changed between attempts the     *)
(* positions may come from different lists: PageSucceedsWithItsFiles.)     *)
Parts(p, l) == IF Len(l) = 1 THEN Own(p) ELSE [i \in 0..(Len(l) - 1) |-> l[i + 1]]
MergedTablesAreWhole ==
  \A p \in Jobs : IsPage(p) /\ table[ResourceOf[p]].job = p =>
    LET files == table[ResourceOf[p]].files IN
      /\ \E l \in crawled[p] : Cardinality(DOMAIN files) = Len(l)
      /\ \A i \in DOMAIN files :
           /\ files[i] \in objects
           /\ \E l \in crawled[p] : i \in DOMAIN Parts(p, l) /\ files[i] = Parts(p, l)[i]
      /\ \A l \in crawled[p] : crawled[p] = {l} => files = Parts(p, l)

(* A page the ledger shows as completed is queryable at its version or a   *)
(* newer one: the parent succeeds only after its children are registered,  *)
(* whatever is merged again, replayed or registered by a newer page.  (A   *)
(* page converted as a single file may lose its registration like a plain  *)
(* file: CompletedIsQueryable.)                                            *)
Queryable(j) == table[ResourceOf[j]] # NoTable /\ table[ResourceOf[j]].version >= Version[j]
CompletedPagesAreQueryable ==
  \A p \in Jobs : IsPage(p) /\ jobs[p] = "completed" /\ p \notin objects => Queryable(p)

(* Every job that starts ends: whatever crashes, is replayed, fails to     *)
(* register or is retried, each top-level job the ledger shows as open is  *)
(* eventually completed, failed or deleted, unless it is a page whose      *)
(* attempts have found different lists: the rows of a longer list stay, so *)
(* that the group may never again be as long as its total.                 *)
OpenJobsEnd ==
  \A j \in Jobs : TopLevel(j) =>
    (Open(j) ~> (jobs[j] \in Terminals \/ Cardinality(crawled[j]) > 1))

(* A top-level plain job reported as completed is queryable at its version *)
(* or a newer one.  parquet_message_processor.rs (registration without     *)
(* artifact) says an object the worker finds is already materialized.      *)
CompletedIsQueryable ==
  \A j \in Jobs : jobs[j] = "completed" /\ TopLevel(j) /\ ~IsPage(j) => Queryable(j)

(* While the newest attempt at a plain job is being run and every result   *)
(* so far has been applied, the ledger shows it as processing: the comment *)
(* of applyProcessing says that late results of the attempt before it are  *)
(* discarded.                                                              *)
Drained == parquetResults = <<>> /\ jobResults = <<>>
LateResultsAreDiscarded ==
  \A w \in Slots : worker[w].step = "convert" /\ newest[JobAt(w).job] = w /\ Drained =>
    jobs[JobAt(w).job] = "processing"

(* Retrying a page whose file failed is how the file is recovered:         *)
(* RetryJob refuses the child and says to retry the parent job.  When      *)
(* nothing is left to do, each run of the page ran all its files and the   *)
(* last run of every file succeeded, the page is completed.                *)
RetriedPageRecovers ==
  \A p \in Jobs :
    /\ IsPage(p) /\ Drained /\ \A w \in Slots : queue[w] = <<>>
    /\ \A l \in crawled[p] : \A c \in Files(l) :
         jobs[c] = "completed" /\ Outcomes(c) = Outcomes(p)
    => jobs[p] = "completed" \/ ~Known(p)

(* A completed page has all the files of one of the lists its attempts     *)
(* found: parquet_message_processor.rs has the test                        *)
(* parent_succeeds_only_after_both_child_parquets_are_registered.          *)
PageSucceedsWithItsFiles ==
  \A p \in Jobs :
    IsPage(p) /\ jobs[p] = "completed" /\ table[ResourceOf[p]].job = p =>
      \E l \in crawled[p] : \A i \in DOMAIN Parts(p, l) :
        \E k \in DOMAIN table[ResourceOf[p]].files :
          table[ResourceOf[p]].files[k] = Parts(p, l)[i]

=============================================================================
