# ckan-ingestor: specifications

TLA+ models of the ingestion system in this repository, the TLC runs that check
them and the TLAPS proofs about them. Paths below are relative to the
repository root.

## 1. The system

```
 HTTP API, scheduler                     source (CKAN, SICOM)
        | SyncInstance                          ^ discover
        v                                       |
  ckan_metadata_sync ----------------> source-sync-worker ---> catalog-inbox/*.jsonl (S3)
  (1 partition)                          |      |      |
        RetryJob                 PENDING |      | jobs | sync result
           |                     DELETED |      |      |
           v                             |      v      v
       jobs-retry  ----> ingest worker <-|-- jobs    ckan_metadata_sync_result
                          |    |         |                 |
              Parquet (S3)|    | parquet-results           |
                               v         v                 v
                      worker coordinator --> job-results --> orchestrator consumers
                               |                                   |
                          DuckLake catalog                    job ledger (MySQL)
```

| Component | State | Operations | Talks to |
| --- | --- | --- | --- |
| Job ledger (`backend/internal/app/processor.go`, `mysql-repositories/tx.go`) | `ckan_data_job`, `ckan_data_job_result`, `latest_resource_job`, `last_terminal_status`, labels, CSV hints, `metadata_sync` | `ApplyJobResult` (PENDING, PROCESSING, SUCCESS, FAILED, DELETED; children apart), `ApplyMetadataResult` | called by the consumers, one transaction per message |
| Dispatcher, HTTP API (`dispatcher.go`, `server.go`) | none of their own | `SyncInstance`, `SyncAll`, `RetryJob`, instances, queries | ledger, `ckan_metadata_sync`, `jobs-retry` |
| Scheduler (`scheduler.go`) | a database lock | `SyncAll` every eight hours | dispatcher |
| Orchestrator consumers (`consumers.go`, `iggy/bus.go`) | offset of the group | poll, apply, commit, reconnect; unknown jobs are dropped after five looks | `job-results`, `ckan_metadata_sync_result`, ledger |
| Source sync worker (`source-resource-catalog/resource.go`, `source-sync-worker/`, `iggy-message-transport/consumer.go`) | offset of the group, spool file | lock, discover, observe in batches, complete, snapshot, publish, commit | catalog, source, S3, all topics |
| Resource catalog (`mysql_source_resource_catalog_repository.go`, `oracle-repositories/`) | `source_resource` rows with version, last change, last sighting, tombstone; the source lock | `Lock`, `ObserveBatch`, `Complete` | reads the ledger's completed jobs |
| Ingest worker (`ckan-ingestor-consumer/`, `message-processor/`, `iggy-processor/`) | offset of each partition | announce PROCESSING, convert or reuse an object, upload, publish, fan a page out to child jobs | `jobs`, `jobs-retry`, `parquet-results`, S3 |
| Worker coordinator (`ckan-worker-coordinator/`) | the table of child results (in DuckLake), offset | register a table, record children, merge a complete group, forward results | `parquet-results`, `job-results`, DuckLake |
| Readers (`ckan-ingestor-lib/src/readers/`, `jev_csv_sniffer.rs`) | a download, its repaired copies, an output file | choose a reader, parse, retry, page, discover, visit archives | HTTP, CKAN datastore, Drive, JEV |
| Crawler caches (`external_resource_crawler_reader.rs`, `source-io/`) | listings, manifests, copies and snapshots in S3 | discover, revalidate, copy, serve | S3, the source; shared by all workers |
| Output and uploads (`parquet_output.rs`, `crawler_aggregate.rs`, `child_merge.rs`, `s3_document_ingestor.rs`, `parquet_uploader.rs`) | objects in S3 | name columns, unite schemas, upload in one piece or in parts | S3 |
| Source adapters | none | list a source | HTTP |
| Analytics (`analytics/`) | DuckLake catalog tables, publications | import of snapshots, publication with retention | S3, DuckLake |
| User interfaces, charts, infrastructure, recovery tools | - | read-only or operational | - |

What is hard in it:

* everything is delivered at least once: each consumer stores its offset after
  the effects of a message, and effects go to MySQL, S3, DuckLake and other
  topics, never in one transaction;
* job ids are derived from resource and version, so a retry, a later sync and a
  replay all speak about the same job, at the same time and in different
  partitions;
* results carry no attempt number; the ledger only has its status to judge them;
* a page becomes several child jobs whose results are gathered one by one; every attempt
  at its job crawls it again, and may find another list of files;
* a sync command that is run again keeps its sync id, and meets a source and a
  catalog that have changed since;
* the crawler's caches are several objects written one by one, by any worker, about
  pages and files that change meanwhile and may or may not tell when they did;
* the CSV reader recovers from a parse error by starting again with another guess,
  recursively; what bounds it, and what a new attempt inherits, is spread over
  five functions;
* readers follow structures they do not control: pages that link in cycles, nested
  archives, tables that change between two pages, headers with any names.

What makes each part correct is stated in section 4; the list of hazards with
the line where each one bites is in `PROJECT.json`.

## 2. Modules

| Module | Models |
| --- | --- |
| `JobLifecycle` | abstract: the life of one job (announced once, ends while open, restarted when ended) |
| `JobLedger` | the ledger, fed with any well-formed result at any time; implements `JobLifecycle` |
| `JobLedgerProofs` | the theorems about `JobLedger` |
| `IngestPipeline` | EXTENDS `JobLedger`; workers, coordinator, S3, DuckLake, result topic and consumer: it narrows the order of results down to what the topics deliver |
| `SourceSync` | dispatcher, source sync worker, resource catalog, closing of syncs |
| `ResourceReading` | one conversion: which reader is tried when, and the message its outcome becomes |
| `CsvReading` | the CSV reader with its retries and the repairs of JEV |
| `DatastoreReading` | the datastore reader, fetching pages of a table that changes |
| `RecordReading` | JSON, GeoJSON, data packages, GTFS Realtime, logs: records to rows in batches |
| `PageDiscovery` | the crawler's walk over pages and Drive folders |
| `ArchiveVisit` | the visit of a ZIP archive and the archives in it |
| `SourceCopies` | the crawler's caches in S3, several crawlers, a changing source |
| `TableSchema` | names of columns, union of schemas, rewriting of the merged files |
| `ObjectUploads` | one object in S3 and the workers that write it |
| `IngestPipelineProofs`, `SourceSyncProofs`, `CsvReadingProofs`, `SourceCopiesProofs`, `ObjectUploadsProofs` | the theorems about those modules |
| `ReaderProofs` | the theorems about `ResourceReading`, `DatastoreReading` and `RecordReading` |
| `CrawlProofs` | the theorems about `PageDiscovery`, `ArchiveVisit` and `TableSchema` |
| `MCReading` | the nine modules of reading side by side, one of them active in a behaviour |
| `MCJobLedger`, `MCIngestPipeline`, `MCSourceSync`, `MCCsvReading` | instances for TLC |

Operators with the comment `mutant` are deliberately wrong variants of the
operator they stand in front of. The specifications never use them: they are
put in place of the right one to see that a property notices.

### JobLedger

A transaction is one action, since `InTx` reads the rows `FOR UPDATE`. Each
handler of `ApplyJobResult` is an action (`ApplyPending`, `ApplyProcessing`,
`ApplyFailed`, `ApplyDeleted`, `ApplySuccessEmpty`, `ApplySuccessRows`,
`ApplyChildTerminal`), with every write the handler makes, the helpers
`putTerminal`, `updateLatest` and the label statements included. A message that
the code ignores or rolls back is a stuttering step. Resource, parent and
instance of a job are constants because they are part of every message about
it and the job id is derived from them. Labels are sets; the labels that
`applyLabels` computes from the data are any set of `DataLabels`. Time stamps,
names and row counts (other than "no rows") are left out. `reopens` counts how
often a finished job was started again, to state `OneResultPerAttempt`.

### IngestPipeline

A topic partition is the sequence of messages from the stored offset on;
`handled` counts the ones the consumer has dealt with since. Storing the offset
drops them, a crash resets `handled` to zero, and a commit that fails leaves
both as they are (`worker_handler.rs` logs the error and goes on). A worker
slot is one partition of `jobs` or `jobs-retry` with its consumer.

| Code | Actions |
| --- | --- |
| `Worker.Sync` publishing PENDING and job, by a first or a later sync | `PublishPending`, `PublishJob` |
| `Dispatcher.RetryJob` | `RetryJob` |
| `JobProcessor::process`, `run_conversion`, `child_job`, `ParquetUploader` | `BeginJob`, `ConvertJob` (outcomes in `Conversions`), `PublishNext` |
| `WorkerHandler::run`, panic hooks | `CommitJob`, `CommitResult`, `CrashWorkers`, `CrashCoordinator` |
| `ParquetProcessor::process` | `ReceiveChildResult`, `MergeChildren`, `ReceiveResult`, `ForwardNext` |
| `ChildJobs::record`, `group` | `Record`, `Recorded`, `AnyFailed`, `AllRecorded` |
| `ParquetRegistrar` | `IsStale`, `Register`, `RegisterChildren` |
| `Bus.Consume`, `Consumers.handleJob` | `ConsumeResult`, `ApplyToLedger` |

What a reader makes of a file is one of the outcomes: rows, failure, deletion,
or more than one file.

A page's list of files is not fixed. `Crawls` gives the lists that crawls of it may find,
and each attempt (`ConvertJob`) finds one of them: files may have joined or left
since the last attempt. As in the code the files of a list are sorted
(`SameOrder`), get their position and the length of the list in their messages (`FileMsg`),
and a list of one file is converted by the page's own job. `childRecords` folds the rows of
the coordinator's table like `ChildJobs.group`: by position, whatever attempt sent them, a
failure for good, the total being that of the last row; rows of earlier attempts are
never removed, and a group is complete when its rows are as many as that total
(`AllRecorded`). `crawled` remembers the lists found, for the properties. The results of
several attempts thus mix as they do in the code: after a list has shrunk the group may have more
rows than its total for ever, after it has shifted a position may hold a file of either list.

Versions are numbers; the code compares them as strings, which for the timestamps of CKAN is the
order by age. SICOM's version is part of the resource id, and two versions of one of its resources
are never compared.
The coordinator strips the artifact before it forwards a result; in the model
the flag stays in the message and stands for "has a row count". `newest`
remembers which slot began a job last, to state `LateResultsAreDiscarded`.

### SourceSync

`DispatchSync` and `CommitSync` are the two halves of `SyncInstance`: the
command is published before the transaction commits. A replica goes through
`Poll`, `Lock`, `Discover`, `ObserveBatch`, `Complete`, `PublishSnapshot`,
`PublishNext`, `Unlock`, `Commit`, one step per external effect, and `Crash`
may end it anywhere: any error the code returns ends the process. A second
replica may be handed the same command (a rebalance), and goes on with the next ones while
the first is still at work. `Messages` and `Rank`
give the messages of `Complete` and their order. The source changes its
listing at any time, and jobs complete and are run again at any time, which
is how the ingest pipeline looks from here. Topics are kept as sets of what
was ever published, because the ledger ignores repetitions.

### What lies below a conversion

`IngestPipeline` takes a conversion for one of its outcomes. The modules below
open it up. They share no variables: a conversion is one thread of one worker,
and what the parts say to each other are return values. What workers do share
are the objects in S3, which is why `SourceCopies` and `ObjectUploads` have
several of them and the others do not.

| Code | Module: actions |
| --- | --- |
| `run_conversion`, `MultipleReader::do_read`, `CkanReader`, `job_result_from_*`, `failed_job` | `ResourceReading`: `Begin`, `NextTurn`, `ReaderFails`, `ReaderSucceeds`, `CrawlerFansOut`, `FileIsGone`, `AllFailed`, `Upload`, `Panic` |
| `CsvReader::read_batches`, `try_read_csv` and its three `try_read_csv_*` | `CsvReading`: `StartRead`, `ReadBatch`, `PromoteColumn`, `GrowSample`, `NeedRepair`, `ReadingFails`, `FinishRead`, `RemoveCopy` |
| `repair_csv_with_metadata`, `repair_line`, the questions to JEV | `CsvReading`: `FixInput`, `FixMetadata`, `NoRepair` |
| `DatastoreReader` | `DatastoreReading`: `CountRows`, `FetchPage`, `FetchLastPage`, `FetchFails` |
| `JsonReader`, `DatapackageReader`, `ProtobufReader`, `LogfileReader`, `geojson.rs`, `gtfs_realtime.rs` | `RecordReading`: `OpenDocument`, `RejectDocument`, `WriteRecords`, `ReadLine`, `WriteLines`, `FinishRecords` |
| `discover_sources`, `collect_drive_files`, `list_folder`, `get_file` | `PageDiscovery`: `SkipPage`, `SkipOther`, `ReadPage`, `TooManyPages`, `PageFails`, `OpenFolder`, `OpenFile`, `DriveFails`, `FinishPage`, `FinishDiscovery` |
| `visit_zip_inner` | `ArchiveVisit`: `SkipDirectory`, `SkipMember`, `HandOn`, `EnterArchive`, `LeaveArchive`, `Refuse`, `VisitFails` |
| `load_or_discover`, `store_discovery`, `copy_source`, `store_materialized`, `SourceStorage` | `SourceCopies`: `LoadDiscovery`, `Discover`, `PutGroups`, `PutManifest`, `CopyHttp`, `CopyDrive`, `CopyZip`, `Download`, `KeepCopy`, `UploadPlain`, `UploadVersioned`, `FinishCopy`, `Abandon` |
| `SchemaAccumulator`, `AggregateWriter`, `normalize_children`, `schema_with_field_ids` | `TableSchema`: `AddFields`, `BuildTable`, `AppendSource`, `WriteFile`, `MergeFails`, `FinishTable` |
| `S3DocumentIngestor`, `ParquetUploader`, upload of merged children | `ObjectUploads`: `StartWrite`, `CheckDocument`, `CheckDrive`, `CheckParquet`, `Stage`, `DownloadChild`, `PutWhole`, `PutInParts`, `UploadParquet`, `UploadMerged`, `GiveUp` |

*CsvReading.* A file is lines of cells that are numbers or texts, the first few of
them a preamble. The sniffer (csv-nose) and arrow are external: a guess is any
layout a sampled line suggests, and arrow raises an error for a line of the wrong
length, or for a text in a numeric column, at the line it stands in. The length of
the preamble is taken to be the same in every guess about a file. JEV answers
anything its form allows. Every recursive call of the code is the next attempt
of the model; `copies` are the repaired files whose attempts have not returned.

*SourceCopies.* Contents are named by the time the origin changed to them, which
dated origins report. One action is one access to S3 or to the origin. A page lists files of
its own and files found on the pages and in the Drive folders below it (`UnderRoot`): the latter
come and go while the root page, and its date, stay as they are, and the HEAD that confirms an
old listing asks only about the root. `late` remembers that an origin changed while its file was
on the way, the one race the code can not see; `asked` is the time an origin was last asked
about a listing or copy, and travels with it through manifest, snapshot and crawl; `checked`,
`calm` and `expired` remember what a crawl has looked at. All of these serve the properties only.

*TableSchema.* A name is a text and the numbers put behind it (`a__2` is not the text
`a`, so it takes a header with that very name to clash), and `LowerCase` says
which texts differ in case only. A value is known by the type it is written with.
`Names`, `Headers` and the assumptions say that texts, numbers and headers are any;
the instance for TLC has a few of them.

*PageDiscovery* and *ArchiveVisit.* A site and an archive are constants: maps from pages to
links and from archives to members, as any HTML and any ZIP file may have them, an
archive in itself included. What ought to be found is defined apart from the walk:
the least set of pages that has the root and whatever its members link to (`Closure`), and
the archive read level by level (`WholeAt`), as deep as the code would go.

*ObjectUploads.* A file is a sequence of buffers. An upload in parts sends them one
by one, and the object appears when the last part is confirmed. The
modification time S3 reports is the time of the upload (`at`).

## 3. Runs

Disturbances (retries, repeated planning, crashes, failed commits, failed
publications, rebalances) share one budget per run, `MaxDisturbances`; `Disturbances`
says which kinds a run explores.

| Run | Instance | Shows |
| --- | --- | --- |
| `job_ledger` | two versions of a resource, one child of the second, one instance, two http codes, `MaxReopens` = 1 | all properties of the ledger and the refinement of `JobLifecycle` |
| `pipeline_file` | a file with two versions, one `jobs` and one `jobs-retry` partition, one disturbance of any kind | completed jobs have objects, tables never go back |
| `pipeline_page` | a page on which a crawl finds f1 and f2, or f2 and f3, or f2 alone; one fault or retry, fairness | completed pages have objects, merged tables come from lists that were found, a completed page can be queried, every open job ends (unless the list changed) |
| `source_sync` | two resources, one of them with two versions, two replicas, two syncs, batches of one, one change of the source, one disturbance, failing discoveries, fairness | announcements, success, deletions; every sync is closed; new versions are queued |
| `reading` | nine parts, see below; fairness for the CSV reader and the walk over pages | everything below a conversion |
| `misaddressed_repair` | a CSV file of five lines, one of them preamble, one too long | the fifth disagreement of section 5 |
| `completed_queryable`, `late_results`, `retried_page`, `mixed_page`, `deletions`, `removals` | the smallest instances that show them | the disagreements of section 5 |

Why the bounds are enough. Two jobs of a resource are what it takes for a late
result to meet a newer job; a third adds nothing that the second does not, as
all the properties speak of pairs, and for the ledger the proofs drop the bound
altogether, as they do for the safety properties of the pipeline and of the syncs. A group of two children is the smallest one the code accepts
(`total > 1`) and has the cases none, some and all. The lists of `pipeline_page` are such
that a file joins, leaves, changes its position or is left alone, at each point between two
attempts; there a retry comes after the job has ended, and the result consumer
lags by at most two messages (`RetryWhenQuiet`, `PromptConsumer`). `mixed_page` has a list of three that
shrinks to two, the least that makes a group look complete. One disturbance in the
pipeline already repeats any prefix of the work; what two of them do to the
ledger is covered by `job_ledger`, which takes results in every order. In
`source_sync` a failing discovery costs nothing, so that a crash or a rebalance can meet one;
of its two resources one is `Steady` (it comes and goes, with one version, its jobs staying
open) and the other does whatever the source can do. Two faults in one sync are left to
the proofs, which have no bounds.
`BatchSize` is 1 so that two resources are two batches and a crash falls
between them. Symmetry is used for http codes, which the ledger treats alike, and nowhere else.
`MaxReopens` is 99 in the pipeline runs, where the number of deliveries bounds
reopening. `ShortBacklogs` is a bound of `retried_page` only: no partition runs far ahead; it leaves
behaviours out, which does no harm to a counterexample.

The run `reading` has one part per behaviour, chosen by `part`; the others stay in
one state. This gives each module its own instance in one state space.

| Part | Instance | Cases it reaches |
| --- | --- | --- |
| copies | two crawlers, one of four files (HTTP, dated and undated archives, Drive; the Drive file is `UnderRoot`), three ticks, `TTL` 1, two crawls | a change during any step of either crawl, with and without the page's date, caches that expire, a crawl cut short anywhere |
| csv | three files of four to six lines, samples of 2, 4 and all, two repairs, batches of two rows | each kind of parse error before and after each other, the limit of repairs, errors in a later batch |
| pages | four pages with five kinds of links each, two folders that contain each other, depth 2, four pages at most | cycles, a page reached by two ways and at two depths, both limits |
| archive | seven archives up to four deep, one in itself, 12 entries, size 8 | each limit kept by a hair and exceeded, empty, repeated and endless archives |
| resource | every combination of format, datastore, suffix, package and child | each reader first, last and alone; the file gone for some of them |
| datastore | four rows, five at most, pages of two, servers that return 1 to 3 | deletions between any two pages, short pages, an insertion |
| records | five kinds, three encodings, none to seven records, batches of three | a file of no, some and exactly full batches, mixed and missing columns |
| schema | one to three sources of eight kinds | names equal, equal but for case, blank, numbered; types that agree and differ |
| uploads | two workers, one change, files of one and two parts, two tries | an upload that fails at any part, beside another, across a change |

The violation of `RepairsHitTheMalformedLine` needs one line of preamble and
one line that is too long; the file has no more than that.

Deadlock is not checked: the systems come to rest when all messages are handled
and the budgets are used up.

Fairness. `PipelineFairness` and `Fairness` ask weak fairness of the steps of
running processes: the Rust loops run until shutdown, `Consumers.run` reconnects
for ever, and containers that exit are restarted by the orchestration (a crash
resets a process to its idle step, so being restarted is part of going on).
A conversion that has started finishes, and the transaction of a dispatch
commits. The CSV reader and the walk over pages run in the thread that called them
(`WF_vars(Csv)`, `WF_vars(Pages)`): every call they make returns or times out.
Nothing forces a user to retry, a sync to be dispatched, a job to be
announced, or anything to fail.

## 4. Properties

Job ledger: the resource row shows the newest job and moves only on an
announcement (`LatestFollowsJob`, `LatestMovesOnAnnouncement`); the terminal row
refers to results that exist and keeps the last success (`TerminalIsBacked`,
`SuccessIsRemembered`); redelivery never adds results (`OneResultPerAttempt`);
labels agree with the outcome (`OutcomeLabelsAgree`); children stay out of the
resource tables (`ChildrenAreUnlisted`); no orphans (`NoOrphans`); each job
follows `JobLifecycle` (`ImplementsLifecycle`).

Pipeline: `CompletedHasObjects`, `TableNeverGoesBack`, `MergedTablesAreWhole`,
`CompletedPagesAreQueryable` (a page shown completed has a table of its version or
a newer one; single files do not, see `completed_queryable`), and the liveness property `OpenJobsEnd`.
What these say of a page depends on its lists. The table of a page is as long as a list
that some attempt found and has at each position the object of a file that some attempt found
there; only when all attempts found the same list does that make it the page's files
(`mixed_page` shows what happens otherwise). A page whose list never changed ends; one whose list
changed may be processing for ever, for instance when three rows are recorded and the total has become two.

Source sync: `AnnouncedFirst`, `SuccessIsEarned`, `OnlyMissingAreDeleted`, and the
liveness property `SyncsEnd`.

Crawler caches: what an index refers to is there (`IndexesAreWhole`), says
truly which version it is (`LabelsAreHonest`). What a copy lacks was changed after its origin was
last asked about it, and, if nothing failed, within a TTL before the crawl looked or before
the copy was stored (`ServedIsRecent`). The last clause is for Drive files without a snapshot: an
object is used again by the version in the listing, nobody asks Drive, and the copy counts as
fresh from then on, so that it may be older than a TTL by the age of the listing. A listing
that a HEAD confirmed has the links of the page itself (`ConfirmedListingIsCurrent`); of
what lies below the page the HEAD says nothing.

CSV: a file that was read is there once and in order whatever was tried
(`WholeFileOnce`), a strict read changed nothing (`StrictIsExact`), retries form no loop
and end without leaving copies (`EveryStepDescends`, `CsvReadEnds`).

Walks: nothing found twice, nothing missed within the limits
(`DiscoveryIsExact`, against the pages that can be reached; `ArchiveIsWhole`, against
the tree of archives), and discovery ends in spite of cycles (`PageDiscoveryEnds`).

Readers and their results: a resource is deleted only if a reader asked for its URL while nothing
was there (`DeletedOnlyIfGone`; for a child the URL is its copy in storage, so a child whose copy is missing
is reported deleted), children name their parent in every answer
(`ChildrenReportToParent`), an incomplete table shows in its counts
(`IncompleteIsMismatched`), records are rows across batches (`RecordsAreRows`).

Output: columns have names SQL can tell apart, in the files read and in those written
(`NamesAreDistinct`; the schema that is registered for merged children keeps the names of
the children, `child_merge.rs:77`, `157` and `168`, and is not looked at), a merged table is the union of its sources whatever their order, with
no column, value or source left out (`TableIsUnion`), and
objects are whole when they are there (`UploadsAreSafe`).

## 5. Where code and documentation disagree

Each run below checks one statement of the repository and finds it violated.

* `completed_queryable`: the coordinator takes a success without artifact for
  "an already-materialized success". When an attempt dies or fails between its
  upload and its result, the next one finds the object, nothing is registered,
  and the job is completed without a table. No later sync plans it again.
* `late_results`: the comment of `applyProcessing` says the terminal guards discard
  late results. With a retry running beside the first attempt, the late result
  ends the job and the retry's is discarded.
* `retried_page`: a child cannot be retried, "retry the parent job". The child
  table keeps a failure for good, under ids the retry uses again, so a page
  with a failed file fails for ever.
* `mixed_page`: a page is to succeed when all its files are registered. Rows of files are kept by
  position, and job ids do not depend on the list. When a file leaves the page between an attempt
  that crashed and the next one, rows of both lists make one group: a file
  is merged twice, another is missing, and the page is completed.
* `deletions`: replays are to republish the announcements of removed resources.
  A replay whose discovery fails reports the failure, commits the command and
  never gets there; later syncs look only at their own tombstones.
* `misaddressed_repair`: JEV is asked about, and `repair_line` rewrites, the line with
  the number arrow gave, counted from the start of the file. Arrow counts from
  behind the preamble, which `decoded_reader` has removed. With a preamble the
  question is about another line, and cells of a well-formed line are merged.
* `removals`: a complete discovery is to record the removals of its source. What a
  crashed run of the same sync has observed counts as seen, so a resource that
  disappears before the replay stays live until the next sync.

More were met while modelling and have no run. `src/README.md:184` says that a
discovery of a page without `Last-Modified` is good for seven days; `load_or_discover`
uses it again, whatever its age, when the HEAD has no such header, so such a page is
never discovered again while it answers. The same line says that Drive files are revalidated after seven
days; one without a snapshot whose object is no older than the listed version is handed on and counted as
fresh without Drive being asked (`copy_source`, 843-858), however old the listing, and a confirmed listing
may lack the files of subpages and folders. And "JEV CSV repair limit reached after 2000
repairs" is reported after 2001: the comparison is `>`, which is why the bound of
`RepairsBounded` is `MaxRepairs + 1`.

The order in which a page and its files complete is not promised anywhere, and does
not hold: when a commit of the coordinator fails and the coordinator dies before the
next one, the replay of one file's result finds the other file's row recorded,
merges, and passes the page's success on before that of the other file. It takes two
faults, and files that are converted in different partitions of `jobs`. That is why
`CompletedPagesAreQueryable` speaks of the page's table, and not of its files' rows.

## 6. Proofs

`JobLedgerProofs` proves, for any sets of jobs, resources, instances and labels
and without the bound on the number of jobs, every property that `job_ledger`
checks. The assumptions are those `JobLedger` names: `JobsAssumption` (what a job
id determines; a child's parent is top-level, and a resource has either
top-level jobs or children, never both, because children get resource ids of
their own), `LabelsAssumption` and `BoundsAssumption`.

The argument: `TypeOK` is inductive. Each of the other state properties is
inductive relative to `TypeOK`, so each theorem has the same shape (initial
states, one step per transaction, PTL with `TypeCorrect`), and `LedgerInvariant`
puts them together as `IInv`. The three handlers of a top-level outcome write the
same rows; `OutcomeStep` says what the properties need to know of them, and the
lemma `OutcomeSteps` shows each handler to be one. `UpdateLatestEffect` and
`AddResultAddsOne` are the two facts about shared helpers that most steps use.
`OneResultPerAttempt` holds because an outcome needs an open job and only
PROCESSING, which counts, opens a finished one. The action properties and the
refinement of `JobLifecycle` follow from `TypeOK` and the guards, step by step.

The other proof modules assume what their module names (`PipelineAssumption`,
`SyncAssumption`, `CopiesAssumption` and so on), and hold for any number of workers,
replicas, crawlers, resources, pages and disturbances.

* `IngestPipelineProofs`. The pipeline's steps are steps of `JobLedger`
  (`PipelineRunsTheLedger`), so all that is proved of the ledger holds of whatever the
  topics deliver. `PipelineInv` follows a success from its upload to the ledger: every
  success message, wherever it lies, every recorded child and every registered table has its
  objects, and stands at a position, and with a total, that some crawl of its page gave
  (`Found`, `RowsSound`, `PageTable`), which gives `CompletedHasObjects` and
  `MergedTablesAreWhole` for any lists a page may have. `PagesInv` adds that a page's success is only ever said by
  the coordinator, after the merge (`Spoken`, `PassedOn`), which with `TablesGrow`
  gives `CompletedPagesAreQueryable`.
* `SourceSyncProofs`. `SyncInv` ties the holder of the lock to its step
  (`LockHeld`), what it has observed to the catalog (`ObservedInCatalog`), and the
  messages it has yet to publish to the rows that ask for them (`WorkAhead`,
  `AnnouncementsAhead`, `TombstonesUnseen`). Without the lock none of them survives
  the other replica's step.
* `CsvReadingProofs`. `CsvInv` says that the rows so far are the file's rows up to the
  current batch, under whatever repairs were made. `EveryStepDescends` is the measure that
  bounds the retries.
* `ReaderProofs`. `ResourceInv` says what has been tried, in which turn, and with
  which failure. Rows fetched from a datastore lie before those left to fetch, in an
  order deletions do not disturb (`Ordered`), and what is there was there when the rows
  were counted (`Counted`). Records taken are written or wait in the buffer, numbered on from the
  rows written (`RecordInv`).
* `ObjectUploadsProofs`. A writer holds the latest content or is late, and an object is whole and
  backs every answer given about it (`UploadInv`).
* `SourceCopiesProofs`. `CopiesInv` says what is in the listings, snapshots and manifests, and what each
  crawl has read at each step. The facts a crawl relies on are about objects that others
  overwrite; `Grows` lists what a step of anybody leaves true of them, so that one lemma
  carries every crawl's facts over every other crawl's step. Each listing, snapshot and crawl carries
  the time its origin was asked (`AskedAt`, `HonestSnapshots`, `CrawlSound`): every change made up to then is
  in the object it names, or the object is late (`Good`). What was served is that, with the time to live between
  storing and looking when nothing failed (`ServedWell`), which is `ServedIsRecent`. `ListedOK` says of the
  listings that they have the page's own links unless the page changed since it was asked, and gives
  `ConfirmedListingIsCurrent`; nothing of the sort is true of the files `UnderRoot`.

* `CrawlProofs` holds the three modules that follow structures of any size, and whose
  definitions are recursive functions on numbers. The library's induction theorems take
  an operator and cannot be used, so induction is derived here from the
  well-founded order of finite sets: `SetInduction` (a set with 0 and the successors of
  its members has every number), `LeastNumber`, and `Recursion`, which says that a function
  defined by recursion on `0..n` exists and obeys its definition.
  * Pages. `DiscoveryInv`: what a page visited links to is visited or on the stack, unless it was
    cut off at the depth limit (`WalkInv`); the sources found are those of the pages visited,
    once each (`FoundInv`); and of the Drive links of the page being read, each folder is
    opened or awaits its turn (`DriveInv`). When both stacks are empty the pages visited are
    closed under links, and the least such set is the one to find. A folder that is its
    own ancestor needs the set of folders opened, as the code does.
  * Archives. `ArchiveInv` keeps, for every archive on the stack, what was read before it, and says
    that these parts, the one being read included, add up to what has been handed
    on and counted (`Accounted`), while the whole of each is no more than what is left of
    the whole tree (`PartOf`). So a limit exceeded on the way is one exceeded by the
    tree, and a tree that ends within them was within them. That a nested
    archive is left where it was entered is `Nesting`; an archive in itself is no exception, as
    the reference definition goes by levels.
  * Tables. A free number exists among as many candidates as there are names, and one
    more (`FreeNumber`, by counting), so the loops over suffixes end and `Named` leaves no two names
    alike (`NamedIsDistinct`, by induction on the columns). `SchemaInv` says that the union so
    far is that of the sources read, each column of the type those agree on
    or text (`UnionOf`, `Agreed`), that the columns written are those of the union
    (`ColumnsFit`), and the files written those of the sources gone through (`FilesFit`).

  They assume what the modules name: links and members are sequences, what a page or folder
  holds is finite, no file is a folder and a link to a folder leads to one (`SitesAssumption`);
  the limits are numbers and the depth allows one archive (`DepthAssumption`, `LimitsAssumption`,
  `MembersAssumption`); sources are sequences of files with headers, and every text has
  a lower case (`InputsAssumption`, `TextsAssumption`).

All safety and action properties that the passing runs check are theorems. Checked by
TLC only: liveness under fairness (`SyncsEnd`, `OpenJobsEnd`, `CsvReadEnds`,
`PageDiscoveryEnds`), which is out of the provers' reach. What ends the recursion of the CSV reader,
the measure of `EveryStepDescends`, is proved.

## 7. Not modelled

* What the readers do to bytes: quoting, encodings, HTML and URL syntax, geometry, number
  and date formats, statistics, Parquet and Arrow. Their control is modelled, and the
  rows are data.
* The older ingestor of CKAN metadata, which the sync worker has replaced.
* Oracle: the same repository contracts. `RowLockWaits` = FALSE stands for its
  treatment of uncommitted rows; no run uses it yet.
* More than one partition of the result topics (configurable, one by default).
* Malformed messages, which stop their consumer until someone intervenes.
* Delays and back-off: only their order matters, and any order is explored.
* The analytics jobs, user interfaces, charts and tools.

## 8. Plan

Done: the protocol (`JobLedger`, `JobLifecycle`, `IngestPipeline`, `SourceSync`), all that lies
below a conversion, and the proofs of section 6. What is left:

1. `CatalogImport`: `analytics/catalog_ingestion.py`, import of snapshots in the order
   of the inbox; never back to an older collection, repeated imports harmless.
   Then the publication and retention of `publish_lake_snapshot.py`.
2. Pure algorithms against reference definitions: `validateTree` and the string
   comparison of versions.
3. Abstract specification of a topic consumer (deliver at least once, in order),
   implemented by the worker slot, the coordinator and the result consumer.
4. The Oracle repository (`RowLockWaits` = FALSE), and several partitions of the result
   topics.
