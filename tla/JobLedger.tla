------------------------------ MODULE JobLedger ------------------------------
(***************************************************************************)
(* The job ledger: the MySQL tables the orchestrator's Processor writes    *)
(* when it applies one job result (ApplyJobResult, one transaction per     *)
(* message, rows read FOR UPDATE).  A transaction is one action.           *)
(*                                                                         *)
(* Results come from several producers (the sync worker announces PENDING  *)
(* and DELETED, the ingest workers PROCESSING and outcomes, the worker     *)
(* coordinator forwards and derives outcomes for parents), they are        *)
(* delivered at least once, and any worker may run a job again.  The       *)
(* ledger may therefore be handed any well-formed result at any time, in   *)
(* any order and any number of times, and that is what Next allows; the    *)
(* modules that model the topics narrow the order down.                    *)
(*                                                                         *)
(* What identifies a job (its resource, its parent, its instance) is in    *)
(* every message about it and is derived from the job id, so it is a       *)
(* constant function of the job here.                                      *)
(***************************************************************************)
EXTENDS Integers, FiniteSets

CONSTANTS
  Jobs,        \* job ids
  Resources,   \* resource ids
  Instances,   \* source instances (ckan_instance rows)
  NoJob,       \* absence of a job (a NULL column, a missing row)
  ResourceOf,  \* the resource of each job
  ParentOf,    \* the parent of a child job, NoJob for a top-level job
  InstanceOf,  \* the instance of each job
  HttpLabels,  \* the "http-code:*" labels
  DataLabels,  \* the labels applyLabels adds (size, encoding, mismatch, ...)
  Delimiters,  \* CSV delimiters worth remembering
  NoDelimiter, \* no csv_hint row
  MaxReopens   \* bound: how often a finished job is started again

Terminals == {"completed", "failed", "deleted"}
JobStatus == {"absent", "pending", "processing"} \cup Terminals
LatestStatus == {"pending", "processing", "outdated"} \cup Terminals
EmptyLabel == "empty"
Labels == {EmptyLabel} \cup HttpLabels \cup DataLabels

TopLevel(j) == ParentOf[j] = NoJob

\* Child resources have ids of their own, derived from the parent's
\* (child_job in job_processor.rs), and a child's parent is top-level.
ASSUME JobsAssumption ==
  /\ NoJob \notin Jobs
  /\ ResourceOf \in [Jobs -> Resources]
  /\ InstanceOf \in [Jobs -> Instances]
  /\ ParentOf \in [Jobs -> Jobs \cup {NoJob}]
  /\ \A j \in Jobs : ~TopLevel(j) => TopLevel(ParentOf[j])
  /\ \A j, k \in Jobs : ResourceOf[j] = ResourceOf[k] => (TopLevel(j) <=> TopLevel(k))

ASSUME LabelsAssumption ==
  /\ EmptyLabel \notin HttpLabels \cup DataLabels
  /\ HttpLabels \cap DataLabels = {}

ASSUME BoundsAssumption ==
  /\ NoDelimiter \notin Delimiters
  /\ MaxReopens \in Nat

VARIABLES
  jobs,      \* ckan_data_job.status, "absent" before the row exists
  latest,    \* latest_resource_job per resource, job = NoJob without a row
  terminal,  \* last_terminal_status per resource, job = NoJob without a row
  results,   \* number of ckan_data_job_result rows per job and status
  labels,    \* resource_metadata_label per resource
  csvHint,   \* csv_hint per resource
  instances, \* the ckan_instance rows that exist
  reopens    \* auxiliary: how often PROCESSING started a finished job again

resourceVars == <<latest, terminal, labels, csvHint>>
vars == <<jobs, latest, terminal, results, labels, csvHint, instances, reopens>>

NoLatest == [job |-> NoJob, status |-> "pending"]
NoTerminal == [job |-> NoJob, status |-> "failed", successful |-> NoJob]

Init ==
  /\ jobs = [j \in Jobs |-> "absent"]
  /\ latest = [r \in Resources |-> NoLatest]
  /\ terminal = [r \in Resources |-> NoTerminal]
  /\ results = [j \in Jobs |-> [s \in Terminals |-> 0]]
  /\ labels = [r \in Resources |-> {}]
  /\ csvHint = [r \in Resources |-> NoDelimiter]
  /\ instances \in SUBSET Instances
  /\ reopens = [j \in Jobs |-> 0]

-----------------------------------------------------------------------------
(* The pieces the handlers share.                                          *)

Known(j) == jobs[j] # "absent"

\* The foreign key of parent_job_id.
ParentKnown(j) == ~TopLevel(j) => Known(ParentOf[j])

\* The guard of applyFailed, applyDeleted and applySuccess: a result for a
\* job that already has one is ignored.
OpenAnyKnown(j) == Known(j)                                         \* mutant
OpenOrFailed(j) == jobs[j] \in {"pending", "processing", "failed"}  \* mutant
Open(j) == jobs[j] \in {"pending", "processing"}

\* The status a resource shows while its newest job is still pending.
ResourceStatus(t) ==
  CASE t.job # NoJob /\ t.status = "failed"    -> "failed"
    [] t.job # NoJob /\ t.status = "completed" -> "outdated"
    [] OTHER                                   -> "pending"

AddResult(j, s) == results' = [results EXCEPT ![j][s] = @ + 1]

PutTerminalForgets(j, s) ==                                         \* mutant
  terminal' = [terminal EXCEPT ![ResourceOf[j]] =
    [job |-> j, status |-> s, successful |-> IF s = "completed" THEN j ELSE NoJob]]
PutTerminalNoSuccess(j, s) ==                                       \* mutant
  terminal' = [terminal EXCEPT ![ResourceOf[j]].job = j, ![ResourceOf[j]].status = s]
PutTerminal(j, s) ==
  terminal' = [terminal EXCEPT ![ResourceOf[j]] =
    [job |-> j, status |-> s,
     successful |-> IF s = "completed" THEN j ELSE @.successful]]

\* The resource row follows a job only while that job is its newest one.
UpdateLatestUnguarded(j, s) ==                                      \* mutant
  latest' = [latest EXCEPT ![ResourceOf[j]].status = s]
UpdateLatestSteals(j, s) ==                                         \* mutant
  latest' = [latest EXCEPT ![ResourceOf[j]] = [job |-> j, status |-> s]]
UpdateLatest(j, s) ==
  latest' = IF latest[ResourceOf[j]].job = j
              THEN [latest EXCEPT ![ResourceOf[j]].status = s]
              ELSE latest

Relabel(j, removed, added) ==
  labels' = [labels EXCEPT ![ResourceOf[j]] = (@ \ removed) \cup added]

SetJob(j, s) == jobs' = [jobs EXCEPT ![j] = s]

\* Result row, job status, terminal row and resource row of a finished
\* top-level job: the common tail of the three terminal handlers.
Finish(j, s) ==
  /\ AddResult(j, s)
  /\ SetJob(j, s)
  /\ PutTerminal(j, s)
  /\ UpdateLatest(j, s)

-----------------------------------------------------------------------------
(* Processor.ApplyJobResult, one action per message status.  A message the *)
(* code ignores or rolls back (an unknown job, a finished one, a missing   *)
(* instance, a parent row the foreign key misses) changes nothing: it is a *)
(* stuttering step.                                                        *)

\* PENDING announces a job once; the newest announcement of a top-level job
\* becomes the resource's latest job.
ApplyPendingOfChildren(j) ==                                        \* mutant
  /\ ~Known(j) /\ InstanceOf[j] \in instances
  /\ ParentKnown(j)
  /\ SetJob(j, "pending")
  /\ latest' = [latest EXCEPT ![ResourceOf[j]] =
       [job |-> j, status |-> ResourceStatus(terminal[ResourceOf[j]])]]
  /\ UNCHANGED <<terminal, results, labels, csvHint, instances, reopens>>
ApplyPendingResourceStatus(j) ==                                    \* mutant
  LET shown == ResourceStatus(terminal[ResourceOf[j]]) IN
  /\ ~Known(j) /\ InstanceOf[j] \in instances /\ ParentKnown(j)
  /\ SetJob(j, shown)
  /\ latest' = IF TopLevel(j)
       THEN [latest EXCEPT ![ResourceOf[j]] = [job |-> j, status |-> shown]]
       ELSE latest
  /\ UNCHANGED <<terminal, results, labels, csvHint, instances, reopens>>
ApplyPending(j) ==
  /\ ~Known(j)
  /\ InstanceOf[j] \in instances
  /\ ParentKnown(j)
  /\ SetJob(j, "pending")
  /\ latest' = IF TopLevel(j)
       THEN [latest EXCEPT ![ResourceOf[j]] =
              [job |-> j, status |-> ResourceStatus(terminal[ResourceOf[j]])]]
       ELSE latest
  /\ UNCHANGED <<terminal, results, labels, csvHint, instances, reopens>>

\* PROCESSING starts an attempt, and reopens a job that has already finished.
ApplyProcessing(j) ==
  /\ Known(j)
  /\ jobs[j] \in Terminals => reopens[j] < MaxReopens
  /\ SetJob(j, "processing")
  /\ reopens' = [reopens EXCEPT ![j] = IF jobs[j] \in Terminals THEN @ + 1 ELSE @]
  /\ IF TopLevel(j) THEN UpdateLatest(j, "processing") ELSE UNCHANGED latest
  /\ UNCHANGED <<terminal, results, labels, csvHint, instances>>

\* A child only gets its result row and its status.
ApplyChildTerminal(j, s) ==
  /\ Open(j) /\ ~TopLevel(j)
  /\ AddResult(j, s)
  /\ SetJob(j, s)
  /\ UNCHANGED <<resourceVars, instances, reopens>>

\* codes: the http-code label of the message, or none.
ApplyFailedKeepsEmpty(j, codes) ==                                  \* mutant
  /\ Open(j) /\ TopLevel(j)
  /\ Relabel(j, HttpLabels, codes)
  /\ Finish(j, "failed")
  /\ UNCHANGED <<csvHint, instances, reopens>>
ApplyFailed(j, codes) ==
  /\ Open(j) /\ TopLevel(j)
  /\ Relabel(j, {EmptyLabel} \cup HttpLabels, codes)
  /\ Finish(j, "failed")
  /\ UNCHANGED <<csvHint, instances, reopens>>

ApplyDeleted(j) ==
  /\ Open(j) /\ TopLevel(j)
  /\ Relabel(j, {EmptyLabel} \cup HttpLabels, {})
  /\ Finish(j, "deleted")
  /\ UNCHANGED <<csvHint, instances, reopens>>

PutCSVHint(j, d) ==
  csvHint' = [csvHint EXCEPT ![ResourceOf[j]] = IF d = NoDelimiter THEN @ ELSE d]

\* A success without rows (or without a row count) is labelled "empty".
ApplySuccessEmpty(j, d) ==
  /\ Open(j) /\ TopLevel(j)
  /\ PutCSVHint(j, d)
  /\ Relabel(j, HttpLabels, {EmptyLabel})
  /\ Finish(j, "completed")
  /\ UNCHANGED <<instances, reopens>>

\* A success with rows adds labels; of the older ones only "empty" and the
\* http codes are removed, so data labels of earlier jobs stay.
ApplySuccessRows(j, d, added) ==
  /\ Open(j) /\ TopLevel(j)
  /\ PutCSVHint(j, d)
  /\ Relabel(j, {EmptyLabel} \cup HttpLabels, added)
  /\ Finish(j, "completed")
  /\ UNCHANGED <<instances, reopens>>

\* The HTTP API creates instances under fresh ids (an id that comes back here
\* only adds behaviours) ...
CreateInstance(i) ==
  /\ i \notin instances
  /\ instances' = instances \cup {i}
  /\ UNCHANGED <<jobs, resourceVars, results, reopens>>

\* ... and deletes a row only while no job references it: the foreign key does
\* not cascade.
DeleteInstanceCascades(i) ==                                        \* mutant
  /\ i \in instances
  /\ instances' = instances \ {i}
  /\ UNCHANGED <<jobs, resourceVars, results, reopens>>
DeleteInstance(i) ==
  /\ i \in instances
  /\ \A j \in Jobs : Known(j) => InstanceOf[j] # i
  /\ instances' = instances \ {i}
  /\ UNCHANGED <<jobs, resourceVars, results, reopens>>

\* The three handlers of a top-level outcome.
ApplyOutcome(j) ==
  \/ \E codes \in {{}} \cup {{c} : c \in HttpLabels} : ApplyFailed(j, codes)
  \/ ApplyDeleted(j)
  \/ \E d \in Delimiters \cup {NoDelimiter} :
       \/ ApplySuccessEmpty(j, d)
       \/ \E added \in SUBSET DataLabels : ApplySuccessRows(j, d, added)

ApplyResult(j) ==
  \/ ApplyPending(j)
  \/ ApplyProcessing(j)
  \/ \E s \in Terminals : ApplyChildTerminal(j, s)
  \/ ApplyOutcome(j)

Next ==
  \/ \E j \in Jobs : ApplyResult(j)
  \/ \E i \in Instances : CreateInstance(i) \/ DeleteInstance(i)

Spec == Init /\ [][Next]_vars

-----------------------------------------------------------------------------
(* Type invariant: every column holds a value its table allows.            *)
TypeOK ==
  /\ jobs \in [Jobs -> JobStatus]
  /\ latest \in [Resources -> [job : Jobs \cup {NoJob}, status : LatestStatus]]
  /\ terminal \in [Resources -> [job : Jobs \cup {NoJob}, status : Terminals,
                                 successful : Jobs \cup {NoJob}]]
  /\ results \in [Jobs -> [Terminals -> Nat]]
  /\ labels \in [Resources -> SUBSET Labels]
  /\ csvHint \in [Resources -> Delimiters \cup {NoDelimiter}]
  /\ instances \in SUBSET Instances
  /\ reopens \in [Jobs -> Nat]

(* The resource row shows the state of the resource's newest job and never *)
(* of another: putTerminal and updateLatest run for old jobs too, whose    *)
(* results may arrive after a newer job was announced.  While that job is  *)
(* pending the row may still show how the previous one ended.  A resource  *)
(* with a stored top-level job has a row.                                  *)
LatestFollowsJob ==
  /\ \A r \in Resources : latest[r].job # NoJob =>
       LET j == latest[r].job IN
         /\ Known(j) /\ TopLevel(j) /\ ResourceOf[j] = r
         /\ IF jobs[j] = "pending"
              THEN latest[r].status \in {"pending", "failed", "outdated"}
              ELSE latest[r].status = jobs[j]
  /\ \A j \in Jobs : Known(j) /\ TopLevel(j) => latest[ResourceOf[j]].job # NoJob

(* The terminal row quotes results that were recorded: the job it names    *)
(* has a result row of that status, the last successful job a completed    *)
(* one, and when the last result is a success it is the last success.      *)
TerminalIsBacked ==
  \A r \in Resources : LET t == terminal[r] IN
    /\ t.job # NoJob =>
         /\ ResourceOf[t.job] = r /\ TopLevel(t.job) /\ results[t.job][t.status] > 0
         /\ t.status = "completed" => t.successful = t.job
    /\ t.successful # NoJob =>
         /\ t.job # NoJob
         /\ ResourceOf[t.successful] = r /\ results[t.successful]["completed"] > 0

Outcomes(j) == results[j]["completed"] + results[j]["failed"] + results[j]["deleted"]

(* Redelivered results never pile up: a job has one result row for each    *)
(* attempt that ended, so one per reopening and one for the present end.   *)
OneResultPerAttempt ==
  \A j \in Jobs : Outcomes(j) = reopens[j] + (IF jobs[j] \in Terminals THEN 1 ELSE 0)

(* The labels that describe an outcome agree with the outcome shown: a     *)
(* resource is "empty" only when its last result is a success and carries  *)
(* an http code only when it is a failure, and then a single one.          *)
OutcomeLabelsAgree ==
  \A r \in Resources :
    /\ EmptyLabel \in labels[r] =>
         terminal[r].job # NoJob /\ terminal[r].status = "completed"
    /\ \A c \in HttpLabels \cap labels[r] :
         /\ terminal[r].job # NoJob /\ terminal[r].status = "failed"
         /\ HttpLabels \cap labels[r] = {c}

(* Children stay out of the resource tables: they are listed under their   *)
(* parent only, whatever their results.                                    *)
ChildrenAreUnlisted ==
  \A j \in Jobs : ~TopLevel(j) =>
    LET r == ResourceOf[j] IN
      latest[r] = NoLatest /\ terminal[r] = NoTerminal /\ labels[r] = {}

(* Every stored job has its instance and its parent: no order of           *)
(* deletions and late announcements leaves an orphan.                      *)
NoOrphans ==
  \A j \in Jobs : Known(j) =>
    InstanceOf[j] \in instances /\ ParentKnown(j)

(* What always holds of the ledger, as one formula.  Each part is inductive *)
(* relative to TypeOK.                                                     *)
IInv ==
  /\ TypeOK
  /\ LatestFollowsJob
  /\ TerminalIsBacked
  /\ OneResultPerAttempt
  /\ OutcomeLabelsAgree
  /\ ChildrenAreUnlisted
  /\ NoOrphans

(* The resource row moves to another job only when that job is announced:  *)
(* a late result of an older job never takes the row over.                 *)
LatestMovesOnAnnouncement ==
  [][\A r \in Resources : latest'[r].job # latest[r].job =>
       jobs[latest'[r].job] = "absent" /\ jobs'[latest'[r].job] = "pending"]_vars

(* Once a resource has been ingested it stays known as such: later         *)
(* failures and deletions keep the last successful job.                    *)
SuccessIsRemembered ==
  [][\A r \in Resources : terminal[r].successful # NoJob =>
       terminal'[r].successful # NoJob]_vars

(* The ledger keeps the promise of JobLifecycle: seen per job, every       *)
(* transaction announces it, restarts it, ends it with one more outcome,   *)
(* or leaves it alone.                                                     *)
Phase(s) == CASE s = "absent" -> "absent" [] s \in Terminals -> "ended" [] OTHER -> "open"
Lifecycle == INSTANCE JobLifecycle WITH
  status <- [j \in Jobs |-> Phase(jobs[j])],
  outcomes <- [j \in Jobs |-> Outcomes(j)]
ImplementsLifecycle == Lifecycle!Spec

=============================================================================
