------------------------------ MODULE SourceSync ------------------------------
(***************************************************************************)
(* Synchronising one source: the Dispatcher records a sync and queues its  *)
(* command, a replica of the source-sync-worker discovers the source,      *)
(* updates the resource catalog, stores the snapshot, announces and queues *)
(* what is to be ingested, and reports; the orchestrator closes the sync.  *)
(*                                                                         *)
(* The commands form one partition.  A replica stores the offset of a      *)
(* command after everything else, so an error or a crash on the way makes  *)
(* the group run the same sync again, against whatever the source lists by *)
(* then.  After a rebalance a second replica may hold the same command;    *)
(* the source lock keeps the two apart.                                    *)
(*                                                                         *)
(* Resources are the ones with content: collections are catalogued the     *)
(* same way and never announced.                                           *)
(***************************************************************************)
EXTENDS Integers, Sequences, FiniteSets

CONSTANTS
  NumResources,  \* resources the source may list
  NumVersions,   \* versions of a resource's content
  BatchSize,     \* resources per ObserveBatch (200)
  Replicas,      \* source-sync-worker processes
  NoReplica,     \* the lock is free
  RowLockWaits,  \* MySQL: reading an uncommitted row FOR UPDATE waits for it;
                 \* Oracle: the row is not there yet
  Steady,        \* bound: resources that come and go but have one version,
                 \* whose jobs stay open (empty for no bound)
  MaxSyncs,      \* bound: syncs dispatched
  MaxChanges,    \* bound: changes of the source
  Disturbances,  \* the disturbances explored: "crash" (or any error that ends
                 \* the process), "rebalance", "publish" (of the command), and
                 \* "discovery" (the source cannot be listed)
  MaxDisturbances \* bound: crashes, rebalances and failed dispatches in all

Ids == 1..NumResources
Versions == 1..NumVersions
Syncs == 1..MaxSyncs
Gone == 0   \* not listed; also the "version" of a deletion's job
NoSync == 0

ASSUME SyncAssumption ==
  /\ NumResources \in Nat /\ NumVersions \in Nat \ {0} /\ BatchSize \in Nat \ {0}
  /\ NoReplica \notin Replicas /\ Steady \subseteq Ids
  /\ RowLockWaits \in BOOLEAN
  /\ MaxSyncs \in Nat /\ MaxChanges \in Nat /\ MaxDisturbances \in Nat
  /\ Disturbances \subseteq {"crash", "rebalance", "publish", "discovery"}

VARIABLES
  listing,      \* what the source lists now: [Ids -> version or Gone]
  commands,     \* the command topic: a log of sync ids
  offset,       \* the group's stored offset: commands handled
  syncRow,      \* metadata_sync.status, "none" or "uncommitted" before
  syncResults,  \* the sync result topic, from the consumer's offset on
  lock,         \* the replica that holds the source lock
  replica,      \* per process: its step and its sync
  catalog,      \* the source_resource rows
  snapshots,    \* what catalog-inbox/<source>/<sync>.jsonl lists
  announced,    \* the jobs with a PENDING in the result topic
  queued,       \* the jobs in the job topic
  deleted,      \* the deletion jobs with a DELETED in the result topic
  completed,    \* the jobs the ledger shows as completed
  changes, disturbances \* auxiliary: counters for the bounds

sourceVars == <<listing, changes>>
dispatchVars == <<syncRow, disturbances>>
topicVars == <<announced, queued, deleted>>
vars == <<listing, commands, offset, syncRow, syncResults, lock, replica, catalog, snapshots,
          announced, queued, deleted, completed, changes, disturbances>>

NoRow == [version |-> Gone, changed |-> NoSync, seen |-> NoSync, gone |-> TRUE]
Nothing == [id \in Ids |-> Gone]
Listed(l) == {id \in Ids : l[id] # Gone}
Idle == [step |-> "idle", at |-> 0, seen |-> Nothing, todo |-> {}, out |-> {}]

\* Job ids are derived: from resource and version, or for the job that
\* announces a deletion from sync and resource.
Job(id, v) == [id |-> id, version |-> v, sync |-> NoSync]
Deletion(id, s) == [id |-> id, version |-> Gone, sync |-> s]

Disturb(kind) ==
  /\ kind \in Disturbances /\ disturbances < MaxDisturbances
  /\ disturbances' = disturbances + 1

Init ==
  /\ listing \in [Ids -> {Gone, 1}]
  /\ commands = <<>> /\ offset = 0
  /\ syncRow = [s \in Syncs |-> "none"]
  /\ syncResults = <<>>
  /\ lock = NoReplica
  /\ replica = [w \in Replicas |-> Idle]
  /\ catalog = [id \in Ids |-> NoRow]
  /\ snapshots = [s \in Syncs |-> <<>>]
  /\ announced = {} /\ queued = {} /\ deleted = {} /\ completed = {}
  /\ changes = 0 /\ disturbances = 0

-----------------------------------------------------------------------------
(* The surroundings: the source itself, and the ingest pipeline, for which *)
(* a queued job completes at some time and may later be run again.         *)

SourceChanges(id, v) ==
  /\ changes < MaxChanges /\ v # listing[id]
  /\ id \in Steady => v \in {Gone, 1}
  /\ listing' = [listing EXCEPT ![id] = v]
  /\ changes' = changes + 1
  /\ UNCHANGED <<commands, offset, dispatchVars, syncResults, lock, replica, catalog, snapshots,
                 topicVars, completed>>

JobCompletes(j) ==
  /\ j \in queued \ completed /\ j.id \notin Steady
  /\ completed' = completed \cup {j}
  /\ UNCHANGED <<sourceVars, commands, offset, dispatchVars, syncResults, lock, replica, catalog,
                 snapshots, topicVars>>

JobRunsAgain(j) ==
  /\ j \in completed
  /\ completed' = completed \ {j}
  /\ UNCHANGED <<sourceVars, commands, offset, dispatchVars, syncResults, lock, replica, catalog,
                 snapshots, topicVars>>

-----------------------------------------------------------------------------
(* Dispatcher.SyncInstance: one transaction inserts the row, publishes the *)
(* command and commits, so the command is out before the row is visible.   *)

NextSync(s) == syncRow[s] = "none" /\ \A t \in Syncs : t < s => syncRow[t] # "none"

DispatchSync(s) ==
  /\ NextSync(s)
  /\ \/ /\ syncRow' = [syncRow EXCEPT ![s] = "uncommitted"]
        /\ commands' = Append(commands, s)
        /\ UNCHANGED disturbances
     \/ \* the publication fails, as far as the dispatcher can tell
        /\ Disturb("publish")
        /\ syncRow' = [syncRow EXCEPT ![s] = "failure"]
        /\ commands' \in {commands, Append(commands, s)}
  /\ UNCHANGED <<sourceVars, offset, syncResults, lock, replica, catalog, snapshots, topicVars,
                 completed>>

CommitSync(s) ==
  /\ syncRow[s] = "uncommitted"
  /\ \/ syncRow' = [syncRow EXCEPT ![s] = "pending"] /\ UNCHANGED disturbances
     \/ syncRow' = [syncRow EXCEPT ![s] = "lost"] /\ Disturb("publish")
  /\ UNCHANGED <<sourceVars, commands, offset, syncResults, lock, replica, catalog, snapshots,
                 topicVars, completed>>

\* Processor.ApplyMetadataResult: only a pending sync is closed.
ApplyMetadataResult ==
  /\ syncResults # <<>>
  /\ LET m == Head(syncResults) IN
       /\ syncRow[m.sync] = "uncommitted" => ~RowLockWaits
       /\ syncRow' = IF syncRow[m.sync] = "pending"
                       THEN [syncRow EXCEPT ![m.sync] = m.status] ELSE syncRow
  /\ syncResults' = Tail(syncResults)
  /\ UNCHANGED <<sourceVars, commands, offset, disturbances, lock, replica, catalog, snapshots,
                 topicVars, completed>>

-----------------------------------------------------------------------------
(* Worker.Sync, between the poll of a command and its commit.              *)

SyncOf(w) == commands[replica[w].at]

\* The partition belongs to one replica; a rebalance hands it to another
\* while the first may still be at work on the same command, and from then
\* on reads what follows it.
Poll(w) ==
  /\ replica[w].step = "idle" /\ offset < Len(commands)
  /\ IF \E x \in Replicas : replica[x].at = offset + 1
       THEN Disturb("rebalance") ELSE UNCHANGED disturbances
  /\ replica' = [replica EXCEPT ![w] = [Idle EXCEPT !.step = "polled", !.at = offset + 1]]
  /\ UNCHANGED <<sourceVars, commands, offset, syncRow, syncResults, lock, catalog, snapshots,
                 topicVars, completed>>

\* The lock is not waited for: the loser reports an error and its process
\* ends.
LockIgnored(w) ==                                                   \* mutant
  /\ replica[w].step = "polled"
  /\ lock' = w /\ replica' = [replica EXCEPT ![w].step = "discover"]
  /\ UNCHANGED <<sourceVars, commands, offset, dispatchVars, syncResults, catalog, snapshots,
                 topicVars, completed>>
Lock(w) ==
  /\ replica[w].step = "polled"
  /\ \/ /\ lock = NoReplica
        /\ lock' = w /\ replica' = [replica EXCEPT ![w].step = "discover"]
     \/ /\ lock # NoReplica
        /\ replica' = [replica EXCEPT ![w] = Idle] /\ UNCHANGED lock
  /\ UNCHANGED <<sourceVars, commands, offset, dispatchVars, syncResults, catalog, snapshots,
                 topicVars, completed>>

\* The whole listing is read before the catalog is touched; a listing that
\* cannot be read, or is no tree, is reported as the result of the sync.
Message(kind, j) == [kind |-> kind, job |-> j]
Report(status) == Message(status, Job(0, Gone))

DiscoverQuietly(w) ==                                               \* mutant
  /\ replica[w].step = "discover"
  /\ \/ replica' = [replica EXCEPT ![w].step = "observe", ![w].seen = listing,
                                   ![w].todo = Listed(listing)]
     \/ /\ "discovery" \in Disturbances
        /\ replica' = [replica EXCEPT ![w].step = "publish"]
  /\ UNCHANGED <<sourceVars, commands, offset, dispatchVars, syncResults, lock, catalog,
                 snapshots, topicVars, completed>>
Discover(w) ==
  /\ replica[w].step = "discover"
  /\ \/ replica' = [replica EXCEPT ![w].step = "observe", ![w].seen = listing,
                                   ![w].todo = Listed(listing)]
     \/ /\ "discovery" \in Disturbances
        /\ replica' = [replica EXCEPT ![w].step = "publish", ![w].out = {Report("failure")}]
  /\ UNCHANGED <<sourceVars, commands, offset, dispatchVars, syncResults, lock, catalog,
                 snapshots, topicVars, completed>>

\* One upsert: a new version, or a return from deletion, is a change of this
\* sync.
Observed(row, v, s) ==
  [version |-> v,
   changed |-> IF row.version # v \/ row.gone THEN s ELSE row.changed,
   seen |-> s, gone |-> FALSE]

ObserveBatch(w) ==
  /\ replica[w].step = "observe" /\ replica[w].todo # {}
  /\ \E batch \in SUBSET replica[w].todo :
       /\ Cardinality(batch) <= BatchSize
       /\ batch = replica[w].todo \/ Cardinality(batch) = BatchSize
       /\ catalog' = [id \in Ids |->
            IF id \in batch THEN Observed(catalog[id], replica[w].seen[id], SyncOf(w))
            ELSE catalog[id]]
       /\ replica' = [replica EXCEPT ![w].todo = @ \ batch]
  /\ UNCHANGED <<sourceVars, commands, offset, dispatchVars, syncResults, lock, snapshots,
                 topicVars, completed>>

Known(id) == catalog[id] # NoRow

\* The resources a sync still has to tell about: the live ones it has seen
\* whose version is not completed ...
Unfinished(s) ==
  {id \in Ids : Known(id) /\ ~catalog[id].gone /\ catalog[id].seen = s
                /\ Job(id, catalog[id].version) \notin completed}

\* ... and the missing ones, its own tombstones included for a replay.
MissingOnce(s) == {id \in Ids : Known(id) /\ catalog[id].seen # s /\ ~catalog[id].gone}  \* mutant
Missing(s) ==
  {id \in Ids : Known(id) /\ catalog[id].seen # s /\ (~catalog[id].gone \/ catalog[id].changed = s)}

Messages(s) ==
  (UNION {{Message("pending", Job(id, catalog[id].version)),
           Message("job", Job(id, catalog[id].version))} : id \in Unfinished(s)})
  \cup (UNION {{Message("pending", Deletion(id, s)),
                Message("deleted", Deletion(id, s))} : id \in Missing(s)})
  \cup {Report("success")}

\* Repository.Complete, one transaction.
Complete(w) ==
  /\ replica[w].step = "observe" /\ replica[w].todo = {}
  /\ LET s == SyncOf(w) IN
       /\ catalog' = [id \in Ids |->
            IF Known(id) /\ catalog[id].seen # s /\ ~catalog[id].gone
              THEN [catalog[id] EXCEPT !.gone = TRUE, !.changed = s] ELSE catalog[id]]
       /\ replica' = [replica EXCEPT ![w].step = "snapshot", ![w].out = Messages(s)]
  /\ UNCHANGED <<sourceVars, commands, offset, dispatchVars, syncResults, lock, snapshots,
                 topicVars, completed>>

\* SnapshotStore.Publish: put if absent, so the first run's listing stays.
PublishSnapshot(w) ==
  /\ replica[w].step = "snapshot"
  /\ snapshots' = [snapshots EXCEPT ![SyncOf(w)] = IF @ = <<>> THEN <<replica[w].seen>> ELSE @]
  /\ replica' = [replica EXCEPT ![w].step = "publish"]
  /\ UNCHANGED <<sourceVars, commands, offset, dispatchVars, syncResults, lock, catalog,
                 topicVars, completed>>

\* The messages leave in the order Complete lists them: resource by resource
\* its announcement and its job, then the deletions, then the report.
RankJobFirst(m) ==                                                  \* mutant
  CASE m.kind = "job" -> 2 * m.job.id
    [] m.kind = "pending" /\ m.job.sync = NoSync -> 2 * m.job.id + 1
    [] m.kind = "pending" /\ m.job.sync # NoSync -> 2 * (NumResources + m.job.id)
    [] m.kind = "deleted" -> 2 * (NumResources + m.job.id) + 1
    [] OTHER -> 4 * NumResources + 2
Rank(m) ==
  CASE m.kind = "pending" /\ m.job.sync = NoSync -> 2 * m.job.id
    [] m.kind = "job" -> 2 * m.job.id + 1
    [] m.kind = "pending" /\ m.job.sync # NoSync -> 2 * (NumResources + m.job.id)
    [] m.kind = "deleted" -> 2 * (NumResources + m.job.id) + 1
    [] OTHER -> 4 * NumResources + 2

PublishNext(w) ==
  /\ replica[w].step = "publish"
  /\ \E m \in replica[w].out :
       /\ \A n \in replica[w].out : Rank(m) <= Rank(n)
       /\ announced' = announced \cup {j \in {m.job} : m.kind = "pending"}
       /\ queued' = queued \cup {j \in {m.job} : m.kind = "job"}
       /\ deleted' = deleted \cup {j \in {m.job} : m.kind = "deleted"}
       /\ syncResults' = IF m.kind \in {"success", "failure"}
            THEN Append(syncResults, [sync |-> SyncOf(w), status |-> m.kind]) ELSE syncResults
       /\ replica' = [replica EXCEPT ![w].out = @ \ {m}]
  /\ UNCHANGED <<sourceVars, commands, offset, dispatchVars, lock, catalog, snapshots, completed>>

\* Sync returns and the lock is released ...
Unlock(w) ==
  /\ replica[w].step = "publish" /\ replica[w].out = {}
  /\ lock' = IF lock = w THEN NoReplica ELSE lock
  /\ replica' = [replica EXCEPT ![w].step = "commit"]
  /\ UNCHANGED <<sourceVars, commands, offset, dispatchVars, syncResults, catalog, snapshots,
                 topicVars, completed>>

\* ... before the offset of the command is stored.
CommitNext(w) ==                                                    \* mutant
  /\ replica[w].step = "commit"
  /\ offset' = replica[w].at + 1
  /\ replica' = [replica EXCEPT ![w] = Idle]
  /\ UNCHANGED <<sourceVars, commands, dispatchVars, syncResults, lock, catalog, snapshots,
                 topicVars, completed>>
Commit(w) ==
  /\ replica[w].step = "commit"
  /\ offset' = replica[w].at
  /\ replica' = [replica EXCEPT ![w] = Idle]
  /\ UNCHANGED <<sourceVars, commands, dispatchVars, syncResults, lock, catalog, snapshots,
                 topicVars, completed>>

\* A crash, or any error Sync returns: the process ends and its lock with it.
Crash(w) ==
  /\ replica[w].step # "idle" /\ Disturb("crash")
  /\ replica' = [replica EXCEPT ![w] = Idle]
  /\ lock' = IF lock = w THEN NoReplica ELSE lock
  /\ UNCHANGED <<sourceVars, commands, offset, syncRow, syncResults, catalog, snapshots,
                 topicVars, completed>>

-----------------------------------------------------------------------------
SyncStep(w) ==
  \/ Poll(w) \/ Lock(w) \/ Discover(w) \/ ObserveBatch(w) \/ Complete(w)
  \/ PublishSnapshot(w) \/ PublishNext(w) \/ Unlock(w) \/ Commit(w)

Next ==
  \/ \E id \in Ids, v \in {Gone} \cup Versions : SourceChanges(id, v)
  \/ \E j \in queued : JobCompletes(j) \/ JobRunsAgain(j)
  \/ \E s \in Syncs : DispatchSync(s) \/ CommitSync(s)
  \/ ApplyMetadataResult
  \/ \E w \in Replicas : SyncStep(w) \/ Crash(w)

\* Processes that run go on, and crashed ones are restarted by the
\* orchestration; nothing obliges anyone to dispatch a sync.
Fairness ==
  /\ \A s \in Syncs : WF_vars(CommitSync(s))
  /\ \A w \in Replicas : WF_vars(SyncStep(w))
  /\ WF_vars(ApplyMetadataResult)

Spec == Init /\ [][Next]_vars
FairSpec == Spec /\ Fairness

-----------------------------------------------------------------------------
(* Type invariant.                                                         *)
TypeOK ==
  /\ listing \in [Ids -> {Gone} \cup Versions]
  /\ commands \in Seq(Syncs) /\ offset \in 0..Len(commands)
  /\ syncRow \in [Syncs -> {"none", "uncommitted", "pending", "lost", "success", "failure"}]
  /\ lock \in Replicas \cup {NoReplica}
  /\ \A w \in Replicas : replica[w].step # "idle" => replica[w].at \in 1..Len(commands)
  /\ catalog \in [Ids -> [version : {Gone} \cup Versions, changed : {NoSync} \cup Syncs,
                          seen : {NoSync} \cup Syncs, gone : BOOLEAN]]
  /\ completed \subseteq queued

(* The ledger always learns of a job before anything is said about it: a   *)
(* job is queued, and a deletion confirmed, only after its announcement,   *)
(* in spite of replays and of replicas taking over half-published syncs.   *)
AnnouncedFirst == queued \cup deleted \subseteq announced

(* When a sync reports success its work is done: every live version it has *)
(* seen was queued at some time, every deletion it made is announced, and  *)
(* its snapshot is stored, whatever earlier runs of it left half done.     *)
Successes(results) == {i \in 1..Len(results) : results[i].status = "success"}
SuccessIsEarned ==
  [][\A s \in Syncs :
       /\ Len(syncResults') > Len(syncResults)
       /\ syncResults'[Len(syncResults')] = [sync |-> s, status |-> "success"]
       => /\ snapshots[s] # <<>>
          /\ \A id \in Ids :
               /\ Known(id) /\ ~catalog[id].gone /\ catalog[id].seen = s =>
                    Job(id, catalog[id].version) \in queued
               /\ Known(id) /\ catalog[id].gone /\ catalog[id].changed = s =>
                    Deletion(id, s) \in deleted]_vars

(* A resource is marked deleted only by a sync whose discovery did not     *)
(* list it, however its batches and those of other runs interleave.        *)
OnlyMissingAreDeleted ==
  [][\A id \in Ids : ~catalog[id].gone /\ catalog'[id].gone =>
       \E w \in Replicas :
         /\ replica[w].step = "observe" /\ replica'[w].step = "snapshot"
         /\ replica[w].seen[id] = Gone]_vars

(* Every recorded sync is closed: its command is run until it goes through *)
(* and a success or failure is reported and stored, so that none stays     *)
(* pending for ever (nothing but such a result ends a pending row).        *)
SyncsEnd == \A s \in Syncs : []<>(syncRow[s] # "pending")

Quiet == offset = Len(commands) /\ \A w \in Replicas : replica[w].step = "idle"

(* The README promises redelivery and republication of the announcements   *)
(* of removed resources: when all commands are done, every deletion the    *)
(* catalog records was announced.                                          *)
DeletionsAreAnnounced ==
  Quiet => \A id \in Ids : Known(id) /\ catalog[id].gone =>
    Deletion(id, catalog[id].changed) \in deleted

(* A complete discovery records the removals of its source: when a sync    *)
(* completes, everything live in the catalog is something it has seen.     *)
RemovalsAreRecorded ==
  [][\A w \in Replicas : replica[w].step = "observe" /\ replica'[w].step = "snapshot" =>
       \A id \in Ids : ~catalog'[id].gone => replica[w].seen[id] # Gone]_vars

=============================================================================
