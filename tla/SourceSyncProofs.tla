-------------------------- MODULE SourceSyncProofs --------------------------
(***************************************************************************)
(* Proofs about SourceSync: for any numbers of resources, versions, syncs, *)
(* replicas, changes and disturbances.                                     *)
(***************************************************************************)
EXTENDS SourceSync, SequenceTheorems, TLAPS

Listing == [Ids -> {Gone} \cup Versions]
JobIds == [id : Ids \cup {0}, version : {Gone} \cup Versions, sync : {NoSync} \cup Syncs]
Result == [sync : Syncs, status : {"success", "failure"}]
Steps == {"idle", "polled", "discover", "observe", "snapshot", "publish", "commit"}

\* What a replica may have to publish.
Announcement(m) == m.kind = "pending" /\ m.job \in JobIds
Order(m) == m.kind = "job" /\ m.job \in JobIds /\ m.job.id \in Ids /\ m.job.sync = NoSync
Removal(m) == m.kind = "deleted" /\ m.job \in JobIds /\ m.job.id \in Ids /\ m.job.sync \in Syncs
Ending(m) == m.kind \in {"success", "failure"} /\ m = Report(m.kind)
Messages0 == {m \in [kind : {"pending", "job", "deleted", "success", "failure"}, job : JobIds] :
                Announcement(m) \/ Order(m) \/ Removal(m) \/ Ending(m)}

SyncTypes ==
  /\ TypeOK
  /\ replica \in [Replicas -> [step : Steps, at : Nat, seen : Listing, todo : SUBSET Ids,
                               out : SUBSET Messages0]]
  /\ \A w \in Replicas : replica[w].step \notin {"snapshot", "publish"} => replica[w].out = {}
  /\ syncResults \in Seq(Result)
  /\ snapshots \in [Syncs -> Seq(Listing)]
  /\ announced \subseteq JobIds /\ queued \subseteq JobIds /\ deleted \subseteq JobIds

\* A replica at work has the lock.
LockHeld ==
  \A w \in Replicas : replica[w].step \in {"discover", "observe", "snapshot", "publish"} => lock = w

\* What it has observed is in the catalog as seen by its sync.
ObservedInCatalog ==
  \A w \in Replicas : replica[w].step = "observe" =>
    \A id \in Listed(replica[w].seen) \ replica[w].todo : catalog[id].seen = SyncOf(w)

\* A job or a deletion it has to publish comes behind its announcement.
AnnouncementsAhead ==
  \A w \in Replicas : \A m \in replica[w].out :
    m.kind \in {"job", "deleted"} => m.job \in announced \/ Message("pending", m.job) \in replica[w].out

\* A resource deleted by a sync was not seen by it.
TombstonesUnseen == \A id \in Ids : Known(id) /\ catalog[id].gone => catalog[id].seen # catalog[id].changed

\* A success it has to report comes behind everything its sync has to do.
Ahead(w, set, m) == m.job \in set \/ m \in replica[w].out
WorkAhead ==
  \A w \in Replicas : Report("success") \in replica[w].out =>
    /\ replica[w].step = "publish" => snapshots[SyncOf(w)] # <<>>
    /\ \A id \in Ids :
         /\ Known(id) /\ ~catalog[id].gone /\ catalog[id].seen = SyncOf(w) =>
              Ahead(w, queued, Message("job", Job(id, catalog[id].version)))
         /\ Known(id) /\ catalog[id].gone /\ catalog[id].changed = SyncOf(w) =>
              Ahead(w, deleted, Message("deleted", Deletion(id, SyncOf(w))))

SyncInv ==
  /\ SyncTypes /\ LockHeld /\ ObservedInCatalog /\ AnnouncementsAhead /\ AnnouncedFirst
  /\ TombstonesUnseen /\ WorkAhead

-----------------------------------------------------------------------------
(* The messages of Complete, and the reports, are messages.                *)
LEMMA ReportIsMessage ==
  ASSUME NEW k \in {"success", "failure"}
  PROVE  Report(k) \in Messages0 /\ Report(k).kind = k
<1>1. Job(0, Gone) \in JobIds
  BY DEF Job, JobIds, Gone, NoSync
<1> QED BY <1>1 DEF Report, Message, Messages0, Ending

LEMMA MessagesAreMessages ==
  ASSUME TypeOK, NEW s \in Syncs
  PROVE  Messages(s) \subseteq Messages0
<1>1. \A id \in Ids : /\ Job(id, catalog[id].version) \in JobIds
                      /\ Job(id, catalog[id].version).id = id
                      /\ Job(id, catalog[id].version).sync = NoSync
  BY DEF TypeOK, Job, JobIds, NoSync
<1>2. \A id \in Ids : /\ Deletion(id, s) \in JobIds
                      /\ Deletion(id, s).id = id /\ Deletion(id, s).sync = s
  BY DEF Deletion, JobIds, NoSync, Gone
<1>3. \A id \in Ids : /\ Message("pending", Job(id, catalog[id].version)) \in Messages0
                      /\ Message("job", Job(id, catalog[id].version)) \in Messages0
  BY <1>1 DEF Message, Messages0, Announcement, Order
<1>4. \A id \in Ids : /\ Message("pending", Deletion(id, s)) \in Messages0
                      /\ Message("deleted", Deletion(id, s)) \in Messages0
  BY <1>2 DEF Message, Messages0, Announcement, Removal
<1>5. Unfinished(s) \subseteq Ids /\ Missing(s) \subseteq Ids
  BY DEF Unfinished, Missing
<1> QED BY <1>3, <1>4, <1>5, ReportIsMessage DEF Messages

(* The sync of a replica at work.                                          *)
LEMMA SyncOfIsSync ==
  ASSUME SyncTypes, NEW w \in Replicas, replica[w].step # "idle"
  PROVE  SyncOf(w) \in Syncs /\ replica[w].at \in 1..Len(commands)
<1>1. replica[w].at \in 1..Len(commands) /\ commands \in Seq(Syncs)
  BY DEF SyncTypes, TypeOK
<1> QED BY <1>1, ElementOfSeq DEF SyncOf

-----------------------------------------------------------------------------
(* Types.                                                                  *)
Row == [version : {Gone} \cup Versions, changed : {NoSync} \cup Syncs,
        seen : {NoSync} \cup Syncs, gone : BOOLEAN]
Process == [step : Steps, at : Nat, seen : Listing, todo : SUBSET Ids, out : SUBSET Messages0]

LEMMA IdleIsProcess == Idle \in Process /\ Idle.step = "idle" /\ Idle.out = {} /\ Idle.todo = {}
<1>1. Nothing \in Listing
  BY DEF Nothing, Listing
<1> QED BY <1>1 DEF Idle, Steps, Process

LEMMA SyncTypesInit == Init => SyncTypes
<1> SUFFICES ASSUME Init PROVE SyncTypes
  OBVIOUS
<1>1. NoRow \in Row
  BY DEF NoRow, Row
<1>2. 1 \in Versions
  BY SyncAssumption DEF Versions
<1>3. TypeOK
  BY <1>1, <1>2, IdleIsProcess, EmptySeq DEF Init, TypeOK, Row
<1> QED BY <1>3, IdleIsProcess, EmptySeq DEF Init, SyncTypes, Process

LEMMA DispatchKeepsTypes ==
  ASSUME SyncTypes, NEW s \in Syncs, DispatchSync(s)
  PROVE  /\ SyncTypes' /\ Len(commands) \in Nat /\ Len(commands') \in Nat
         /\ Len(commands) <= Len(commands')
         /\ \A i \in 1..Len(commands) : commands'[i] = commands[i]
<1>1. commands \in Seq(Syncs) /\ Len(commands) \in Nat
  BY LenProperties DEF SyncTypes, TypeOK
<1>2. commands' = commands \/ commands' = Append(commands, s)
  BY DEF DispatchSync
<1>3. /\ commands' \in Seq(Syncs) /\ Len(commands') \in Nat /\ Len(commands) <= Len(commands')
      /\ \A i \in 1..Len(commands) : commands'[i] = commands[i]
  BY <1>1, <1>2, AppendProperties
<1>4. syncRow' \in [Syncs -> {"none", "uncommitted", "pending", "lost", "success", "failure"}]
  BY DEF DispatchSync, SyncTypes, TypeOK
<1>5. offset' \in 0..Len(commands')
  BY <1>1, <1>3 DEF DispatchSync, SyncTypes, TypeOK
<1>6. \A w \in Replicas : replica'[w].step # "idle" => replica'[w].at \in 1..Len(commands')
  BY <1>1, <1>3 DEF DispatchSync, SyncTypes, TypeOK
<1>7. TypeOK'
  BY <1>3, <1>4, <1>5, <1>6 DEF DispatchSync, SyncTypes, TypeOK, sourceVars, topicVars
<1> QED BY <1>1, <1>3, <1>7 DEF DispatchSync, SyncTypes, sourceVars, topicVars

LEMMA SurroundingsKeepTypes ==
  ASSUME SyncTypes,
         \/ \E id \in Ids, v \in {Gone} \cup Versions : SourceChanges(id, v)
         \/ \E j \in queued : JobCompletes(j) \/ JobRunsAgain(j)
         \/ \E s \in Syncs : CommitSync(s)
         \/ UNCHANGED vars
  PROVE  SyncTypes'
<1>1. CASE \E id \in Ids, v \in {Gone} \cup Versions : SourceChanges(id, v)
  BY <1>1 DEF SourceChanges, SyncTypes, TypeOK, topicVars, dispatchVars
<1>2. CASE \E j \in queued : JobCompletes(j) \/ JobRunsAgain(j)
  BY <1>2 DEF JobCompletes, JobRunsAgain, SyncTypes, TypeOK, topicVars, dispatchVars, sourceVars
<1>3. CASE \E s \in Syncs : CommitSync(s)
  <2> PICK s \in Syncs : CommitSync(s)
    BY <1>3
  <2>1. syncRow' \in [Syncs -> {"none", "uncommitted", "pending", "lost", "success", "failure"}]
    BY DEF CommitSync, SyncTypes, TypeOK
  <2> QED BY <2>1 DEF CommitSync, SyncTypes, TypeOK, topicVars, sourceVars
<1>4. CASE UNCHANGED vars
  BY <1>4 DEF vars, SyncTypes, TypeOK
<1> QED BY <1>1, <1>2, <1>3, <1>4

LEMMA ResultKeepsTypes == SyncTypes /\ ApplyMetadataResult => SyncTypes'
<1> SUFFICES ASSUME SyncTypes, ApplyMetadataResult PROVE SyncTypes'
  OBVIOUS
<1>1. syncResults \in Seq(Result) /\ syncResults # <<>>
  BY DEF SyncTypes, ApplyMetadataResult
<1>2. Head(syncResults) \in Result /\ Tail(syncResults) \in Seq(Result)
  BY <1>1, HeadTailProperties
<1>3. syncRow' \in [Syncs -> {"none", "uncommitted", "pending", "lost", "success", "failure"}]
  BY <1>2 DEF ApplyMetadataResult, SyncTypes, TypeOK, Result
<1>4. TypeOK'
  BY <1>3 DEF ApplyMetadataResult, SyncTypes, TypeOK, sourceVars, topicVars
<1> QED BY <1>2, <1>4 DEF ApplyMetadataResult, SyncTypes, sourceVars, topicVars

\* A replica has taken a step, and is again a process.
OneStep(w) ==
  /\ replica' \in [Replicas -> Process]
  /\ \A x \in Replicas \ {w} : replica'[x] = replica[x]
  /\ replica'[w].step # "idle" => replica'[w].at \in 1..Len(commands)
  /\ replica'[w].step \notin {"snapshot", "publish"} => replica'[w].out = {}

LEMMA OneStepKeepsProcesses ==
  ASSUME SyncTypes, NEW w \in Replicas, OneStep(w), commands' = commands
  PROVE  /\ replica' \in [Replicas -> Process]
         /\ \A x \in Replicas : replica'[x].step # "idle" => replica'[x].at \in 1..Len(commands')
         /\ \A x \in Replicas : replica'[x].step \notin {"snapshot", "publish"} => replica'[x].out = {}
  BY DEF SyncTypes, TypeOK, OneStep

\* The new state of a process, and the replicas with it in it.
LEMMA OneProcess ==
  ASSUME SyncTypes, NEW w \in Replicas, NEW p \in Process,
         replica' = [replica EXCEPT ![w] = p],
         p.step # "idle" => p.at \in 1..Len(commands),
         p.step \notin {"snapshot", "publish"} => p.out = {}
  PROVE  OneStep(w) /\ replica'[w] = p
<1>1. replica \in [Replicas -> Process]
  BY DEF SyncTypes, Process
<1> QED BY <1>1 DEF OneStep

LEMMA AProcess ==
  ASSUME SyncTypes, NEW w \in Replicas
  PROVE  /\ replica \in [Replicas -> Process] /\ replica[w] \in Process
         /\ replica[w].step # "idle" => replica[w].at \in 1..Len(commands)
         /\ replica[w].step \notin {"snapshot", "publish"} => replica[w].out = {}
  BY DEF SyncTypes, TypeOK, Process

LEMMA PollKeepsTypes ==
  ASSUME SyncTypes, NEW w \in Replicas, Poll(w)
  PROVE  SyncTypes' /\ OneStep(w) /\ replica'[w].step = "polled" /\ replica'[w].out = {}
<1>1. offset + 1 \in 1..Len(commands) /\ offset + 1 \in Nat
  BY LenProperties DEF Poll, SyncTypes, TypeOK
<1>2. OneStep(w) /\ replica'[w].step = "polled" /\ replica'[w].out = {}
  <2> DEFINE p == [Idle EXCEPT !.step = "polled", !.at = offset + 1]
  <2>1. p \in Process /\ p.step = "polled" /\ p.at = offset + 1 /\ p.out = {}
    BY <1>1, IdleIsProcess DEF Process, Steps
  <2>2. replica' = [replica EXCEPT ![w] = p]
    BY DEF Poll
  <2> HIDE DEF p
  <2> QED BY <1>1, <2>1, <2>2, OneProcess
<1>3. TypeOK'
  BY <1>2, OneStepKeepsProcesses DEF Poll, SyncTypes, TypeOK, sourceVars, topicVars
<1> QED BY <1>2, <1>3, OneStepKeepsProcesses DEF Poll, SyncTypes, sourceVars, topicVars, Process

LEMMA LockKeepsTypes ==
  ASSUME SyncTypes, NEW w \in Replicas, Lock(w)
  PROVE  /\ SyncTypes' /\ OneStep(w) /\ replica'[w].out = {}
         /\ \/ replica'[w].step = "discover" /\ lock = NoReplica /\ lock' = w
            \/ replica'[w].step = "idle" /\ lock' = lock
<1>1. /\ OneStep(w) /\ replica'[w].out = {}
      /\ \/ replica'[w].step = "discover" /\ lock = NoReplica /\ lock' = w
         \/ replica'[w].step = "idle" /\ lock' = lock
  <2> DEFINE p == [replica[w] EXCEPT !.step = "discover"]
  <2>1. /\ p \in Process /\ p.step = "discover" /\ p.at = replica[w].at /\ p.out = replica[w].out
        /\ replica[w].step = "polled" /\ replica[w].out = {} /\ p.at \in 1..Len(commands)
    BY AProcess DEF Lock, Process, Steps
  <2>2. \/ replica' = [replica EXCEPT ![w] = p] /\ lock = NoReplica /\ lock' = w
        \/ replica' = [replica EXCEPT ![w] = Idle] /\ lock' = lock
    BY DEF Lock
  <2> HIDE DEF p
  <2> QED BY <2>1, <2>2, OneProcess, IdleIsProcess
<1>2. TypeOK'
  BY <1>1, OneStepKeepsProcesses DEF Lock, SyncTypes, TypeOK, sourceVars, dispatchVars, topicVars
<1> QED BY <1>1, <1>2, OneStepKeepsProcesses DEF Lock, SyncTypes, sourceVars, dispatchVars, topicVars, Process

LEMMA DiscoverKeepsTypes ==
  ASSUME SyncTypes, NEW w \in Replicas, Discover(w)
  PROVE  /\ SyncTypes' /\ OneStep(w) /\ replica'[w].at = replica[w].at
         /\ \/ /\ replica'[w].step = "observe" /\ replica'[w].out = {}
               /\ replica'[w].seen = listing /\ replica'[w].todo = Listed(listing)
            \/ replica'[w].step = "publish" /\ replica'[w].out = {Report("failure")}
<1>1. /\ listing \in Listing /\ Listed(listing) \in SUBSET Ids
      /\ {Report("failure")} \in SUBSET Messages0
  BY ReportIsMessage DEF SyncTypes, TypeOK, Listing, Listed
<1>2. /\ OneStep(w) /\ replica'[w].at = replica[w].at
      /\ \/ /\ replica'[w].step = "observe" /\ replica'[w].out = {}
            /\ replica'[w].seen = listing /\ replica'[w].todo = Listed(listing)
         \/ replica'[w].step = "publish" /\ replica'[w].out = {Report("failure")}
  <2> DEFINE p == [replica[w] EXCEPT !.step = "observe", !.seen = listing, !.todo = Listed(listing)]
             q == [replica[w] EXCEPT !.step = "publish", !.out = {Report("failure")}]
  <2>1. /\ replica[w].step = "discover" /\ replica[w].out = {} /\ replica[w].at \in 1..Len(commands)
        /\ replica[w] \in Process
    BY AProcess DEF Discover
  <2>2. /\ p \in Process /\ p.step = "observe" /\ p.at = replica[w].at /\ p.out = replica[w].out
        /\ p.seen = listing /\ p.todo = Listed(listing)
    BY <1>1, <2>1 DEF Process, Steps
  <2>3. q \in Process /\ q.step = "publish" /\ q.at = replica[w].at /\ q.out = {Report("failure")}
    BY <1>1, <2>1 DEF Process, Steps
  <2>4. replica' = [replica EXCEPT ![w] = p] \/ replica' = [replica EXCEPT ![w] = q]
    BY DEF Discover
  <2> HIDE DEF p, q
  <2> QED BY <2>1, <2>2, <2>3, <2>4, OneProcess
<1>3. TypeOK'
  BY <1>2, OneStepKeepsProcesses DEF Discover, SyncTypes, TypeOK, sourceVars, dispatchVars, topicVars
<1> QED BY <1>2, <1>3, OneStepKeepsProcesses DEF Discover, SyncTypes, sourceVars, dispatchVars, topicVars, Process

LEMMA ObserveKeepsTypes ==
  ASSUME SyncTypes, NEW w \in Replicas, ObserveBatch(w)
  PROVE  /\ SyncTypes' /\ OneStep(w) /\ replica'[w].at = replica[w].at
         /\ replica'[w].step = "observe" /\ replica'[w].out = {} /\ replica'[w].seen = replica[w].seen
         /\ \E batch \in SUBSET replica[w].todo :
              /\ replica'[w].todo = replica[w].todo \ batch
              /\ catalog' = [id \in Ids |->
                   IF id \in batch THEN Observed(catalog[id], replica[w].seen[id], SyncOf(w))
                   ELSE catalog[id]]
<1>1. SyncOf(w) \in Syncs
  BY SyncOfIsSync DEF ObserveBatch
<1>2. \A id \in Ids : catalog[id] \in Row /\ replica[w].seen[id] \in {Gone} \cup Versions
  BY DEF SyncTypes, TypeOK, Row, Listing
<1>3. \A id \in Ids : Observed(catalog[id], replica[w].seen[id], SyncOf(w)) \in Row
  BY <1>1, <1>2 DEF Observed, Row
<1>4. catalog' \in [Ids -> Row]
  BY <1>2, <1>3 DEF ObserveBatch
<1>5. PICK batch \in SUBSET replica[w].todo :
        /\ replica' = [replica EXCEPT ![w].todo = @ \ batch]
        /\ catalog' = [id \in Ids |->
             IF id \in batch THEN Observed(catalog[id], replica[w].seen[id], SyncOf(w))
             ELSE catalog[id]]
  BY DEF ObserveBatch
<1>6. /\ OneStep(w) /\ replica'[w].at = replica[w].at
      /\ replica'[w].step = "observe" /\ replica'[w].out = {} /\ replica'[w].seen = replica[w].seen
      /\ replica'[w].todo = replica[w].todo \ batch
  <2> DEFINE p == [replica[w] EXCEPT !.todo = @ \ batch]
  <2>1. /\ replica[w].step = "observe" /\ replica[w].out = {} /\ replica[w].at \in 1..Len(commands)
        /\ replica[w] \in Process /\ replica[w].todo \ batch \in SUBSET Ids
    BY AProcess DEF ObserveBatch, Process
  <2>2. /\ p \in Process /\ p.step = "observe" /\ p.at = replica[w].at /\ p.out = replica[w].out
        /\ p.seen = replica[w].seen /\ p.todo = replica[w].todo \ batch
    BY <2>1 DEF Process
  <2>3. replica' = [replica EXCEPT ![w] = p]
    BY <1>5
  <2> HIDE DEF p
  <2> QED BY <2>1, <2>2, <2>3, OneProcess
<1>7. TypeOK'
  BY <1>4, <1>6, OneStepKeepsProcesses DEF ObserveBatch, SyncTypes, TypeOK, Row, sourceVars, dispatchVars, topicVars
<1>8. SyncTypes'
  BY <1>6, <1>7, OneStepKeepsProcesses DEF ObserveBatch, SyncTypes, sourceVars, dispatchVars, topicVars, Process
<1> QED BY <1>5, <1>6, <1>8

LEMMA CompleteKeepsTypes ==
  ASSUME SyncTypes, NEW w \in Replicas, Complete(w)
  PROVE  /\ SyncTypes' /\ OneStep(w) /\ replica'[w].at = replica[w].at
         /\ replica'[w].step = "snapshot" /\ replica'[w].out = Messages(SyncOf(w))
<1>1. SyncOf(w) \in Syncs
  BY SyncOfIsSync DEF Complete
<1>2. Messages(SyncOf(w)) \in SUBSET Messages0
  BY <1>1, MessagesAreMessages DEF SyncTypes
<1>3. catalog' \in [Ids -> Row]
  <2>1. catalog \in [Ids -> Row]
    BY DEF SyncTypes, TypeOK, Row
  <2>2. \A r \in Row : [r EXCEPT !.gone = TRUE, !.changed = SyncOf(w)] \in Row
    BY <1>1 DEF Row
  <2>3. catalog' = [id \in Ids |->
          IF Known(id) /\ catalog[id].seen # SyncOf(w) /\ ~catalog[id].gone
            THEN [catalog[id] EXCEPT !.gone = TRUE, !.changed = SyncOf(w)] ELSE catalog[id]]
    BY DEF Complete
  <2> QED BY <2>1, <2>2, <2>3
<1>4. /\ OneStep(w) /\ replica'[w].at = replica[w].at
      /\ replica'[w].step = "snapshot" /\ replica'[w].out = Messages(SyncOf(w))
  <2> DEFINE p == [replica[w] EXCEPT !.step = "snapshot", !.out = Messages(SyncOf(w))]
  <2>1. replica[w].at \in 1..Len(commands) /\ replica[w] \in Process
    BY AProcess DEF Complete
  <2>2. /\ p \in Process /\ p.step = "snapshot" /\ p.at = replica[w].at
        /\ p.out = Messages(SyncOf(w))
    BY <1>2, <2>1 DEF Process, Steps
  <2>3. replica' = [replica EXCEPT ![w] = p]
    BY DEF Complete
  <2> HIDE DEF p
  <2> QED BY <2>1, <2>2, <2>3, OneProcess
<1>5. TypeOK'
  BY <1>3, <1>4, OneStepKeepsProcesses DEF Complete, SyncTypes, TypeOK, Row, sourceVars, dispatchVars, topicVars
<1> QED BY <1>4, <1>5, OneStepKeepsProcesses DEF Complete, SyncTypes, sourceVars, dispatchVars, topicVars, Process

LEMMA SnapshotKeepsTypes ==
  ASSUME SyncTypes, NEW w \in Replicas, PublishSnapshot(w)
  PROVE  /\ SyncTypes' /\ OneStep(w) /\ replica'[w].at = replica[w].at
         /\ replica'[w].step = "publish" /\ replica'[w].out = replica[w].out
<1>1. SyncOf(w) \in Syncs
  BY SyncOfIsSync DEF PublishSnapshot
<1>2. <<replica[w].seen>> \in Seq(Listing)
  BY DEF SyncTypes
<1>3. snapshots' \in [Syncs -> Seq(Listing)]
  BY <1>1, <1>2 DEF PublishSnapshot, SyncTypes
<1>4. /\ OneStep(w) /\ replica'[w].at = replica[w].at
      /\ replica'[w].step = "publish" /\ replica'[w].out = replica[w].out
  <2> DEFINE p == [replica[w] EXCEPT !.step = "publish"]
  <2>1. replica[w].at \in 1..Len(commands) /\ replica[w] \in Process
    BY AProcess DEF PublishSnapshot
  <2>2. p \in Process /\ p.step = "publish" /\ p.at = replica[w].at /\ p.out = replica[w].out
    BY <2>1 DEF Process, Steps
  <2>3. replica' = [replica EXCEPT ![w] = p]
    BY DEF PublishSnapshot
  <2> HIDE DEF p
  <2> QED BY <2>1, <2>2, <2>3, OneProcess
<1>5. TypeOK'
  BY <1>4, OneStepKeepsProcesses DEF PublishSnapshot, SyncTypes, TypeOK, sourceVars, dispatchVars, topicVars
<1> QED BY <1>3, <1>4, <1>5, OneStepKeepsProcesses DEF PublishSnapshot, SyncTypes, sourceVars, dispatchVars, topicVars, Process

LEMMA PublishKeepsTypes ==
  ASSUME SyncTypes, NEW w \in Replicas, PublishNext(w)
  PROVE  /\ SyncTypes' /\ OneStep(w) /\ replica'[w].at = replica[w].at /\ replica'[w].step = "publish"
         /\ \E m \in replica[w].out :
              /\ \A n \in replica[w].out : Rank(m) <= Rank(n)
              /\ announced' = announced \cup {j \in {m.job} : m.kind = "pending"}
              /\ queued' = queued \cup {j \in {m.job} : m.kind = "job"}
              /\ deleted' = deleted \cup {j \in {m.job} : m.kind = "deleted"}
              /\ replica'[w].out = replica[w].out \ {m}
<1>1. SyncOf(w) \in Syncs
  BY SyncOfIsSync DEF PublishNext
<1>2. PICK m \in replica[w].out :
        /\ \A n \in replica[w].out : Rank(m) <= Rank(n)
        /\ announced' = announced \cup {j \in {m.job} : m.kind = "pending"}
        /\ queued' = queued \cup {j \in {m.job} : m.kind = "job"}
        /\ deleted' = deleted \cup {j \in {m.job} : m.kind = "deleted"}
        /\ syncResults' = IF m.kind \in {"success", "failure"}
             THEN Append(syncResults, [sync |-> SyncOf(w), status |-> m.kind]) ELSE syncResults
        /\ replica' = [replica EXCEPT ![w].out = @ \ {m}]
  BY DEF PublishNext
<1>3. m.job \in JobIds
  BY DEF SyncTypes, Messages0
<1>4. announced' \subseteq JobIds /\ queued' \subseteq JobIds /\ deleted' \subseteq JobIds
  BY <1>2, <1>3 DEF SyncTypes
<1>5. syncResults' \in Seq(Result)
  <2>1. CASE m.kind \in {"success", "failure"}
    BY <1>1, <1>2, <2>1, AppendProperties DEF SyncTypes, Result
  <2>2. CASE m.kind \notin {"success", "failure"}
    BY <1>2, <2>2 DEF SyncTypes
  <2> QED BY <2>1, <2>2
<1>6. /\ OneStep(w) /\ replica'[w].at = replica[w].at /\ replica'[w].step = "publish"
      /\ replica'[w].out = replica[w].out \ {m}
  <2> DEFINE p == [replica[w] EXCEPT !.out = @ \ {m}]
  <2>1. /\ replica[w].step = "publish" /\ replica[w].at \in 1..Len(commands)
        /\ replica[w] \in Process /\ replica[w].out \ {m} \in SUBSET Messages0
    BY AProcess DEF PublishNext, Process
  <2>2. /\ p \in Process /\ p.step = "publish" /\ p.at = replica[w].at
        /\ p.out = replica[w].out \ {m}
    BY <2>1 DEF Process
  <2>3. replica' = [replica EXCEPT ![w] = p]
    BY <1>2
  <2> HIDE DEF p
  <2> QED BY <2>1, <2>2, <2>3, OneProcess
<1>7. TypeOK'
  BY <1>2, <1>6, OneStepKeepsProcesses DEF PublishNext, SyncTypes, TypeOK, sourceVars, dispatchVars
<1>8. SyncTypes'
  BY <1>4, <1>5, <1>6, <1>7, OneStepKeepsProcesses DEF PublishNext, SyncTypes, sourceVars, dispatchVars, Process
<1> QED BY <1>2, <1>6, <1>8

LEMMA EndKeepsTypes ==
  ASSUME SyncTypes, NEW w \in Replicas, Unlock(w) \/ Commit(w) \/ Crash(w)
  PROVE  SyncTypes' /\ OneStep(w) /\ replica'[w].step \in {"idle", "commit"} /\ replica'[w].out = {}
<1>1. OneStep(w) /\ replica'[w].step \in {"idle", "commit"} /\ replica'[w].out = {}
  <2>1. CASE Unlock(w)
    <3> DEFINE p == [replica[w] EXCEPT !.step = "commit"]
    <3>1. /\ replica[w].at \in 1..Len(commands) /\ replica[w] \in Process /\ replica[w].out = {}
      BY <2>1, AProcess DEF Unlock
    <3>2. p \in Process /\ p.step = "commit" /\ p.at = replica[w].at /\ p.out = replica[w].out
      BY <3>1 DEF Process, Steps
    <3>3. replica' = [replica EXCEPT ![w] = p]
      BY <2>1 DEF Unlock
    <3> HIDE DEF p
    <3> QED BY <3>1, <3>2, <3>3, OneProcess
  <2>2. CASE Commit(w) \/ Crash(w)
    BY <2>2, IdleIsProcess, OneProcess DEF Commit, Crash
  <2> QED BY <2>1, <2>2
<1>2. offset' \in 0..Len(commands) /\ lock' \in Replicas \cup {NoReplica} /\ commands' = commands
  BY LenProperties DEF Unlock, Commit, Crash, SyncTypes, TypeOK
<1>3. UNCHANGED <<listing, syncRow, catalog, completed, queued, announced, deleted, syncResults, snapshots>>
  BY DEF Unlock, Commit, Crash, sourceVars, dispatchVars, topicVars
<1>4. TypeOK'
  BY <1>1, <1>2, <1>3, OneStepKeepsProcesses DEF SyncTypes, TypeOK
<1> QED BY <1>1, <1>2, <1>3, <1>4, OneStepKeepsProcesses DEF SyncTypes, Process

-----------------------------------------------------------------------------
(* The invariant.                                                          *)

(* Steps of the source, the pipeline, the dispatcher and the orchestrator. *)
LEMMA ElsewhereKeepsInv ==
  ASSUME SyncInv, SyncTypes',
         UNCHANGED <<replica, lock, catalog, snapshots, announced, queued, deleted>>,
         \A w \in Replicas : replica[w].step # "idle" => SyncOf(w)' = SyncOf(w)
  PROVE  SyncInv'
<1>1. LockHeld'
  BY DEF SyncInv, LockHeld
<1>2. ObservedInCatalog'
  BY DEF SyncInv, ObservedInCatalog, Listed
<1>3. AnnouncementsAhead' /\ AnnouncedFirst'
  BY DEF SyncInv, AnnouncementsAhead, AnnouncedFirst
<1>4. TombstonesUnseen'
  BY DEF SyncInv, TombstonesUnseen, Known
<1>5. WorkAhead'
  <2> SUFFICES ASSUME NEW w \in Replicas, Report("success") \in replica[w].out
               PROVE  /\ replica[w].step = "publish" => snapshots[SyncOf(w)'] # <<>>
                      /\ \A id \in Ids :
                           /\ Known(id) /\ ~catalog[id].gone /\ catalog[id].seen = SyncOf(w)' =>
                                Ahead(w, queued, Message("job", Job(id, catalog[id].version)))
                           /\ Known(id) /\ catalog[id].gone /\ catalog[id].changed = SyncOf(w)' =>
                                Ahead(w, deleted, Message("deleted", Deletion(id, SyncOf(w)')))
    BY DEF WorkAhead, Ahead, Known
  <2>1. replica[w].step # "idle"
    BY DEF SyncInv, SyncTypes
  <2> QED BY <2>1 DEF SyncInv, WorkAhead
<1> QED BY <1>1, <1>2, <1>3, <1>4, <1>5 DEF SyncInv

(* Only one replica at a time is between lock and unlock.                  *)
Holding == {"discover", "observe", "snapshot", "publish"}

LEMMA Alone ==
  ASSUME SyncTypes, LockHeld, NEW w \in Replicas, replica[w].step \in Holding
  PROVE  \A x \in Replicas \ {w} : replica[x].step \notin Holding /\ replica[x].out = {}
  BY DEF LockHeld, Holding, SyncTypes

LEMMA OtherSyncs ==
  ASSUME NEW w \in Replicas, OneStep(w), commands' = commands
  PROVE  /\ \A x \in Replicas \ {w} : replica'[x] = replica[x] /\ SyncOf(x)' = SyncOf(x)
         /\ replica'[w].at = replica[w].at => SyncOf(w)' = SyncOf(w)
  BY DEF OneStep, SyncOf

LEMMA LockKept ==
  ASSUME SyncInv, NEW w \in Replicas, OneStep(w),
         replica[w].step \in Holding \/ replica'[w].step \notin Holding,
         \/ lock' = lock
         \/ lock' = (IF lock = w THEN NoReplica ELSE lock) /\ replica'[w].step \notin Holding
  PROVE  LockHeld'
<1>1. \A x \in Replicas \ {w} : replica'[x] = replica[x]
  BY DEF OneStep
<1>2. \A x \in Replicas : replica[x].step \in Holding => lock = x
  BY DEF SyncInv, LockHeld, Holding
<1> QED BY <1>1, <1>2 DEF LockHeld, Holding

(* Steps before and after the work, and the ends of it.                    *)
LEMMA OutsideKeepsInv ==
  ASSUME SyncInv, SyncTypes', NEW w \in Replicas, OneStep(w), LockHeld',
         UNCHANGED <<commands, catalog, snapshots, announced, queued, deleted>>,
         replica'[w].out = {}, replica'[w].step # "observe"
  PROVE  SyncInv'
<1>1. \A x \in Replicas \ {w} : replica'[x] = replica[x] /\ SyncOf(x)' = SyncOf(x)
  BY OtherSyncs
<1>2. ObservedInCatalog'
  BY <1>1 DEF SyncInv, ObservedInCatalog, Listed
<1>3. AnnouncementsAhead' /\ AnnouncedFirst'
  BY <1>1 DEF SyncInv, AnnouncementsAhead, AnnouncedFirst
<1>4. TombstonesUnseen'
  BY DEF SyncInv, TombstonesUnseen, Known
<1>5. WorkAhead'
  BY <1>1 DEF SyncInv, WorkAhead, Ahead, Known
<1> QED BY <1>2, <1>3, <1>4, <1>5 DEF SyncInv

LEMMA DiscoverKeepsInv ==
  ASSUME SyncInv, NEW w \in Replicas, Discover(w) PROVE SyncInv'
<1>1. /\ SyncTypes' /\ OneStep(w)
      /\ \/ /\ replica'[w].step = "observe" /\ replica'[w].out = {}
            /\ replica'[w].seen = listing /\ replica'[w].todo = Listed(listing)
         \/ replica'[w].step = "publish" /\ replica'[w].out = {Report("failure")}
  BY DiscoverKeepsTypes DEF SyncInv
<1>2. UNCHANGED <<commands, lock, catalog, snapshots, announced, queued, deleted>> /\ replica[w].step = "discover"
  BY DEF Discover, topicVars
<1>3. \A x \in Replicas \ {w} : replica'[x] = replica[x] /\ SyncOf(x)' = SyncOf(x)
  BY <1>1, <1>2, OtherSyncs
<1>4. LockHeld'
  BY <1>1, <1>2, LockKept DEF Holding
<1>5. ObservedInCatalog'
  BY <1>1, <1>2, <1>3 DEF SyncInv, ObservedInCatalog, Listed
<1>6. Report("failure").kind = "failure" /\ Report("success").kind = "success"
  BY ReportIsMessage
<1>7. AnnouncementsAhead' /\ AnnouncedFirst'
  BY <1>1, <1>2, <1>3, <1>6 DEF SyncInv, AnnouncementsAhead, AnnouncedFirst
<1>8. TombstonesUnseen'
  BY <1>2 DEF SyncInv, TombstonesUnseen, Known
<1>9. Report("success") \notin replica'[w].out
  BY <1>1, <1>6
<1>10. WorkAhead'
  BY <1>2, <1>3, <1>9 DEF SyncInv, WorkAhead, Ahead, Known
<1> QED BY <1>1, <1>4, <1>5, <1>7, <1>8, <1>10 DEF SyncInv

LEMMA ObserveKeepsInv ==
  ASSUME SyncInv, NEW w \in Replicas, ObserveBatch(w) PROVE SyncInv'
<1>1. PICK batch \in SUBSET replica[w].todo :
        /\ replica'[w].todo = replica[w].todo \ batch
        /\ catalog' = [id \in Ids |->
             IF id \in batch THEN Observed(catalog[id], replica[w].seen[id], SyncOf(w))
             ELSE catalog[id]]
  BY ObserveKeepsTypes DEF SyncInv
<1>2. /\ SyncTypes' /\ OneStep(w) /\ replica'[w].at = replica[w].at
      /\ replica'[w].step = "observe" /\ replica'[w].out = {} /\ replica'[w].seen = replica[w].seen
  BY ObserveKeepsTypes DEF SyncInv
<1>3. UNCHANGED <<commands, lock, snapshots, announced, queued, deleted>> /\ replica[w].step = "observe"
  BY DEF ObserveBatch, topicVars
<1>4. /\ \A x \in Replicas \ {w} : replica'[x] = replica[x] /\ SyncOf(x)' = SyncOf(x)
      /\ SyncOf(w)' = SyncOf(w)
  BY <1>2, <1>3, OtherSyncs
<1>5. \A x \in Replicas \ {w} : replica[x].step \notin Holding /\ replica[x].out = {}
  BY <1>3, Alone DEF SyncInv, Holding
<1>6. LockHeld'
  BY <1>2, <1>3, LockKept DEF Holding
<1>7. \A id \in Ids : /\ id \in batch => catalog'[id].seen = SyncOf(w) /\ catalog'[id].gone = FALSE
                      /\ id \notin batch => catalog'[id] = catalog[id]
  BY <1>1 DEF Observed
<1>8. ObservedInCatalog'
  <2> SUFFICES ASSUME NEW id \in Listed(replica[w].seen) \ replica'[w].todo
               PROVE  catalog'[id].seen = SyncOf(w)
    BY <1>2, <1>4, <1>5 DEF ObservedInCatalog, Listed, Holding
  <2>1. id \in Ids
    BY DEF Listed
  <2>2. CASE id \in batch
    BY <1>7, <2>1, <2>2
  <2>3. CASE id \notin batch
    BY <1>1, <1>3, <1>7, <2>1, <2>3 DEF SyncInv, ObservedInCatalog
  <2> QED BY <2>2, <2>3
<1>9. AnnouncementsAhead' /\ AnnouncedFirst'
  BY <1>2, <1>3, <1>4 DEF SyncInv, AnnouncementsAhead, AnnouncedFirst
<1>10. TombstonesUnseen'
  BY <1>7 DEF SyncInv, TombstonesUnseen, Known
<1>11. WorkAhead'
  BY <1>2, <1>4, <1>5 DEF WorkAhead
<1> QED BY <1>2, <1>6, <1>8, <1>9, <1>10, <1>11 DEF SyncInv

(* What a sync that completes has to tell, as messages.                    *)
LEMMA CompletesWithMessages ==
  ASSUME NEW s, NEW id \in Ids
  PROVE  /\ id \in Unfinished(s) => Message("job", Job(id, catalog[id].version)) \in Messages(s)
         /\ id \in Missing(s) => Message("deleted", Deletion(id, s)) \in Messages(s)
  BY DEF Messages

LEMMA AnnouncedByMessages ==
  ASSUME NEW s, NEW m \in Messages(s), m.kind \in {"job", "deleted"}
  PROVE  Message("pending", m.job) \in Messages(s)
<1>1. Report("success").kind = "success"
  BY ReportIsMessage
<1>2. CASE \E id \in Unfinished(s) : m \in {Message("pending", Job(id, catalog[id].version)),
                                            Message("job", Job(id, catalog[id].version))}
  <2> PICK id \in Unfinished(s) : m \in {Message("pending", Job(id, catalog[id].version)),
                                         Message("job", Job(id, catalog[id].version))}
    BY <1>2
  <2>1. m.job = Job(id, catalog[id].version)
    BY DEF Message
  <2> QED BY <2>1 DEF Messages
<1>3. CASE \E id \in Missing(s) : m \in {Message("pending", Deletion(id, s)),
                                         Message("deleted", Deletion(id, s))}
  <2> PICK id \in Missing(s) : m \in {Message("pending", Deletion(id, s)),
                                      Message("deleted", Deletion(id, s))}
    BY <1>3
  <2>1. m.job = Deletion(id, s)
    BY DEF Message
  <2> QED BY <2>1 DEF Messages
<1> QED BY <1>1, <1>2, <1>3 DEF Messages

LEMMA CompleteKeepsInv ==
  ASSUME SyncInv, NEW w \in Replicas, Complete(w) PROVE SyncInv'
<1> DEFINE s == SyncOf(w)
<1>1. /\ SyncTypes' /\ OneStep(w) /\ replica'[w].at = replica[w].at
      /\ replica'[w].step = "snapshot" /\ replica'[w].out = Messages(s)
  BY CompleteKeepsTypes DEF SyncInv
<1>2. /\ UNCHANGED <<commands, lock, snapshots, announced, queued, deleted>>
      /\ replica[w].step = "observe"
      /\ catalog' = [id \in Ids |->
           IF Known(id) /\ catalog[id].seen # s /\ ~catalog[id].gone
             THEN [catalog[id] EXCEPT !.gone = TRUE, !.changed = s] ELSE catalog[id]]
  BY DEF Complete, topicVars
<1>3. /\ \A x \in Replicas \ {w} : replica'[x] = replica[x] /\ SyncOf(x)' = SyncOf(x)
      /\ SyncOf(w)' = s
  BY <1>1, <1>2, OtherSyncs
<1>4. \A x \in Replicas \ {w} : replica[x].step \notin Holding /\ replica[x].out = {}
  BY <1>2, Alone DEF SyncInv, Holding
<1>5. LockHeld'
  BY <1>1, <1>2, LockKept DEF Holding
<1>6. ObservedInCatalog'
  BY <1>1, <1>3, <1>4 DEF ObservedInCatalog, Holding
<1>7. \A id \in Ids : catalog[id] \in Row
  BY DEF SyncInv, SyncTypes, TypeOK, Row
<1> HIDE DEF s
<1>8. AnnouncementsAhead' /\ AnnouncedFirst'
  <2>1. \A m \in replica'[w].out : m.kind \in {"job", "deleted"} => Message("pending", m.job) \in replica'[w].out
    BY <1>1, AnnouncedByMessages
  <2>2. \A x \in Replicas \ {w} : replica'[x].out = {}
    BY <1>3, <1>4
  <2>3. AnnouncementsAhead'
    BY <2>1, <2>2 DEF AnnouncementsAhead
  <2> QED BY <1>2, <2>3 DEF SyncInv, AnnouncedFirst
<1>9. \A id \in Ids :
        \/ /\ Known(id) /\ catalog[id].seen # s /\ ~catalog[id].gone
           /\ catalog'[id].gone = TRUE /\ catalog'[id].changed = s /\ catalog'[id].seen = catalog[id].seen
        \/ /\ ~(Known(id) /\ catalog[id].seen # s /\ ~catalog[id].gone)
           /\ catalog'[id] = catalog[id]
  BY <1>2, <1>7 DEF Row
<1>10. TombstonesUnseen'
  BY <1>9 DEF SyncInv, TombstonesUnseen, Known
<1>11. ASSUME NEW id \in Ids, Known(id)', ~catalog'[id].gone, catalog'[id].seen = s
       PROVE  \/ Job(id, catalog'[id].version) \in queued
              \/ Message("job", Job(id, catalog'[id].version)) \in Messages(s)
  <2>1. catalog'[id] = catalog[id] /\ Known(id)
    BY <1>9, <1>11 DEF Known
  <2>2. id \in Unfinished(s) \/ Job(id, catalog[id].version) \in completed
    BY <1>11, <2>1 DEF Unfinished
  <2> QED BY <2>1, <2>2, CompletesWithMessages DEF SyncInv, SyncTypes, TypeOK
<1>12. ASSUME NEW id \in Ids, Known(id)', catalog'[id].gone, catalog'[id].changed = s
       PROVE  Message("deleted", Deletion(id, s)) \in Messages(s)
  <2>1. id \in Missing(s)
    <3>1. CASE Known(id) /\ catalog[id].seen # s /\ ~catalog[id].gone
      BY <3>1 DEF Missing
    <3>2. CASE ~(Known(id) /\ catalog[id].seen # s /\ ~catalog[id].gone)
      <4>1. catalog'[id] = catalog[id] /\ Known(id)
        BY <1>9, <1>12, <3>2 DEF Known
      <4>2. catalog[id].seen # s
        BY <1>12, <4>1 DEF SyncInv, TombstonesUnseen
      <4> QED BY <1>12, <4>1, <4>2 DEF Missing
    <3> QED BY <3>1, <3>2
  <2> QED BY <2>1, CompletesWithMessages
<1>13. \A id \in Ids : Known(id)' /\ ~catalog'[id].gone /\ catalog'[id].seen = s =>
         Ahead(w, queued, Message("job", Job(id, catalog[id].version)))'
  <2> SUFFICES ASSUME NEW id \in Ids, Known(id)', ~catalog'[id].gone, catalog'[id].seen = s
               PROVE  Ahead(w, queued, Message("job", Job(id, catalog[id].version)))'
    OBVIOUS
  <2> DEFINE m == Message("job", Job(id, catalog'[id].version))
  <2>1. m.job = Job(id, catalog'[id].version)
    BY DEF Message
  <2>2. m.job \in queued \/ m \in Messages(s)
    BY <1>11, <2>1
  <2>3. queued' = queued
    BY <1>2
  <2> QED BY <1>1, <2>2, <2>3 DEF Ahead
<1>14. \A id \in Ids : Known(id)' /\ catalog'[id].gone /\ catalog'[id].changed = s =>
         Ahead(w, deleted, Message("deleted", Deletion(id, SyncOf(w))))'
  BY <1>1, <1>3, <1>12 DEF Ahead
<1>15. WorkAhead'
  BY <1>1, <1>3, <1>4, <1>13, <1>14 DEF WorkAhead
<1> QED BY <1>1, <1>5, <1>6, <1>8, <1>10, <1>15 DEF SyncInv

LEMMA SnapshotKeepsInv ==
  ASSUME SyncInv, NEW w \in Replicas, PublishSnapshot(w) PROVE SyncInv'
<1>1. /\ SyncTypes' /\ OneStep(w) /\ replica'[w].at = replica[w].at
      /\ replica'[w].step = "publish" /\ replica'[w].out = replica[w].out
  BY SnapshotKeepsTypes DEF SyncInv
<1>2. /\ UNCHANGED <<commands, lock, catalog, announced, queued, deleted>> /\ replica[w].step = "snapshot"
      /\ snapshots' = [snapshots EXCEPT ![SyncOf(w)] = IF @ = <<>> THEN <<replica[w].seen>> ELSE @]
  BY DEF PublishSnapshot, topicVars
<1>3. /\ \A x \in Replicas \ {w} : replica'[x] = replica[x] /\ SyncOf(x)' = SyncOf(x)
      /\ SyncOf(w)' = SyncOf(w)
  BY <1>1, <1>2, OtherSyncs
<1>4. \A x \in Replicas \ {w} : replica[x].step \notin Holding /\ replica[x].out = {}
  BY <1>2, Alone DEF SyncInv, Holding
<1>5. LockHeld'
  BY <1>1, <1>2, LockKept DEF Holding
<1>6. ObservedInCatalog'
  BY <1>1, <1>3, <1>4 DEF ObservedInCatalog, Holding
<1>7. AnnouncementsAhead' /\ AnnouncedFirst'
  BY <1>1, <1>2, <1>3 DEF SyncInv, AnnouncementsAhead, AnnouncedFirst
<1>8. TombstonesUnseen'
  BY <1>2 DEF SyncInv, TombstonesUnseen, Known
<1>9. snapshots'[SyncOf(w)] # <<>>
  <2>1. SyncOf(w) \in Syncs /\ snapshots \in [Syncs -> Seq(Listing)]
    BY <1>2, SyncOfIsSync DEF SyncInv, SyncTypes
  <2>2. <<replica[w].seen>> # <<>>
    OBVIOUS
  <2> QED BY <1>2, <2>1, <2>2
<1>10. WorkAhead'
  BY <1>1, <1>2, <1>3, <1>4, <1>9 DEF SyncInv, WorkAhead, Ahead, Known
<1> QED BY <1>1, <1>5, <1>6, <1>7, <1>8, <1>10 DEF SyncInv

(* The messages leave in their order: what is published next is the        *)
(* announcement of no job still to be published, and the report is last.   *)
LEMMA RankOrder ==
  ASSUME NEW m \in Messages0, NEW n \in Messages0, Rank(m) <= Rank(n)
  PROVE  /\ m.kind \in {"job", "deleted"} => n # Message("pending", m.job)
         /\ m.kind \in {"success", "failure"} => n.kind \notin {"job", "deleted"}
<1> DEFINE N == NumResources
<1>1. N \in Nat
  BY SyncAssumption
<1>2. ASSUME NEW x \in Messages0, x.kind = "job" PROVE Rank(x) = 2 * x.job.id + 1 /\ x.job.id \in 1..N /\ x.job.sync = NoSync
  BY <1>2 DEF Messages0, Announcement, Order, Removal, Ending, Report, Message, Rank, Ids
<1>3. ASSUME NEW x \in Messages0, x.kind = "deleted"
      PROVE  Rank(x) = 2 * (N + x.job.id) + 1 /\ x.job.id \in 1..N /\ x.job.sync # NoSync
  <2>1. x.job.id \in 1..N /\ x.job.sync \in Syncs
    BY <1>3 DEF Messages0, Announcement, Order, Removal, Ending, Report, Message, Ids
  <2>2. Rank(x) = 2 * (N + x.job.id) + 1
    BY <1>3 DEF Rank
  <2> QED BY <2>1, <2>2, SyncAssumption DEF Syncs, NoSync
<1>4. ASSUME NEW x \in Messages0, x.kind \in {"success", "failure"} PROVE Rank(x) = 4 * N + 2
  BY <1>4 DEF Rank
<1>5. ASSUME m.kind = "job", n = Message("pending", m.job) PROVE FALSE
  <2>1. n.kind = "pending" /\ n.job = m.job
    BY <1>5 DEF Message
  <2>2. m.job.sync = NoSync /\ Rank(m) = 2 * m.job.id + 1 /\ m.job.id \in 1..N
    BY <1>2, <1>5
  <2>3. n.kind = "pending" /\ n.job.sync = NoSync /\ n.job.id = m.job.id
    BY <2>1, <2>2
  <2>4. Rank(n) = 2 * m.job.id
    BY <2>3 DEF Rank
  <2> QED BY <2>2, <2>4
<1>6. ASSUME m.kind = "deleted", n = Message("pending", m.job) PROVE FALSE
  <2>1. n.kind = "pending" /\ n.job = m.job
    BY <1>6 DEF Message
  <2>2. Rank(n) = 2 * (N + m.job.id)
    BY <1>3, <1>6, <2>1 DEF Rank
  <2> QED BY <1>1, <1>3, <1>6, <2>2
<1>7. ASSUME m.kind \in {"success", "failure"}, n.kind \in {"job", "deleted"} PROVE FALSE
  BY <1>1, <1>2, <1>3, <1>4, <1>7
<1> QED BY <1>5, <1>6, <1>7

LEMMA PublishKeepsInv ==
  ASSUME SyncInv, NEW w \in Replicas, PublishNext(w) PROVE SyncInv'
<1>1. PICK m \in replica[w].out :
        /\ \A n \in replica[w].out : Rank(m) <= Rank(n)
        /\ announced' = announced \cup {j \in {m.job} : m.kind = "pending"}
        /\ queued' = queued \cup {j \in {m.job} : m.kind = "job"}
        /\ deleted' = deleted \cup {j \in {m.job} : m.kind = "deleted"}
        /\ replica'[w].out = replica[w].out \ {m}
  BY PublishKeepsTypes DEF SyncInv
<1>2. /\ SyncTypes' /\ OneStep(w) /\ replica'[w].at = replica[w].at /\ replica'[w].step = "publish"
  BY PublishKeepsTypes DEF SyncInv
<1>3. UNCHANGED <<commands, lock, catalog, snapshots>> /\ replica[w].step = "publish"
  BY DEF PublishNext
<1>4. /\ \A x \in Replicas \ {w} : replica'[x] = replica[x] /\ SyncOf(x)' = SyncOf(x)
      /\ SyncOf(w)' = SyncOf(w)
  BY <1>2, <1>3, OtherSyncs
<1>5. \A x \in Replicas \ {w} : replica[x].step \notin Holding /\ replica[x].out = {}
  BY <1>3, Alone DEF SyncInv, Holding
<1>6. replica[w].out \subseteq Messages0
  BY DEF SyncInv, SyncTypes
<1>7. \A n \in replica[w].out :
        /\ m.kind \in {"job", "deleted"} => n # Message("pending", m.job)
        /\ m.kind \in {"success", "failure"} => n.kind \notin {"job", "deleted"}
  BY <1>1, <1>6, RankOrder
<1>8. \A n \in replica[w].out : n.kind \in {"job", "deleted"} =>
        n.job \in announced \/ Message("pending", n.job) \in replica[w].out
  BY DEF SyncInv, AnnouncementsAhead
<1>9. /\ announced \subseteq announced' /\ queued \subseteq queued' /\ deleted \subseteq deleted'
      /\ m.kind = "pending" => m.job \in announced'
      /\ m.kind = "job" => m.job \in queued' /\ deleted' = deleted
      /\ m.kind = "deleted" => m.job \in deleted' /\ queued' = queued
      /\ queued' \subseteq queued \cup {m.job} /\ deleted' \subseteq deleted \cup {m.job}
      /\ m.kind \notin {"job", "deleted"} => queued' = queued /\ deleted' = deleted
  BY <1>1
<1>10. LockHeld'
  BY <1>2, <1>3, LockKept DEF Holding
<1>11. ObservedInCatalog'
  BY <1>2, <1>4, <1>5 DEF ObservedInCatalog, Holding
<1>12. AnnouncedFirst'
  <2>1. CASE m.kind \in {"job", "deleted"}
    BY <1>7, <1>8, <1>9, <2>1 DEF SyncInv, AnnouncedFirst
  <2>2. CASE m.kind \notin {"job", "deleted"}
    BY <1>9, <2>2 DEF SyncInv, AnnouncedFirst
  <2> QED BY <2>1, <2>2
<1>13. AnnouncementsAhead'
  <2> SUFFICES ASSUME NEW n \in replica'[w].out, n.kind \in {"job", "deleted"}
               PROVE  n.job \in announced' \/ Message("pending", n.job) \in replica'[w].out
    BY <1>4, <1>5 DEF AnnouncementsAhead
  <2>1. n \in replica[w].out
    BY <1>1
  <2>2. CASE n.job \in announced
    BY <1>9, <2>2
  <2>3. CASE Message("pending", n.job) \in replica[w].out /\ m # Message("pending", n.job)
    BY <1>1, <2>3
  <2>4. CASE m = Message("pending", n.job)
    BY <1>9, <2>4 DEF Message
  <2> QED BY <1>8, <2>1, <2>2, <2>3, <2>4
<1>14. TombstonesUnseen'
  BY <1>3 DEF SyncInv, TombstonesUnseen, Known
<1>15. \A n : n.kind \in {"job", "deleted"} =>
         /\ n.kind = "job" /\ Ahead(w, queued, n) => Ahead(w, queued, n)'
         /\ n.kind = "deleted" /\ Ahead(w, deleted, n) => Ahead(w, deleted, n)'
  BY <1>1, <1>9 DEF Ahead
<1>16. WorkAhead'
  <2> SUFFICES ASSUME Report("success") \in replica'[w].out
               PROVE  /\ snapshots[SyncOf(w)] # <<>>
                      /\ \A id \in Ids :
                           /\ Known(id) /\ ~catalog[id].gone /\ catalog[id].seen = SyncOf(w) =>
                                Ahead(w, queued, Message("job", Job(id, catalog[id].version)))'
                           /\ Known(id) /\ catalog[id].gone /\ catalog[id].changed = SyncOf(w) =>
                                Ahead(w, deleted, Message("deleted", Deletion(id, SyncOf(w))))'
    BY <1>3, <1>4, <1>5 DEF WorkAhead, Known
  <2>1. Report("success") \in replica[w].out
    BY <1>1
  <2>2. /\ snapshots[SyncOf(w)] # <<>>
        /\ \A id \in Ids :
             /\ Known(id) /\ ~catalog[id].gone /\ catalog[id].seen = SyncOf(w) =>
                  Ahead(w, queued, Message("job", Job(id, catalog[id].version)))
             /\ Known(id) /\ catalog[id].gone /\ catalog[id].changed = SyncOf(w) =>
                  Ahead(w, deleted, Message("deleted", Deletion(id, SyncOf(w))))
    BY <1>3, <2>1 DEF SyncInv, WorkAhead
  <2>3. \A j : Message("job", j).kind = "job" /\ Message("deleted", j).kind = "deleted"
    BY DEF Message
  <2>4. catalog' = catalog /\ SyncOf(w)' = SyncOf(w)
    BY <1>3, <1>4
  <2> QED BY <1>15, <2>2, <2>3, <2>4
<1> QED BY <1>2, <1>10, <1>11, <1>12, <1>13, <1>14, <1>16 DEF SyncInv

LEMMA SyncInvInit == Init => SyncInv
<1> SUFFICES ASSUME Init PROVE SyncInv
  OBVIOUS
<1>1. SyncTypes
  BY SyncTypesInit
<1>2. \A w \in Replicas : replica[w].step = "idle" /\ replica[w].out = {}
  BY IdleIsProcess DEF Init
<1>3. \A id \in Ids : ~Known(id)
  BY DEF Init, Known
<1>4. queued \cup deleted \subseteq announced
  BY DEF Init
<1> QED BY <1>1, <1>2, <1>3, <1>4
        DEF SyncInv, LockHeld, ObservedInCatalog, AnnouncementsAhead, AnnouncedFirst, TombstonesUnseen,
            WorkAhead

(* Everything a replica does, one action at a time.                        *)
LEMMA ReplicaKeepsInv ==
  ASSUME SyncInv, NEW w \in Replicas, SyncStep(w) \/ Crash(w) PROVE SyncInv'
<1>1. CASE Poll(w)
  <2>1. SyncTypes' /\ OneStep(w) /\ replica'[w].step = "polled" /\ replica'[w].out = {}
    BY <1>1, PollKeepsTypes DEF SyncInv
  <2>2. UNCHANGED <<commands, lock, catalog, snapshots, announced, queued, deleted>>
    BY <1>1 DEF Poll, topicVars
  <2>3. LockHeld'
    BY <2>1, <2>2, LockKept DEF Holding
  <2> QED BY <2>1, <2>2, <2>3, OutsideKeepsInv
<1>2. CASE Lock(w)
  <2>1. /\ SyncTypes' /\ OneStep(w) /\ replica'[w].out = {}
        /\ \/ replica'[w].step = "discover" /\ lock = NoReplica /\ lock' = w
           \/ replica'[w].step = "idle" /\ lock' = lock
    BY <1>2, LockKeepsTypes DEF SyncInv
  <2>2. UNCHANGED <<commands, catalog, snapshots, announced, queued, deleted>>
    BY <1>2 DEF Lock, topicVars
  <2>3. LockHeld'
    <3>1. CASE replica'[w].step = "idle" /\ lock' = lock
      BY <2>1, <3>1, LockKept DEF Holding
    <3>2. CASE lock = NoReplica /\ lock' = w
      <4>1. \A x \in Replicas \ {w} : replica'[x] = replica[x]
        BY <2>1 DEF OneStep
      <4>2. \A x \in Replicas : replica[x].step \notin Holding
        BY <3>2, SyncAssumption DEF SyncInv, LockHeld, Holding
      <4> QED BY <3>2, <4>1, <4>2 DEF LockHeld, Holding
    <3> QED BY <2>1, <3>1, <3>2
  <2> QED BY <2>1, <2>2, <2>3, OutsideKeepsInv
<1>3. CASE Discover(w) \/ ObserveBatch(w) \/ Complete(w) \/ PublishSnapshot(w) \/ PublishNext(w)
  BY <1>3, DiscoverKeepsInv, ObserveKeepsInv, CompleteKeepsInv, SnapshotKeepsInv, PublishKeepsInv
<1>4. CASE Unlock(w) \/ Commit(w) \/ Crash(w)
  <2>1. SyncTypes' /\ OneStep(w) /\ replica'[w].step \in {"idle", "commit"} /\ replica'[w].out = {}
    BY <1>4, EndKeepsTypes DEF SyncInv
  <2>2. UNCHANGED <<commands, catalog, snapshots, announced, queued, deleted>>
    BY <1>4 DEF Unlock, Commit, Crash, topicVars
  <2>3. lock' = lock \/ lock' = IF lock = w THEN NoReplica ELSE lock
    BY <1>4 DEF Unlock, Commit, Crash
  <2>4. replica'[w].step \notin Holding
    BY <2>1 DEF Holding
  <2>5. LockHeld'
    BY <2>1, <2>3, <2>4, LockKept
  <2> QED BY <2>1, <2>2, <2>5, OutsideKeepsInv
<1> QED BY <1>1, <1>2, <1>3, <1>4 DEF SyncStep

LEMMA SyncInvStep == SyncInv /\ [Next]_vars => SyncInv'
<1> SUFFICES ASSUME SyncInv, [Next]_vars PROVE SyncInv'
  OBVIOUS
<1>1. SyncTypes
  BY DEF SyncInv
<1>2. CASE \/ \E id \in Ids, v \in {Gone} \cup Versions : SourceChanges(id, v)
           \/ \E j \in queued : JobCompletes(j) \/ JobRunsAgain(j)
           \/ \E s \in Syncs : CommitSync(s)
           \/ UNCHANGED vars
  <2>1. SyncTypes'
    BY <1>1, <1>2, SurroundingsKeepTypes
  <2>2. UNCHANGED <<commands, replica, lock, catalog, snapshots, announced, queued, deleted>>
    BY <1>2 DEF SourceChanges, JobCompletes, JobRunsAgain, CommitSync, vars, topicVars
  <2> QED BY <2>1, <2>2, ElsewhereKeepsInv DEF SyncOf
<1>3. CASE \E s \in Syncs : DispatchSync(s)
  <2> PICK s \in Syncs : DispatchSync(s)
    BY <1>3
  <2>1. SyncTypes' /\ \A i \in 1..Len(commands) : commands'[i] = commands[i]
    BY <1>1, DispatchKeepsTypes
  <2>2. UNCHANGED <<replica, lock, catalog, snapshots, announced, queued, deleted>>
    BY DEF DispatchSync, topicVars
  <2>3. \A w \in Replicas : replica[w].step # "idle" => SyncOf(w)' = SyncOf(w)
    BY <1>1, <2>1, <2>2, SyncOfIsSync DEF SyncOf
  <2> QED BY <2>1, <2>2, <2>3, ElsewhereKeepsInv
<1>4. CASE ApplyMetadataResult
  <2>1. UNCHANGED <<commands, replica, lock, catalog, snapshots, announced, queued, deleted>>
    BY <1>4 DEF ApplyMetadataResult, topicVars
  <2> QED BY <1>1, <1>4, <2>1, ResultKeepsTypes, ElsewhereKeepsInv DEF SyncOf
<1> QED BY <1>2, <1>3, <1>4, ReplicaKeepsInv DEF Next

-----------------------------------------------------------------------------
(* All of it holds throughout: in particular the lock keeps replicas that  *)
(* were handed the same command apart (LockHeld), and what a sync has told *)
(* and has yet to tell together cover what it found (WorkAhead).           *)
THEOREM SyncInvariant == Spec => []SyncInv
  BY SyncInvInit, SyncInvStep, PTL DEF Spec

(* Types: a replica's position, the catalog rows and the topics stay well  *)
(* formed whatever crashes, rebalances and failed dispatches happen.       *)
THEOREM SyncTypeCorrect == Spec => []TypeOK
<1>1. SyncInv => TypeOK
  BY DEF SyncInv, SyncTypes
<1> QED BY <1>1, SyncInvariant, PTL

(* publishJobs writes the PENDING of a job before the job, and the one of  *)
(* a deletion before its DELETED; replays of half-published syncs and      *)
(* replicas that take them over keep that order.                           *)
THEOREM JobsAreAnnouncedFirst == Spec => []AnnouncedFirst
<1>1. SyncInv => AnnouncedFirst
  BY DEF SyncInv
<1> QED BY <1>1, SyncInvariant, PTL

(* What a sync has discovered and observed, Complete does not delete: of   *)
(* all runs of all replicas, none tombstones a resource it was shown.      *)
THEOREM NothingListedIsDeleted == Spec => OnlyMissingAreDeleted
<1>1. ASSUME SyncInv, [Next]_vars, NEW id \in Ids, ~catalog[id].gone, catalog'[id].gone
      PROVE  \E w \in Replicas :
               /\ replica[w].step = "observe" /\ replica'[w].step = "snapshot"
               /\ replica[w].seen[id] = Gone
  <2>1. \/ UNCHANGED catalog
        \/ \E w \in Replicas : ObserveBatch(w) \/ Complete(w)
    BY <1>1 DEF Next, SyncStep, SourceChanges, JobCompletes, JobRunsAgain, DispatchSync, CommitSync,
            ApplyMetadataResult, Poll, Lock, Discover, PublishSnapshot, PublishNext, Unlock, Commit,
            Crash, vars
  <2>2. PICK w \in Replicas : ObserveBatch(w) \/ Complete(w)
    BY <1>1, <2>1
  <2>3. CASE ObserveBatch(w)
    BY <1>1, <2>3 DEF ObserveBatch, Observed
  <2>4. CASE Complete(w)
    <3>1. replica[w].step = "observe" /\ replica[w].todo = {} /\ catalog[id].seen # SyncOf(w)
      BY <1>1, <2>4 DEF Complete
    <3>2. id \notin Listed(replica[w].seen)
      BY <1>1, <3>1 DEF SyncInv, ObservedInCatalog
    <3>3. replica'[w].step = "snapshot"
      BY <1>1, <2>4, CompleteKeepsTypes DEF SyncInv
    <3> QED BY <1>1, <3>1, <3>2, <3>3 DEF Listed
  <2> QED BY <2>2, <2>3, <2>4
<1>2. SyncInv /\ [Next]_vars =>
        [\A id \in Ids : ~catalog[id].gone /\ catalog'[id].gone =>
           \E w \in Replicas :
             /\ replica[w].step = "observe" /\ replica'[w].step = "snapshot"
             /\ replica[w].seen[id] = Gone]_vars
  BY <1>1
<1> QED BY <1>2, SyncInvariant, PTL DEF Spec, OnlyMissingAreDeleted

(* A success of a sync, reported to the orchestrator, comes after all of   *)
(* its work: snapshot, jobs and deletions, through any number of replays.  *)
THEOREM SuccessHasBeenEarned == Spec => SuccessIsEarned
<1>1. ASSUME SyncInv, [Next]_vars, NEW s \in Syncs, Len(syncResults') > Len(syncResults),
             syncResults'[Len(syncResults')] = [sync |-> s, status |-> "success"]
      PROVE  /\ snapshots[s] # <<>>
             /\ \A id \in Ids :
                  /\ Known(id) /\ ~catalog[id].gone /\ catalog[id].seen = s =>
                       Job(id, catalog[id].version) \in queued
                  /\ Known(id) /\ catalog[id].gone /\ catalog[id].changed = s =>
                       Deletion(id, s) \in deleted
  <2>1. syncResults \in Seq(Result) /\ Len(syncResults) \in Nat
    BY <1>1, LenProperties DEF SyncInv, SyncTypes
  <2>2. \/ UNCHANGED syncResults
        \/ ApplyMetadataResult
        \/ \E w \in Replicas : PublishNext(w)
    BY <1>1 DEF Next, SyncStep, SourceChanges, JobCompletes, JobRunsAgain, DispatchSync, CommitSync,
            Poll, Lock, Discover, ObserveBatch, Complete, PublishSnapshot, Unlock, Commit, Crash, vars
  <2>3. ~UNCHANGED syncResults
    BY <1>1, <2>1
  <2>4. ~ApplyMetadataResult
    <3>1. ASSUME ApplyMetadataResult PROVE FALSE
      <4>1. syncResults # <<>> /\ syncResults' = Tail(syncResults)
        BY <3>1 DEF ApplyMetadataResult
      <4>2. Len(syncResults') = Len(syncResults) - 1
        BY <2>1, <4>1, HeadTailProperties
      <4> QED BY <1>1, <2>1, <4>2
    <3> QED BY <3>1
  <2>5. PICK w \in Replicas : PublishNext(w)
    BY <2>2, <2>3, <2>4
  <2>6. PICK m \in replica[w].out :
          /\ \A n \in replica[w].out : Rank(m) <= Rank(n)
          /\ syncResults' = IF m.kind \in {"success", "failure"}
               THEN Append(syncResults, [sync |-> SyncOf(w), status |-> m.kind]) ELSE syncResults
    BY <2>5 DEF PublishNext
  <2>7. /\ replica[w].step = "publish" /\ replica[w].out \subseteq Messages0 /\ SyncOf(w) \in Syncs
    BY <1>1, <2>5, SyncOfIsSync DEF PublishNext, SyncInv, SyncTypes
  <2>8. m.kind \in {"success", "failure"}
    BY <2>3, <2>6
  <2>9. SyncOf(w) = s /\ m.kind = "success"
    <3> DEFINE r == [sync |-> SyncOf(w), status |-> m.kind]
    <3>1. r \in Result /\ r.sync = SyncOf(w) /\ r.status = m.kind
      BY <2>7, <2>8 DEF Result
    <3>2. syncResults' = Append(syncResults, r)
      BY <2>6, <2>8
    <3> HIDE DEF r
    <3>3. syncResults'[Len(syncResults')] = r
      BY <2>1, <3>1, <3>2, AppendProperties
    <3>4. r = [sync |-> s, status |-> "success"]
      BY <1>1, <3>3
    <3> QED BY <3>1, <3>4
  <2>10. Report("success") \in replica[w].out
    BY <2>7, <2>9 DEF Messages0, Announcement, Order, Removal, Ending
  <2>11. \A n \in replica[w].out : n.kind \notin {"job", "deleted"}
    BY <2>6, <2>7, <2>8, RankOrder
  <2>12. \A j : /\ Message("job", j) \notin replica[w].out /\ Message("job", j).job = j
                /\ Message("deleted", j) \notin replica[w].out /\ Message("deleted", j).job = j
    BY <2>11 DEF Message
  <2> QED BY <1>1, <2>7, <2>9, <2>10, <2>12 DEF SyncInv, WorkAhead, Ahead
<1>2. SyncInv /\ [Next]_vars =>
        [\A s \in Syncs :
           /\ Len(syncResults') > Len(syncResults)
           /\ syncResults'[Len(syncResults')] = [sync |-> s, status |-> "success"]
           => /\ snapshots[s] # <<>>
              /\ \A id \in Ids :
                   /\ Known(id) /\ ~catalog[id].gone /\ catalog[id].seen = s =>
                        Job(id, catalog[id].version) \in queued
                   /\ Known(id) /\ catalog[id].gone /\ catalog[id].changed = s =>
                        Deletion(id, s) \in deleted]_vars
  BY <1>1
<1> QED BY <1>2, SyncInvariant, PTL DEF Spec, SuccessIsEarned

=============================================================================
