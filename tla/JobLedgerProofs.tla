--------------------------- MODULE JobLedgerProofs ---------------------------
(***************************************************************************)
(* Theorems about the job ledger for every set of jobs, resources and      *)
(* labels and every parent structure the assumptions allow.                *)
(*                                                                         *)
(* Each part of IInv is inductive relative to TypeOK, so the parts are     *)
(* proved one by one, each with one step per transaction.  The handlers of *)
(* the three top-level outcomes share one step: OutcomeStep is all that    *)
(* the parts need to know of them.                                         *)
(***************************************************************************)
EXTENDS JobLedger, TLAPS

OutcomeStep(j, s) ==
  /\ Open(j) /\ TopLevel(j)
  /\ Finish(j, s)
  /\ \E L \in SUBSET Labels : labels' = [labels EXCEPT ![ResourceOf[j]] = L]
  /\ \E d \in Delimiters \cup {NoDelimiter} : csvHint' = [csvHint EXCEPT ![ResourceOf[j]] = d]
  /\ UNCHANGED <<instances, reopens>>

(* Relabelling with labels of the ledger stays within its labels.          *)
LEMMA RelabelTyped ==
  ASSUME TypeOK, NEW j \in Jobs, NEW removed, NEW added \in SUBSET Labels, Relabel(j, removed, added)
  PROVE  \E L \in SUBSET Labels : labels' = [labels EXCEPT ![ResourceOf[j]] = L]
  <1> DEFINE L == (labels[ResourceOf[j]] \ removed) \cup added
  <1>1. ResourceOf[j] \in Resources
    BY JobsAssumption
  <1>2. labels[ResourceOf[j]] \in SUBSET Labels
    BY <1>1 DEF TypeOK
  <1>3. L \in SUBSET Labels
    BY <1>2
  <1>4. labels' = [labels EXCEPT ![ResourceOf[j]] = L]
    BY <1>1, <1>2 DEF Relabel, TypeOK
  <1>5. QED
    BY <1>3, <1>4

(* Every handler of a top-level outcome is an outcome step.                *)
LEMMA OutcomeSteps ==
  ASSUME TypeOK, NEW j \in Jobs, ApplyOutcome(j)
  PROVE  \E s \in Terminals : OutcomeStep(j, s)
  <1>1. ResourceOf[j] \in Resources
    BY JobsAssumption
  <1>2. /\ csvHint[ResourceOf[j]] \in Delimiters \cup {NoDelimiter}
        /\ csvHint = [csvHint EXCEPT ![ResourceOf[j]] = csvHint[ResourceOf[j]]]
    BY <1>1 DEF TypeOK
  <1>3. ASSUME NEW codes \in {{}} \cup {{c} : c \in HttpLabels}, ApplyFailed(j, codes)
        PROVE  OutcomeStep(j, "failed")
    <2>1. codes \in SUBSET Labels
      BY DEF Labels
    <2>2. \E L \in SUBSET Labels : labels' = [labels EXCEPT ![ResourceOf[j]] = L]
      BY <1>3, <2>1, RelabelTyped DEF ApplyFailed
    <2>3. QED
      BY <1>2, <1>3, <2>2 DEF ApplyFailed, OutcomeStep
  <1>4. ASSUME ApplyDeleted(j)
        PROVE  OutcomeStep(j, "deleted")
    <2>1. \E L \in SUBSET Labels : labels' = [labels EXCEPT ![ResourceOf[j]] = L]
      BY <1>4, RelabelTyped DEF ApplyDeleted
    <2>2. QED
      BY <1>2, <1>4, <2>1 DEF ApplyDeleted, OutcomeStep
  <1>5. ASSUME NEW d \in Delimiters \cup {NoDelimiter}, PutCSVHint(j, d)
        PROVE  \E e \in Delimiters \cup {NoDelimiter} : csvHint' = [csvHint EXCEPT ![ResourceOf[j]] = e]
    BY <1>2, <1>5 DEF PutCSVHint
  <1>6. ASSUME NEW d \in Delimiters \cup {NoDelimiter}, ApplySuccessEmpty(j, d)
        PROVE  OutcomeStep(j, "completed")
    <2>1. \E L \in SUBSET Labels : labels' = [labels EXCEPT ![ResourceOf[j]] = L]
      BY <1>6, RelabelTyped DEF ApplySuccessEmpty, Labels
    <2>2. QED
      BY <1>5, <1>6, <2>1 DEF ApplySuccessEmpty, OutcomeStep
  <1>7. ASSUME NEW d \in Delimiters \cup {NoDelimiter}, NEW added \in SUBSET DataLabels,
               ApplySuccessRows(j, d, added)
        PROVE  OutcomeStep(j, "completed")
    <2>1. added \in SUBSET Labels
      BY DEF Labels
    <2>2. \E L \in SUBSET Labels : labels' = [labels EXCEPT ![ResourceOf[j]] = L]
      BY <1>7, <2>1, RelabelTyped DEF ApplySuccessRows
    <2>3. QED
      BY <1>5, <1>7, <2>2 DEF ApplySuccessRows, OutcomeStep
  <1>8. QED
    BY <1>3, <1>4, <1>6, <1>7 DEF ApplyOutcome, Terminals

(* updateLatest changes the status of its own job's row and nothing else.  *)
LEMMA UpdateLatestEffect ==
  ASSUME TypeOK, NEW j \in Jobs, NEW s \in LatestStatus, UpdateLatest(j, s)
  PROVE  /\ latest' \in [Resources -> [job : Jobs \cup {NoJob}, status : LatestStatus]]
         /\ \A r \in Resources :
              /\ latest'[r].job = latest[r].job
              /\ latest'[r].status = IF latest[r].job = j /\ ResourceOf[j] = r
                                       THEN s ELSE latest[r].status
  <1>1. /\ ResourceOf[j] \in Resources
        /\ latest \in [Resources -> [job : Jobs \cup {NoJob}, status : LatestStatus]]
    BY JobsAssumption DEF TypeOK
  <1>2. CASE latest[ResourceOf[j]].job = j
    <2> DEFINE row == [latest[ResourceOf[j]] EXCEPT !.status = s]
    <2>1. row \in [job : Jobs \cup {NoJob}, status : LatestStatus]
      BY <1>1
    <2>2. row.job = latest[ResourceOf[j]].job /\ row.status = s
      BY <1>1
    <2>3. latest' = [latest EXCEPT ![ResourceOf[j]] = row]
      BY <1>1, <1>2 DEF UpdateLatest
    <2>4. QED
      BY <1>1, <1>2, <2>1, <2>2, <2>3
  <1>3. CASE latest[ResourceOf[j]].job # j
    BY <1>1, <1>3 DEF UpdateLatest
  <1>4. QED
    BY <1>2, <1>3

-----------------------------------------------------------------------------
(* Every table row keeps a value its column allows.                        *)
THEOREM TypeCorrect == Spec => []TypeOK
  <1>1. Init => TypeOK
    BY BoundsAssumption DEF Init, TypeOK, JobStatus, LatestStatus, Terminals, NoLatest, NoTerminal, Labels
  <1>2. TypeOK /\ [Next]_vars => TypeOK'
    <2> SUFFICES ASSUME TypeOK, [Next]_vars
                 PROVE  TypeOK'
      OBVIOUS
    <2>0. \A j \in Jobs : ResourceOf[j] \in Resources
      BY JobsAssumption
    <2>1. ASSUME NEW j \in Jobs, ApplyPending(j)
          PROVE  TypeOK'
      <3>1. ResourceStatus(terminal[ResourceOf[j]]) \in LatestStatus
        BY DEF ResourceStatus, LatestStatus, Terminals
      <3>2. latest' \in [Resources -> [job : Jobs \cup {NoJob}, status : LatestStatus]]
        BY <2>0, <2>1, <3>1 DEF ApplyPending, TypeOK
      <3>3. QED
        BY <2>1, <3>2 DEF ApplyPending, SetJob, TypeOK, JobStatus
    <2>2. ASSUME NEW j \in Jobs, ApplyProcessing(j)
          PROVE  TypeOK'
      <3>1. latest' \in [Resources -> [job : Jobs \cup {NoJob}, status : LatestStatus]]
        BY <2>2, UpdateLatestEffect DEF ApplyProcessing, TypeOK, LatestStatus
      <3>2. reopens' \in [Jobs -> Nat]
        BY <2>2 DEF ApplyProcessing, TypeOK
      <3>3. QED
        BY <2>2, <3>1, <3>2 DEF ApplyProcessing, SetJob, TypeOK, JobStatus
    <2>3. ASSUME NEW j \in Jobs, NEW s \in Terminals, AddResult(j, s) 
          PROVE  results' \in [Jobs -> [Terminals -> Nat]]
      BY <2>3 DEF AddResult, TypeOK
    <2>4. ASSUME NEW j \in Jobs, NEW s \in Terminals, ApplyChildTerminal(j, s)
          PROVE  TypeOK'
      <3>1. results' \in [Jobs -> [Terminals -> Nat]]
        BY <2>3, <2>4 DEF ApplyChildTerminal
      <3>2. jobs' \in [Jobs -> JobStatus]
        BY <2>4 DEF ApplyChildTerminal, SetJob, TypeOK, JobStatus
      <3>3. QED
        BY <2>4, <3>1, <3>2 DEF ApplyChildTerminal, resourceVars, TypeOK
    <2>5. ASSUME NEW j \in Jobs, NEW s \in Terminals, OutcomeStep(j, s)
          PROVE  TypeOK'
      <3>1. latest' \in [Resources -> [job : Jobs \cup {NoJob}, status : LatestStatus]]
        BY <2>5, UpdateLatestEffect DEF OutcomeStep, Finish, LatestStatus
      <3>2. terminal' \in [Resources -> [job : Jobs \cup {NoJob}, status : Terminals,
                                         successful : Jobs \cup {NoJob}]]
        BY <2>0, <2>5 DEF OutcomeStep, Finish, PutTerminal, TypeOK
      <3>3. labels' \in [Resources -> SUBSET Labels]
        BY <2>0, <2>5 DEF OutcomeStep, TypeOK
      <3>4. csvHint' \in [Resources -> Delimiters \cup {NoDelimiter}]
        BY <2>0, <2>5 DEF OutcomeStep, TypeOK
      <3>5. jobs' \in [Jobs -> JobStatus]
        BY <2>5 DEF OutcomeStep, Finish, SetJob, TypeOK, JobStatus
      <3>6. QED
        BY <2>3, <2>5, <3>1, <3>2, <3>3, <3>4, <3>5 DEF OutcomeStep, Finish, TypeOK
    <2>6. ASSUME NEW i \in Instances, CreateInstance(i) \/ DeleteInstance(i)
          PROVE  TypeOK'
      BY <2>6 DEF CreateInstance, DeleteInstance, resourceVars, TypeOK
    <2>7. CASE UNCHANGED vars
      BY <2>7 DEF vars, TypeOK
    <2>8. QED
      BY <2>1, <2>2, <2>4, <2>5, <2>6, <2>7, OutcomeSteps DEF Next, ApplyResult
  <1>3. QED
    BY <1>1, <1>2, PTL DEF Spec

-----------------------------------------------------------------------------
(* The resource row always shows its newest job, whatever late results of  *)
(* older jobs are applied (the guard of updateLatest).                     *)
THEOREM LatestRowIsTheNewestJob == Spec => []LatestFollowsJob
  <1>1. Init => LatestFollowsJob
    BY DEF Init, LatestFollowsJob, NoLatest, Known
  <1>2. TypeOK /\ LatestFollowsJob /\ [Next]_vars => LatestFollowsJob'
    <2> SUFFICES ASSUME TypeOK, LatestFollowsJob, [Next]_vars
                 PROVE  LatestFollowsJob'
      OBVIOUS
    <2>0. /\ NoJob \notin Jobs
          /\ \A j \in Jobs : ResourceOf[j] \in Resources
      BY JobsAssumption
    <2>1. ASSUME NEW j \in Jobs, ApplyPending(j)
          PROVE  LatestFollowsJob'
      <3>1. ResourceStatus(terminal[ResourceOf[j]]) \in {"pending", "failed", "outdated"}
        BY DEF ResourceStatus
      <3>2. \A k \in Jobs : Known(k) => k # j
        BY <2>1 DEF ApplyPending
      <3>3. /\ jobs' = [jobs EXCEPT ![j] = "pending"]
            /\ latest' = IF TopLevel(j)
                 THEN [latest EXCEPT ![ResourceOf[j]] =
                        [job |-> j, status |-> ResourceStatus(terminal[ResourceOf[j]])]]
                 ELSE latest
        BY <2>1 DEF ApplyPending, SetJob
      <3>4. QED
        BY <2>0, <3>1, <3>2, <3>3 DEF LatestFollowsJob, TypeOK, Known, TopLevel
    <2>2. ASSUME NEW j \in Jobs, NEW s \in {"processing"} \cup Terminals, Known(j),
                 jobs' = [jobs EXCEPT ![j] = s],
                 IF TopLevel(j) THEN UpdateLatest(j, s) ELSE UNCHANGED latest
          PROVE  LatestFollowsJob'
      <3>1. ASSUME NEW r \in Resources
            PROVE  /\ latest'[r].job = latest[r].job
                   /\ latest'[r].status = IF latest[r].job = j /\ TopLevel(j) /\ ResourceOf[j] = r
                                            THEN s ELSE latest[r].status
        <4>1. s \in LatestStatus
          BY DEF LatestStatus
        <4>2. QED
          BY <2>2, <4>1, UpdateLatestEffect
      <3>2. \A k \in Jobs : jobs'[k] = IF k = j THEN s ELSE jobs[k]
        BY <2>2 DEF TypeOK
      <3>3. s # "absent" /\ s # "pending"
        BY DEF Terminals
      <3>4. QED
        BY <2>0, <2>2, <3>1, <3>2, <3>3 DEF LatestFollowsJob, TypeOK, Known, TopLevel
    <2>3. ASSUME NEW j \in Jobs, ApplyProcessing(j)
          PROVE  LatestFollowsJob'
      BY <2>2, <2>3 DEF ApplyProcessing, SetJob
    <2>4. ASSUME NEW j \in Jobs, NEW s \in Terminals, ApplyChildTerminal(j, s)
          PROVE  LatestFollowsJob'
      BY <2>2, <2>4 DEF ApplyChildTerminal, Open, Known, SetJob, resourceVars
    <2>5. ASSUME NEW j \in Jobs, NEW s \in Terminals, OutcomeStep(j, s)
          PROVE  LatestFollowsJob'
      BY <2>2, <2>5 DEF OutcomeStep, Finish, Open, Known, SetJob
    <2>6. ASSUME NEW i \in Instances, CreateInstance(i) \/ DeleteInstance(i)
          PROVE  LatestFollowsJob'
      BY <2>6 DEF CreateInstance, DeleteInstance, resourceVars, LatestFollowsJob, Known
    <2>7. CASE UNCHANGED vars
      BY <2>7 DEF vars, LatestFollowsJob, Known
    <2>8. QED
      BY <2>1, <2>3, <2>4, <2>5, <2>6, <2>7, OutcomeSteps DEF Next, ApplyResult
  <1>3. QED
    BY <1>1, <1>2, TypeCorrect, PTL DEF Spec

-----------------------------------------------------------------------------
(* How a step changes the result rows of a job: not at all, or by one more *)
(* row, and then the job was open and has ended.                           *)
LEMMA AddResultAddsOne ==
  ASSUME TypeOK, NEW j \in Jobs, NEW s \in Terminals, AddResult(j, s)
  PROVE  /\ \A k \in Jobs : \A u \in Terminals :
              results'[k][u] = IF k = j /\ u = s THEN results[k][u] + 1 ELSE results[k][u]
         /\ \A k \in Jobs : Outcomes(k)' = Outcomes(k) + (IF k = j THEN 1 ELSE 0)
  <1>1. \A k \in Jobs : \A u \in Terminals : results[k][u] \in Nat
    BY DEF TypeOK
  <1>2. \A k \in Jobs : \A u \in Terminals :
          results'[k][u] = IF k = j /\ u = s THEN results[k][u] + 1 ELSE results[k][u]
    BY DEF AddResult, TypeOK
  <1>3. QED
    BY <1>1, <1>2 DEF Outcomes, Terminals

(* Redelivery never duplicates a result row: the guards of the handlers    *)
(* and the reopening by PROCESSING account for every row.                  *)
THEOREM OneResultRowPerAttempt == Spec => []OneResultPerAttempt
  <1>1. Init => OneResultPerAttempt
    BY DEF Init, OneResultPerAttempt, Outcomes, Terminals
  <1>2. TypeOK /\ OneResultPerAttempt /\ [Next]_vars => OneResultPerAttempt'
    <2> SUFFICES ASSUME TypeOK, OneResultPerAttempt, [Next]_vars
                 PROVE  OneResultPerAttempt'
      OBVIOUS
    <2>1. ASSUME NEW j \in Jobs, ApplyPending(j)
          PROVE  OneResultPerAttempt'
      <3>1. \A k \in Jobs : (jobs'[k] \in Terminals) <=> (jobs[k] \in Terminals)
        BY <2>1 DEF ApplyPending, SetJob, Known, TypeOK, Terminals
      <3>2. QED
        BY <2>1, <3>1 DEF ApplyPending, OneResultPerAttempt, Outcomes
    <2>2. ASSUME NEW j \in Jobs, ApplyProcessing(j)
          PROVE  OneResultPerAttempt'
      <3>1. \A k \in Jobs : Outcomes(k)' = Outcomes(k)
        BY <2>2 DEF ApplyProcessing, Outcomes
      <3>2. \A k \in Jobs \ {j} : jobs'[k] = jobs[k] /\ reopens'[k] = reopens[k]
        BY <2>2 DEF ApplyProcessing, SetJob, TypeOK
      <3>3. /\ jobs'[j] \notin Terminals
            /\ reopens'[j] = IF jobs[j] \in Terminals THEN reopens[j] + 1 ELSE reopens[j]
        BY <2>2 DEF ApplyProcessing, SetJob, TypeOK, Terminals
      <3>4. \A k \in Jobs : reopens[k] \in Nat
        BY DEF TypeOK
      <3>5. QED
        BY <3>1, <3>2, <3>3, <3>4 DEF OneResultPerAttempt
    <2>3. ASSUME NEW j \in Jobs, NEW s \in Terminals, Open(j), AddResult(j, s), SetJob(j, s),
                 UNCHANGED reopens
          PROVE  OneResultPerAttempt'
      <3>1. \A k \in Jobs : Outcomes(k)' = Outcomes(k) + (IF k = j THEN 1 ELSE 0)
        BY <2>3, AddResultAddsOne
      <3>2. jobs[j] \notin Terminals /\ jobs'[j] \in Terminals
        BY <2>3 DEF Open, SetJob, TypeOK, Terminals
      <3>3. \A k \in Jobs \ {j} : jobs'[k] = jobs[k]
        BY <2>3 DEF SetJob, TypeOK
      <3>4. \A k \in Jobs : reopens[k] \in Nat
        BY DEF TypeOK
      <3>5. QED
        BY <2>3, <3>1, <3>2, <3>3, <3>4 DEF OneResultPerAttempt
    <2>4. ASSUME NEW j \in Jobs, NEW s \in Terminals, ApplyChildTerminal(j, s)
          PROVE  OneResultPerAttempt'
      BY <2>3, <2>4 DEF ApplyChildTerminal
    <2>5. ASSUME NEW j \in Jobs, NEW s \in Terminals, OutcomeStep(j, s)
          PROVE  OneResultPerAttempt'
      BY <2>3, <2>5 DEF OutcomeStep, Finish
    <2>6. ASSUME NEW i \in Instances, CreateInstance(i) \/ DeleteInstance(i)
          PROVE  OneResultPerAttempt'
      BY <2>6 DEF CreateInstance, DeleteInstance, resourceVars, OneResultPerAttempt, Outcomes
    <2>7. CASE UNCHANGED vars
      BY <2>7 DEF vars, OneResultPerAttempt, Outcomes
    <2>8. QED
      BY <2>1, <2>2, <2>4, <2>5, <2>6, <2>7, OutcomeSteps DEF Next, ApplyResult
  <1>3. QED
    BY <1>1, <1>2, TypeCorrect, PTL DEF Spec

-----------------------------------------------------------------------------
(* The terminal row quotes recorded results only: rows of results only     *)
(* grow, and putTerminal runs with the result it names.                    *)
THEOREM TerminalRowIsBacked == Spec => []TerminalIsBacked
  <1>1. Init => TerminalIsBacked
    BY DEF Init, TerminalIsBacked, NoTerminal
  <1>2. TypeOK /\ TerminalIsBacked /\ [Next]_vars => TerminalIsBacked'
    <2> SUFFICES ASSUME TypeOK, TerminalIsBacked, [Next]_vars
                 PROVE  TerminalIsBacked'
      OBVIOUS
    <2>0. /\ NoJob \notin Jobs
          /\ \A j \in Jobs : ResourceOf[j] \in Resources
          /\ \A k \in Jobs : \A u \in Terminals : results[k][u] \in Nat
          /\ \A r \in Resources : /\ terminal[r].job \in Jobs \cup {NoJob}
                                  /\ terminal[r].successful \in Jobs \cup {NoJob}
                                  /\ terminal[r].status \in Terminals
      BY JobsAssumption DEF TypeOK
    <2>1. ASSUME UNCHANGED <<terminal, results>>
          PROVE  TerminalIsBacked'
      BY <2>1 DEF TerminalIsBacked, TopLevel
    <2>2. ASSUME NEW j \in Jobs, NEW s \in Terminals, ApplyChildTerminal(j, s)
          PROVE  TerminalIsBacked'
      <3>1. terminal' = terminal
        BY <2>2 DEF ApplyChildTerminal, resourceVars
      <3>2. \A k \in Jobs : \A u \in Terminals : results'[k][u] \in Nat /\ results'[k][u] >= results[k][u]
        BY <2>0, <2>2, AddResultAddsOne DEF ApplyChildTerminal
      <3>3. QED
        BY <2>0, <3>1, <3>2 DEF TerminalIsBacked, TopLevel, Terminals
    <2>3. ASSUME NEW j \in Jobs, NEW s \in Terminals, OutcomeStep(j, s)
          PROVE  TerminalIsBacked'
      <3>1. \A k \in Jobs : \A u \in Terminals : results'[k][u] \in Nat /\ results'[k][u] >= results[k][u]
        BY <2>0, <2>3, AddResultAddsOne DEF OutcomeStep, Finish
      <3>2. results'[j][s] > 0
        BY <2>0, <2>3, AddResultAddsOne DEF OutcomeStep, Finish
      <3>3. ASSUME NEW r \in Resources, r # ResourceOf[j]
            PROVE  terminal'[r] = terminal[r]
        BY <2>3, <3>3 DEF OutcomeStep, Finish, PutTerminal, TypeOK
      <3>4. terminal'[ResourceOf[j]] =
              [job |-> j, status |-> s,
               successful |-> IF s = "completed" THEN j ELSE terminal[ResourceOf[j]].successful]
        BY <2>0, <2>3 DEF OutcomeStep, Finish, PutTerminal, TypeOK
      <3>5. TopLevel(j)
        BY <2>3 DEF OutcomeStep
      <3>6. QED
        BY <2>0, <3>1, <3>2, <3>3, <3>4, <3>5 DEF TerminalIsBacked, TopLevel, Terminals
    <2>4. QED
      BY <2>1, <2>2, <2>3, OutcomeSteps
      DEF Next, ApplyResult, ApplyPending, ApplyProcessing, CreateInstance, DeleteInstance, resourceVars, vars
  <1>3. QED
    BY <1>1, <1>2, TypeCorrect, PTL DEF Spec

-----------------------------------------------------------------------------
(* Labels that describe an outcome never contradict the last result of     *)
(* their resource: each handler clears the labels of the other outcomes.   *)
THEOREM LabelsFollowOutcomes == Spec => []OutcomeLabelsAgree
  <1>1. Init => OutcomeLabelsAgree
    BY DEF Init, OutcomeLabelsAgree
  <1>2. TypeOK /\ OutcomeLabelsAgree /\ [Next]_vars => OutcomeLabelsAgree'
    <2> SUFFICES ASSUME TypeOK, OutcomeLabelsAgree, [Next]_vars
                 PROVE  OutcomeLabelsAgree'
      OBVIOUS
    <2>0. /\ NoJob \notin Jobs
          /\ \A j \in Jobs : ResourceOf[j] \in Resources
          /\ EmptyLabel \notin HttpLabels /\ EmptyLabel \notin DataLabels
          /\ HttpLabels \cap DataLabels = {}
      BY JobsAssumption, LabelsAssumption
    <2>1. ASSUME UNCHANGED <<terminal, labels>>
          PROVE  OutcomeLabelsAgree'
      BY <2>1 DEF OutcomeLabelsAgree
    <2>2. ASSUME NEW j \in Jobs, NEW s \in Terminals, NEW L,
                 PutTerminal(j, s), labels' = [labels EXCEPT ![ResourceOf[j]] = L],
                 EmptyLabel \in L => s = "completed",
                 \A c \in HttpLabels \cap L : s = "failed" /\ HttpLabels \cap L = {c}
          PROVE  OutcomeLabelsAgree'
      <3>1. ASSUME NEW r \in Resources, r # ResourceOf[j]
            PROVE  terminal'[r] = terminal[r] /\ labels'[r] = labels[r]
        BY <2>2, <3>1 DEF PutTerminal, TypeOK
      <3>2. /\ terminal'[ResourceOf[j]].job = j
            /\ terminal'[ResourceOf[j]].status = s
            /\ labels'[ResourceOf[j]] = L
        BY <2>0, <2>2 DEF PutTerminal, TypeOK
      <3>3. QED
        BY <2>0, <2>2, <3>1, <3>2 DEF OutcomeLabelsAgree
    <2>3. ASSUME NEW j \in Jobs, NEW codes \in {{}} \cup {{c} : c \in HttpLabels}, ApplyFailed(j, codes)
          PROVE  OutcomeLabelsAgree'
      <3> DEFINE L == (labels[ResourceOf[j]] \ ({EmptyLabel} \cup HttpLabels)) \cup codes
      <3>1. labels' = [labels EXCEPT ![ResourceOf[j]] = L]
        BY <2>3 DEF ApplyFailed, Relabel
      <3>2. EmptyLabel \notin L /\ \A c \in HttpLabels \cap L : HttpLabels \cap L = {c}
        BY <2>0
      <3>3. "failed" \in Terminals
        BY DEF Terminals
      <3>4. PutTerminal(j, "failed")
        BY <2>3 DEF ApplyFailed, Finish
      <3> HIDE DEF L
      <3>5. QED
        BY <2>2, <3>1, <3>2, <3>3, <3>4
    <2>4. ASSUME NEW j \in Jobs, ApplyDeleted(j)
          PROVE  OutcomeLabelsAgree'
      <3> DEFINE L == labels[ResourceOf[j]] \ ({EmptyLabel} \cup HttpLabels)
      <3>1. labels' = [labels EXCEPT ![ResourceOf[j]] = L]
        BY <2>4 DEF ApplyDeleted, Relabel
      <3>2. EmptyLabel \notin L /\ HttpLabels \cap L = {}
        OBVIOUS
      <3>3. "deleted" \in Terminals
        BY DEF Terminals
      <3>4. PutTerminal(j, "deleted")
        BY <2>4 DEF ApplyDeleted, Finish
      <3> HIDE DEF L
      <3>5. QED
        BY <2>2, <3>1, <3>2, <3>3, <3>4
    <2>5. ASSUME NEW j \in Jobs, NEW removed, NEW added,
                 HttpLabels \subseteq removed, added \cap HttpLabels = {},
                 Relabel(j, removed, added), PutTerminal(j, "completed")
          PROVE  OutcomeLabelsAgree'
      <3> DEFINE L == (labels[ResourceOf[j]] \ removed) \cup added
      <3>1. labels' = [labels EXCEPT ![ResourceOf[j]] = L]
        BY <2>5 DEF Relabel
      <3>2. HttpLabels \cap L = {}
        BY <2>5
      <3>3. "completed" \in Terminals
        BY DEF Terminals
      <3> HIDE DEF L
      <3>4. QED
        BY <2>2, <2>5, <3>1, <3>2, <3>3
    <2>6. ASSUME NEW j \in Jobs, NEW d \in Delimiters \cup {NoDelimiter}, ApplySuccessEmpty(j, d)
          PROVE  OutcomeLabelsAgree'
      <3>1. {EmptyLabel} \cap HttpLabels = {}
        BY <2>0
      <3>2. QED
        BY <2>5, <2>6, <3>1 DEF ApplySuccessEmpty, Finish
    <2>7. ASSUME NEW j \in Jobs, NEW d \in Delimiters \cup {NoDelimiter},
                 NEW added \in SUBSET DataLabels, ApplySuccessRows(j, d, added)
          PROVE  OutcomeLabelsAgree'
      <3>1. added \cap HttpLabels = {} /\ HttpLabels \subseteq {EmptyLabel} \cup HttpLabels
        BY <2>0
      <3>2. QED
        BY <2>5, <2>7, <3>1 DEF ApplySuccessRows, Finish
    <2>8. QED
      BY <2>1, <2>3, <2>4, <2>6, <2>7
      DEF Next, ApplyResult, ApplyOutcome, ApplyPending, ApplyProcessing, ApplyChildTerminal,
          CreateInstance, DeleteInstance, resourceVars, vars
  <1>3. QED
    BY <1>1, <1>2, TypeCorrect, PTL DEF Spec

-----------------------------------------------------------------------------
(* No result of a child reaches the resource tables, because every write   *)
(* to them is on the resource of a top-level job.                          *)
THEOREM ChildrenStayUnlisted == Spec => []ChildrenAreUnlisted
  <1>1. Init => ChildrenAreUnlisted
    BY JobsAssumption DEF Init, ChildrenAreUnlisted
  <1>2. TypeOK /\ ChildrenAreUnlisted /\ [Next]_vars => ChildrenAreUnlisted'
    <2> SUFFICES ASSUME TypeOK, ChildrenAreUnlisted, [Next]_vars
                 PROVE  ChildrenAreUnlisted'
      OBVIOUS
    <2>1. ASSUME NEW j \in Jobs, TopLevel(j),
                 \A r \in Resources \ {ResourceOf[j]} :
                   latest'[r] = latest[r] /\ terminal'[r] = terminal[r] /\ labels'[r] = labels[r]
          PROVE  ChildrenAreUnlisted'
      <3>1. \A k \in Jobs : ~TopLevel(k) => ResourceOf[k] \in Resources \ {ResourceOf[j]}
        BY <2>1, JobsAssumption
      <3>2. QED
        BY <2>1, <3>1 DEF ChildrenAreUnlisted, TopLevel
    <2>2. ASSUME UNCHANGED <<latest, terminal, labels>>
          PROVE  ChildrenAreUnlisted'
      BY <2>2 DEF ChildrenAreUnlisted, TopLevel
    <2>3. ASSUME NEW j \in Jobs, ApplyPending(j)
          PROVE  ChildrenAreUnlisted'
      <3>1. CASE TopLevel(j)
        BY <2>1, <2>3, <3>1 DEF ApplyPending, TypeOK
      <3>2. CASE ~TopLevel(j)
        BY <2>2, <2>3, <3>2 DEF ApplyPending
      <3>3. QED
        BY <3>1, <3>2
    <2>4. ASSUME NEW j \in Jobs, NEW s, UpdateLatest(j, s)
          PROVE  \A r \in Resources \ {ResourceOf[j]} : latest'[r] = latest[r]
      BY <2>4 DEF UpdateLatest, TypeOK
    <2>5. ASSUME NEW j \in Jobs, ApplyProcessing(j)
          PROVE  ChildrenAreUnlisted'
      <3>1. CASE TopLevel(j)
        BY <2>1, <2>4, <2>5, <3>1 DEF ApplyProcessing
      <3>2. CASE ~TopLevel(j)
        BY <2>2, <2>5, <3>2 DEF ApplyProcessing
      <3>3. QED
        BY <3>1, <3>2
    <2>6. ASSUME NEW j \in Jobs, NEW s \in Terminals, OutcomeStep(j, s)
          PROVE  ChildrenAreUnlisted'
      <3>1. \A r \in Resources \ {ResourceOf[j]} : terminal'[r] = terminal[r]
        BY <2>6 DEF OutcomeStep, Finish, PutTerminal, TypeOK
      <3>2. \A r \in Resources \ {ResourceOf[j]} : labels'[r] = labels[r]
        BY <2>6 DEF OutcomeStep, TypeOK
      <3>3. \A r \in Resources \ {ResourceOf[j]} : latest'[r] = latest[r]
        BY <2>4, <2>6 DEF OutcomeStep, Finish
      <3>4. QED
        BY <2>1, <2>6, <3>1, <3>2, <3>3 DEF OutcomeStep
    <2>7. QED
      BY <2>2, <2>3, <2>5, <2>6, OutcomeSteps
      DEF Next, ApplyResult, ApplyChildTerminal, CreateInstance, DeleteInstance, resourceVars, vars
  <1>3. QED
    BY <1>1, <1>2, TypeCorrect, PTL DEF Spec

-----------------------------------------------------------------------------
(* No stored job loses its instance or its parent: announcements check     *)
(* both, and an instance goes only without jobs.                           *)
THEOREM StoredJobsHaveOwners == Spec => []NoOrphans
  <1>1. Init => NoOrphans
    BY DEF Init, NoOrphans, Known
  <1>2. TypeOK /\ NoOrphans /\ [Next]_vars => NoOrphans'
    <2> SUFFICES ASSUME TypeOK, NoOrphans, [Next]_vars
                 PROVE  NoOrphans'
      OBVIOUS
    <2>1. ASSUME NEW j \in Jobs, NEW s, s # "absent", jobs' = [jobs EXCEPT ![j] = s],
                 InstanceOf[j] \in instances, ParentKnown(j), UNCHANGED instances
          PROVE  NoOrphans'
      <3>1. \A k \in Jobs : Known(k) => Known(k)'
        BY <2>1 DEF Known, TypeOK
      <3>2. \A k \in Jobs : k # j => (Known(k)' <=> Known(k))
        BY <2>1 DEF Known, TypeOK
      <3>3. \A k \in Jobs : ~TopLevel(k) => ParentOf[k] \in Jobs
        BY JobsAssumption DEF TopLevel
      <3>4. QED
        BY <2>1, <3>1, <3>2, <3>3 DEF NoOrphans, ParentKnown, TopLevel
    <2>2. ASSUME NEW j \in Jobs, NEW s \in {"processing"} \cup Terminals, Known(j), SetJob(j, s),
                 UNCHANGED instances
          PROVE  NoOrphans'
      BY <2>1, <2>2 DEF SetJob, NoOrphans, Terminals
    <2>3. ASSUME NEW j \in Jobs, ApplyPending(j)
          PROVE  NoOrphans'
      BY <2>1, <2>3 DEF ApplyPending, SetJob
    <2>4. ASSUME NEW j \in Jobs, ApplyProcessing(j)
          PROVE  NoOrphans'
      BY <2>2, <2>4 DEF ApplyProcessing
    <2>5. ASSUME NEW j \in Jobs, NEW s \in Terminals, ApplyChildTerminal(j, s)
          PROVE  NoOrphans'
      BY <2>2, <2>5 DEF ApplyChildTerminal, Open, Known
    <2>6. ASSUME NEW j \in Jobs, NEW s \in Terminals, OutcomeStep(j, s)
          PROVE  NoOrphans'
      BY <2>2, <2>6 DEF OutcomeStep, Finish, Open, Known
    <2>7. ASSUME NEW i \in Instances, CreateInstance(i) \/ DeleteInstance(i)
          PROVE  NoOrphans'
      BY <2>7 DEF CreateInstance, DeleteInstance, NoOrphans, ParentKnown, TopLevel, Known
    <2>8. CASE UNCHANGED vars
      BY <2>8 DEF vars, NoOrphans, ParentKnown, TopLevel, Known
    <2>9. QED
      BY <2>3, <2>4, <2>5, <2>6, <2>7, <2>8, OutcomeSteps DEF Next, ApplyResult
  <1>3. QED
    BY <1>1, <1>2, TypeCorrect, PTL DEF Spec

(* All the state properties of the ledger at once.                         *)
THEOREM LedgerInvariant == Spec => []IInv
  <1>1. TypeOK /\ LatestFollowsJob /\ TerminalIsBacked /\ OneResultPerAttempt
        /\ OutcomeLabelsAgree /\ ChildrenAreUnlisted /\ NoOrphans => IInv
    BY DEF IInv
  <1>2. QED
    BY <1>1, TypeCorrect, LatestRowIsTheNewestJob, TerminalRowIsBacked, OneResultRowPerAttempt,
       LabelsFollowOutcomes, ChildrenStayUnlisted, StoredJobsHaveOwners, PTL

-----------------------------------------------------------------------------
(* The resource row changes its job only when that job is announced.       *)
THEOREM LatestJobIsNeverTakenOver == Spec => LatestMovesOnAnnouncement
  <1> DEFINE A == \A r \in Resources : latest'[r].job # latest[r].job =>
                    jobs[latest'[r].job] = "absent" /\ jobs'[latest'[r].job] = "pending"
  <1>1. TypeOK /\ [Next]_vars => [A]_vars
    <2> SUFFICES ASSUME TypeOK, Next
                 PROVE  A
      OBVIOUS
    <2>1. ASSUME NEW j \in Jobs, ApplyPending(j)
          PROVE  A
      <3>1. jobs[j] = "absent" /\ jobs'[j] = "pending"
        BY <2>1 DEF ApplyPending, SetJob, Known, TypeOK
      <3>2. \A r \in Resources : latest'[r].job # latest[r].job => latest'[r].job = j
        BY <2>1 DEF ApplyPending, TypeOK
      <3>3. QED
        BY <3>1, <3>2
    <2>2. ASSUME NEW j \in Jobs, ApplyProcessing(j)
          PROVE  A
      <3>1. "processing" \in LatestStatus
        BY DEF LatestStatus
      <3>2. QED
        BY <2>2, <3>1, UpdateLatestEffect DEF ApplyProcessing
    <2>3. ASSUME NEW j \in Jobs, NEW s \in Terminals, OutcomeStep(j, s)
          PROVE  A
      <3>1. s \in LatestStatus
        BY DEF LatestStatus
      <3>2. QED
        BY <2>3, <3>1, UpdateLatestEffect DEF OutcomeStep, Finish
    <2>4. CASE UNCHANGED latest
      BY <2>4
    <2>5. QED
      BY <2>1, <2>2, <2>3, <2>4, OutcomeSteps
      DEF Next, ApplyResult, ApplyChildTerminal, CreateInstance, DeleteInstance, resourceVars
  <1>2. QED
    BY <1>1, TypeCorrect, PTL DEF Spec, LatestMovesOnAnnouncement

(* A resource that was ingested once keeps its last successful job.        *)
THEOREM LastSuccessIsKept == Spec => SuccessIsRemembered
  <1> DEFINE A == \A r \in Resources : terminal[r].successful # NoJob =>
                    terminal'[r].successful # NoJob
  <1>1. TypeOK /\ [Next]_vars => [A]_vars
    <2> SUFFICES ASSUME TypeOK, Next
                 PROVE  A
      OBVIOUS
    <2>1. ASSUME NEW j \in Jobs, NEW s \in Terminals, OutcomeStep(j, s)
          PROVE  A
      <3>1. NoJob # j /\ ResourceOf[j] \in Resources
        BY JobsAssumption
      <3>2. QED
        BY <2>1, <3>1 DEF OutcomeStep, Finish, PutTerminal, TypeOK
    <2>2. CASE UNCHANGED terminal
      BY <2>2
    <2>3. QED
      BY <2>1, <2>2, OutcomeSteps
      DEF Next, ApplyResult, ApplyPending, ApplyProcessing, ApplyChildTerminal, CreateInstance,
          DeleteInstance, resourceVars
  <1>2. QED
    BY <1>1, TypeCorrect, PTL DEF Spec, SuccessIsRemembered

-----------------------------------------------------------------------------
(* The ledger implements JobLifecycle: a transaction is, for the job it is *)
(* about, the announcement, a restart, an end with one outcome, or         *)
(* nothing.                                                                *)
THEOREM LedgerImplementsLifecycle == Spec => ImplementsLifecycle
  <1>1. Init => Lifecycle!Init
    BY DEF Init, Lifecycle!Init, Phase, Outcomes, Terminals
  <1>2. TypeOK /\ [Next]_vars => [Lifecycle!Next]_(Lifecycle!lifecycleVars)
    <2> SUFFICES ASSUME TypeOK, [Next]_vars
                 PROVE  Lifecycle!Next \/ UNCHANGED Lifecycle!lifecycleVars
      OBVIOUS
    <2> DEFINE st == [k \in Jobs |-> Phase(jobs[k])]
               oc == [k \in Jobs |-> Outcomes(k)]
    <2>1. ASSUME UNCHANGED <<jobs, results>>
          PROVE  UNCHANGED Lifecycle!lifecycleVars
      BY <2>1 DEF Lifecycle!lifecycleVars, Outcomes
    <2>2. ASSUME NEW j \in Jobs, ApplyPending(j)
          PROVE  Lifecycle!Announce(j)
      <3>1. jobs[j] = "absent" /\ jobs' = [jobs EXCEPT ![j] = "pending"] /\ results' = results
        BY <2>2 DEF ApplyPending, SetJob, Known
      <3>2. st[j] = "absent"
        BY <3>1 DEF Phase, Terminals
      <3>3. [k \in Jobs |-> Phase(jobs'[k])] = [st EXCEPT ![j] = "open"]
        BY <3>1 DEF Phase, TypeOK, Terminals
      <3>4. [k \in Jobs |-> Outcomes(k)'] = oc
        BY <3>1 DEF Outcomes
      <3>5. QED
        BY <3>2, <3>3, <3>4 DEF Lifecycle!Announce
    <2>3. ASSUME NEW j \in Jobs, ApplyProcessing(j)
          PROVE  Lifecycle!Next \/ UNCHANGED Lifecycle!lifecycleVars
      <3>1. jobs[j] # "absent" /\ jobs' = [jobs EXCEPT ![j] = "processing"] /\ results' = results
        BY <2>3 DEF ApplyProcessing, SetJob, Known
      <3>2. [k \in Jobs |-> Phase(jobs'[k])] = [st EXCEPT ![j] = "open"]
        BY <3>1 DEF Phase, TypeOK, Terminals
      <3>3. [k \in Jobs |-> Outcomes(k)'] = oc
        BY <3>1 DEF Outcomes
      <3>4. CASE jobs[j] \in Terminals
        <4>1. st[j] = "ended"
          BY <3>1, <3>4 DEF Phase, Terminals
        <4>2. Lifecycle!Restart(j)
          BY <3>2, <3>3, <4>1 DEF Lifecycle!Restart
        <4>3. QED
          BY <4>2 DEF Lifecycle!Next
      <3>5. CASE jobs[j] \notin Terminals
        <4>1. st[j] = "open"
          BY <3>1, <3>5 DEF Phase
        <4>2. [st EXCEPT ![j] = "open"] = st
          BY <4>1
        <4>3. QED
          BY <3>2, <3>3, <4>2 DEF Lifecycle!lifecycleVars
      <3>6. QED
        BY <3>4, <3>5
    <2>4. ASSUME NEW j \in Jobs, NEW s \in Terminals, Open(j), AddResult(j, s), SetJob(j, s)
          PROVE  Lifecycle!End(j)
      <3>1. st[j] = "open"
        BY <2>4 DEF Open, Phase, Terminals
      <3>2. [k \in Jobs |-> Phase(jobs'[k])] = [st EXCEPT ![j] = "ended"]
        BY <2>4 DEF SetJob, Phase, TypeOK, Terminals
      <3>3. \A k \in Jobs : Outcomes(k)' = Outcomes(k) + (IF k = j THEN 1 ELSE 0)
        BY <2>4, AddResultAddsOne
      <3>4. \A k \in Jobs : Outcomes(k) \in Nat
        BY DEF Outcomes, TypeOK, Terminals
      <3>5. [k \in Jobs |-> Outcomes(k)'] = [oc EXCEPT ![j] = @ + 1]
        <4>1. \A k \in Jobs : Outcomes(k)' = IF k = j THEN oc[j] + 1 ELSE oc[k]
          BY <3>3, <3>4
        <4>2. \A k \in Jobs : Outcomes(k)' = [oc EXCEPT ![j] = @ + 1][k]
          BY <4>1
        <4> HIDE DEF oc
        <4>3. QED
          BY <4>2, Zenon DEF oc
      <3>6. QED
        BY <3>1, <3>2, <3>5 DEF Lifecycle!End
    <2>5. ASSUME NEW j \in Jobs, NEW s \in Terminals, ApplyChildTerminal(j, s)
          PROVE  Lifecycle!End(j)
      BY <2>4, <2>5 DEF ApplyChildTerminal
    <2>6. ASSUME NEW j \in Jobs, NEW s \in Terminals, OutcomeStep(j, s)
          PROVE  Lifecycle!End(j)
      BY <2>4, <2>6 DEF OutcomeStep, Finish
    <2>7. QED
      BY <2>1, <2>2, <2>3, <2>5, <2>6, OutcomeSteps
      DEF Next, ApplyResult, CreateInstance, DeleteInstance, vars, Lifecycle!Next
  <1>3. QED
    BY <1>1, <1>2, TypeCorrect, PTL DEF Spec, ImplementsLifecycle, Lifecycle!Spec

=============================================================================
