---------------------------- MODULE JobLifecycle -----------------------------
(***************************************************************************)
(* What the ledger promises about one job, whatever order its results      *)
(* arrive in and however often: it is announced once, it ends only while   *)
(* it is open, each end records one outcome, and a finished job comes back *)
(* only by being started again.  JobLedger implements this specification.  *)
(***************************************************************************)
EXTENDS Integers

CONSTANT Jobs

VARIABLES
  status,   \* "absent", "open" (announced or being processed) or "ended"
  outcomes  \* how many outcomes were recorded for the job

lifecycleVars == <<status, outcomes>>

Init ==
  /\ status = [j \in Jobs |-> "absent"]
  /\ outcomes = [j \in Jobs |-> 0]

Announce(j) ==
  /\ status[j] = "absent"
  /\ status' = [status EXCEPT ![j] = "open"]
  /\ UNCHANGED outcomes

Restart(j) ==
  /\ status[j] = "ended"
  /\ status' = [status EXCEPT ![j] = "open"]
  /\ UNCHANGED outcomes

End(j) ==
  /\ status[j] = "open"
  /\ status' = [status EXCEPT ![j] = "ended"]
  /\ outcomes' = [outcomes EXCEPT ![j] = @ + 1]

Next == \E j \in Jobs : Announce(j) \/ Restart(j) \/ End(j)

Spec == Init /\ [][Next]_lifecycleVars
=============================================================================
