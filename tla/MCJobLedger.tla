----------------------------- MODULE MCJobLedger -----------------------------
(* One resource (dataset) with two versions (jobs j1, j2), the second of  *)
(* which is an archive with one member (child c1 on its own resource m),   *)
(* and one instance.                                                       *)
EXTENDS JobLedger

CONSTANTS j1, j2, c1, dataset, m, i1, h404, h500

MCJobs == {j1, j2, c1}
MCResources == {dataset, m}
MCResourceOf == [j \in MCJobs |-> IF j = c1 THEN m ELSE dataset]
MCParentOf == [j \in MCJobs |-> IF j = c1 THEN j2 ELSE NoJob]
MCInstanceOf == [j \in MCJobs |-> i1]

HttpCodeSymmetry == {[c \in HttpLabels |-> IF swap THEN (IF c = h404 THEN h500 ELSE h404) ELSE c]
                       : swap \in BOOLEAN}
=============================================================================
