--------------------------- MODULE MCIngestPipeline ---------------------------
(* Two set-ups: a data file (resource dataset) with the versions v1 and v2, *)
(* and a page (job page) with files on resources of their own: f1, f2 and,  *)
(* where what a crawl finds changes between attempts, f3.                   *)
EXTENDS IngestPipeline, TLC

CONSTANTS v1, v2, page, f1, f2, f3, dataset, m1, m2, m3, i1, jobsSlot, childSlot, retrySlot

OneInstance == {i1}

FileJobs == {v1, v2}
FileResources == {dataset}
FileResourceOf == [j \in FileJobs |-> dataset]
FileParentOf == [j \in FileJobs |-> NoJob]
FileInstanceOf == [j \in FileJobs |-> i1]
FileVersion == v1 :> 1 @@ v2 :> 2
FileSlots == {jobsSlot, retrySlot}
FileSlotOf == [j \in FileJobs |-> jobsSlot]
FileCrawls == [j \in FileJobs |-> {}]

PageJobs == {page, f1, f2}
PageResources == {dataset, m1, m2}
PageResourceOf == page :> dataset @@ f1 :> m1 @@ f2 :> m2
PageParentOf == page :> NoJob @@ f1 :> page @@ f2 :> page
PageInstanceOf == [j \in PageJobs |-> i1]
PageVersion == [j \in PageJobs |-> 1]
PageSlots == {jobsSlot, childSlot, retrySlot}
ParallelSlotOf == page :> jobsSlot @@ f1 :> jobsSlot @@ f2 :> childSlot
PageCrawls == page :> {<<f1, f2>>} @@ f1 :> {} @@ f2 :> {}

\* A file may leave the page and another join it between two attempts, so
\* that f2 is found at another position.
ChangingJobs == PageJobs \cup {f3}
ChangingResources == PageResources \cup {m3}
ChangingResourceOf == f3 :> m3 @@ PageResourceOf
ChangingParentOf == f3 :> page @@ PageParentOf
ChangingInstanceOf == [j \in ChangingJobs |-> i1]
ChangingVersion == [j \in ChangingJobs |-> 1]
ChangingSlots == {jobsSlot, retrySlot}
ChangingSlotOf == [j \in ChangingJobs |-> jobsSlot]
ChangingCrawls == page :> {<<f1, f2>>, <<f2, f3>>, <<f2>>} @@ [j \in {f1, f2, f3} |-> {}]
ShrinkingCrawls == page :> {<<f1, f2, f3>>, <<f2, f3>>} @@ [j \in {f1, f2, f3} |-> {}]

\* bound: no partition lags by more than three messages
ShortBacklogs ==
  /\ Len(parquetResults) <= 3 /\ Len(jobResults) <= 2
  /\ \A w \in Slots : Len(queue[w]) <= 3

\* bound: a retry is asked for only after the job has ended and all is quiet
RetryWhenQuiet ==
  Len(queue'[RetrySlot]) > Len(queue[RetrySlot]) =>
    /\ Drained /\ \A w \in Slots : queue[w] = <<>>
    /\ \E p \in Jobs : TopLevel(p) /\ jobs[p] \in Terminals

\* bound: the result consumer lags by at most two messages
PromptConsumer == Len(jobResults') <= 2
=============================================================================
