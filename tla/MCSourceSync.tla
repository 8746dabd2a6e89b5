----------------------------- MODULE MCSourceSync -----------------------------
(* Two resources, two replicas, observation batches of one resource.       *)
EXTENDS SourceSync

CONSTANTS a, b
=============================================================================
