----------------------------- MODULE MCAsrBatch -----------------------------
(* Small instances of AsrBatch for TLC.                                    *)
EXTENDS AsrBatch

(* More operations than SubmissionsBounded allows: the bound on them is    *)
(* never what keeps a run from submitting.                                 *)
ASSUME EnoughOperations == MaxOps > NumFiles * Cardinality(Run) + MaxFaults
=============================================================================
