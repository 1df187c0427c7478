---------------------------- MODULE MCStreamClient ----------------------------
(* Values of the constants of StreamClient for TLC. *)
EXTENDS StreamClient

\* A chunk may reach the limit of a call, stay below it, or be the empty one.
ASSUME NumChunks > 2 /\ MaxBytes \in Sizes /\ \E s \in Sizes : s < MaxBytes
=============================================================================
