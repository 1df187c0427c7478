-------------------------- MODULE MCSnapshotBackup --------------------------
(* Small instances of SnapshotBackup for TLC.                              *)
EXTENDS SnapshotBackup

AllFaults == FaultKind
(* Every fault except an operation that ends in an error.                  *)
RetriedFaults == FaultKind \ {"operation"}
=============================================================================
