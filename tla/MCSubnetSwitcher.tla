-------------------------- MODULE MCSubnetSwitcher --------------------------
(* Small instances of SubnetSwitcher for TLC.                              *)
EXTENDS SubnetSwitcher

CONSTANT r1

(* Every subnet behind one router.                                         *)
OneRouter == [s \in Subnet |-> r1]
=============================================================================
