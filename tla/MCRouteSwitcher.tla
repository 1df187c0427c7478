--------------------------- MODULE MCRouteSwitcher ---------------------------
(* Small instances of RouteSwitcher for TLC.                               *)
EXTENDS RouteSwitcher, TLC

CONSTANTS r1, r2, r3, b1, b2, a1, a2, f, p1, p2, i1, i2

(* One network: two firewalls back each other up; r3 is a target of the    *)
(* load balancer without interfaces in the config.                         *)
PairOwner == a1 :> r1 @@ a2 :> r2
PairBackup == a1 :> a2 @@ a2 :> a1
PairSegment == a1 :> 1 @@ a2 :> 1
PairHome == [t \in Table |-> 1]

(* a1's router may leave the target group, a2's may fail.                  *)
PairReports == r1 :> Status @@ r2 :> {"HEALTHY", "UNHEALTHY"} @@ r3 :> {"HEALTHY"}

(* Two firewalls, each up or down.                                         *)
UpDown == [r \in {r1, r2} |-> {"HEALTHY", "UNHEALTHY"}]

(* Two networks, one table each: both firewalls have an interface in both. *)
TwoNetOwner == PairOwner @@ b1 :> r1 @@ b2 :> r2
TwoNetBackup == PairBackup @@ b1 :> b2 @@ b2 :> b1
TwoNetSegment == PairSegment @@ b1 :> 2 @@ b2 :> 2
TwoNetHome == [t \in Table |-> t]
=============================================================================
