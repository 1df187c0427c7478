---------------------------- MODULE ProtectedTables ----------------------------
(***************************************************************************)
(* What the operator of a cloud may rely on after handing the route tables *)
(* to the route switcher, without looking at invocations, the config       *)
(* object or the load balancer: a table is updated by one operation at a   *)
(* time; an operation re-points routes through routers to other router     *)
(* addresses of the same network and leaves every other route as it is;    *)
(* and nothing else changes a table but the operator's own edits.          *)
(***************************************************************************)
CONSTANTS Table, Prefix, Address, Foreign, Segment, Home, NoHop

VARIABLES
  nextHop,   \* the static routes of each table
  busy       \* the tables with an accepted update not yet carried out

vars == <<nextHop, busy>>

RouterHops(t) == {a \in Address : Segment[a] = Home[t]}
Choices(t) == RouterHops(t) \cup Foreign \cup {NoHop}

Init ==
  /\ nextHop \in [Table -> [Prefix -> Address \cup Foreign \cup {NoHop}]]
  /\ \A t \in Table, p \in Prefix : nextHop[t][p] \in Choices(t)
  /\ busy = {}

Accept(t) ==
  /\ t \notin busy
  /\ busy' = busy \cup {t}
  /\ UNCHANGED nextHop

ThroughRouters(t) == {p \in Prefix : nextHop[t][p] \in RouterHops(t)}

(* The operation ends; one that failed moves no route.                     *)
Finish(t) ==
  /\ t \in busy
  /\ busy' = busy \ {t}
  /\ \E hop \in [ThroughRouters(t) -> RouterHops(t)] :
       nextHop' = [nextHop EXCEPT ![t] =
         [p \in Prefix |-> IF p \in ThroughRouters(t) THEN hop[p] ELSE nextHop[t][p]]]

(* The operator waits for the operations under way.                        *)
Edit(t, p, h) ==
  /\ busy = {}
  /\ nextHop' = [nextHop EXCEPT ![t][p] = h]
  /\ UNCHANGED busy

Next ==
  \/ \E t \in Table : Accept(t) \/ Finish(t)
  \/ \E t \in Table, p \in Prefix : \E h \in Choices(t) : Edit(t, p, h)

Spec == Init /\ [][Next]_vars
=============================================================================
