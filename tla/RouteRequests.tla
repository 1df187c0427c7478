---------------------------- MODULE RouteRequests ----------------------------
(***************************************************************************)
(* What the message queue and the switcher function of version 1 promise   *)
(* to whoever asks for a subnet to be moved, without looking at copies of  *)
(* messages, handlers, tries or timeouts: a request is carried out at      *)
(* least once before it is forgotten; a route table is attached only on    *)
(* request; and a subnet is without one only while a request is under way. *)
(***************************************************************************)
CONSTANTS Subnet, Side

Request == [subnet : Subnet, to : Side]

VARIABLES
  attached,  \* the side whose route table a subnet has, or "none"
  asked,     \* requests under way
  served     \* those that have been carried out and may be forgotten

vars == <<attached, asked, served>>

Init ==
  /\ attached \in [Subnet -> Side]
  /\ asked = {}
  /\ served = {}

Ask(m) ==
  /\ m \notin asked
  /\ asked' = asked \cup {m}
  /\ UNCHANGED <<attached, served>>

Detach(m) ==
  /\ attached' = [attached EXCEPT ![m.subnet] = "none"]
  /\ m \in asked
  /\ UNCHANGED <<asked, served>>

Attach(m) ==
  /\ attached' = [attached EXCEPT ![m.subnet] = m.to]
  /\ m \in asked
  /\ served' = served \cup {m}
  /\ UNCHANGED asked

(* The request, or one of several equal ones, is forgotten; the last one   *)
(* of a subnet leaves it with a route table.                               *)
Forget(m) ==
  /\ m \in served
  /\ asked' \in {asked, asked \ {m}}
  /\ served' \in {served, served \ {m}}
  /\ served' \subseteq asked'
  /\ attached[m.subnet] = "none" => \E n \in asked' : n.subnet = m.subnet
  /\ UNCHANGED attached

(* Nobody knows that it was carried out: it will be once more.             *)
Repeat(m) ==
  /\ m \in served
  /\ served' = served \ {m}
  /\ UNCHANGED <<attached, asked>>

Next == \E m \in Request : Ask(m) \/ Detach(m) \/ Attach(m) \/ Forget(m) \/ Repeat(m)

Spec == Init /\ [][Next]_vars
=============================================================================
