---------------------------- MODULE AudioChannel ----------------------------
(***************************************************************************)
(* What the streaming client promises to a session, without looking at the *)
(* mutex, at calls, their limits and deadlines, or at the service: the     *)
(* audio is passed on chunk by chunk in the order it was offered. A chunk  *)
(* may stammer, once, and one may be skipped, but only as a whole: when    *)
(* the next one is offered it was passed on or will never be. What becomes *)
(* of a chunk on its way is no matter of this channel.                     *)
(***************************************************************************)
EXTENDS Naturals, Sequences

CONSTANT Client

VARIABLES
  phase,    \* of a session: "ready" for a chunk, "pending" with one, or "over"
  offered,  \* number of the last chunk offered
  passed    \* the numbers of the chunks passed on

vars == <<phase, offered, passed>>

Init ==
  /\ phase = [c \in Client |-> "ready"]
  /\ offered = [c \in Client |-> 0]
  /\ passed = [c \in Client |-> <<>>]

Passed(c) == \E n \in DOMAIN passed[c] : passed[c][n] = offered[c]

PassedTwice(c) ==
  \E m, n \in DOMAIN passed[c] :
    m # n /\ passed[c][m] = offered[c] /\ passed[c][n] = offered[c]

Offer(c) ==
  /\ phase[c] = "ready"
  /\ phase' = [phase EXCEPT ![c] = "pending"]
  /\ offered' = [offered EXCEPT ![c] = @ + 1]
  /\ UNCHANGED passed

(* Whether the client learns that it was passed on or not.                 *)
Pass(c) ==
  /\ phase[c] = "pending" /\ ~PassedTwice(c)
  /\ passed' = [passed EXCEPT ![c] = Append(@, offered[c])]
  /\ \E p \in {"ready", "pending", "over"} : phase' = [phase EXCEPT ![c] = p]
  /\ UNCHANGED offered

Skip(c) ==
  /\ phase[c] = "pending" /\ ~Passed(c)
  /\ phase' = [phase EXCEPT ![c] = "ready"]
  /\ UNCHANGED <<offered, passed>>

End(c) ==
  /\ phase[c] \in {"ready", "pending"}
  /\ phase' = [phase EXCEPT ![c] = "over"]
  /\ UNCHANGED <<offered, passed>>

(* The name of the session is free for another one.                        *)
Leave(c) ==
  /\ phase[c] = "over"
  /\ phase' = [phase EXCEPT ![c] = "ready"]
  /\ offered' = [offered EXCEPT ![c] = 0]
  /\ passed' = [passed EXCEPT ![c] = <<>>]

Next == \E c \in Client : Offer(c) \/ Pass(c) \/ Skip(c) \/ End(c) \/ Leave(c)

Spec == Init /\ [][Next]_vars
=============================================================================
