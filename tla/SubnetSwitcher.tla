--------------------------- MODULE SubnetSwitcher ---------------------------
(***************************************************************************)
(* The route switcher, version 1.  A checker function runs once a minute:  *)
(* it compares the load balancer's view of each router with the side       *)
(* ("active") noted in the config object and, for every router to switch,  *)
(* sends one message per subnet to a message queue; last it saves the      *)
(* config.  A switcher function takes one message at a time, detaches the  *)
(* subnet's route table and attaches the one the message names.            *)
(*                                                                         *)
(* The queue is a standard one: it keeps no order, and a message whose     *)
(* handler failed or timed out becomes visible again.                      *)
(***************************************************************************)
EXTENDS Naturals

CONSTANTS
  Router,      \* keys of routes_config
  NumSubnets,  \* subnets in the order of the config's lists
  RouterOf,    \* the router whose list a subnet is in
  Checker,     \* slots for concurrently running checker invocations
  Worker,      \* slots for concurrently running switcher invocations
  NumTries,    \* num_tries of retry_rt_switch_operation (10 in the code)
  Failures,    \* may invocations fail or time out?
  MaxErrors,   \* bound: subnet operations that end in an error
  MaxCopies,   \* bound: copies counted of the equal messages that wait
  Nil          \* no message

Subnet == 1 .. NumSubnets
Side == {"primary", "secondary"}
Message == [subnet : Subnet, to : Side]

ASSUME SizesAssumption ==
  /\ NumSubnets \in Nat /\ NumTries \in Nat \ {0}
  /\ MaxErrors \in Nat /\ MaxCopies \in Nat \ {0}
ASSUME RouterAssumption == RouterOf \in [Subnet -> Router]
ASSUME FailuresAssumption == Failures \in BOOLEAN
ASSUME NilAssumption == Nil \notin Message

VARIABLES
  healthy,   \* the load balancer's view of each router
  active,    \* routes_config[r]['active'] in the bucket
  attached,  \* the route table of a subnet: a side, or "none"
  queue,     \* copies of each message waiting in the queue
  cpc,       \* where a checker is
  mine,      \* a checker's copy of the active sides
  outbox,    \* subnets a checker has still to send a message for
  wpc,       \* where a switcher is
  msg,       \* the message a switcher handles (invisible in the queue)
  tries,     \* failed tries of the current retry_rt_switch_operation
  errors     \* operations that ended in an error so far

checkerVars == <<cpc, mine, outbox>>
workerVars == <<wpc, msg, tries, errors>>
vars == <<healthy, active, attached, queue, checkerVars, workerVars>>

AllPrimary == [r \in Router |-> "primary"]

TypeOK ==
  /\ healthy \in [Router -> BOOLEAN]
  /\ active \in [Router -> Side]
  /\ attached \in [Subnet -> Side \cup {"none"}]
  /\ queue \in [Message -> Nat]
  /\ cpc \in [Checker -> {"idle", "check", "send"}]
  /\ mine \in [Checker -> [Router -> Side]]
  /\ outbox \in [Checker -> SUBSET Subnet]
  /\ wpc \in [Worker -> {"idle", "detach", "attach", "ack"}]
  /\ msg \in [Worker -> Message \cup {Nil}]
  /\ tries \in [Worker -> 0 .. NumTries - 1]
  /\ errors \in 0 .. MaxErrors

Init ==
  /\ healthy \in [Router -> BOOLEAN]
  /\ active = AllPrimary
  /\ attached = [s \in Subnet |-> "primary"]
  /\ queue = [m \in Message |-> 0]
  /\ cpc = [c \in Checker |-> "idle"]
  /\ mine = [c \in Checker |-> AllPrimary]
  /\ outbox = [c \in Checker |-> {}]
  /\ wpc = [w \in Worker |-> "idle"]
  /\ msg = [w \in Worker |-> Nil]
  /\ tries = [w \in Worker |-> 0]
  /\ errors = 0

-----------------------------------------------------------------------------
(* The checker function.                                                   *)

ReadConfig(c) ==
  /\ cpc[c] = "idle"
  /\ cpc' = [cpc EXCEPT ![c] = "check"]
  /\ mine' = [mine EXCEPT ![c] = active]
  /\ UNCHANGED <<healthy, active, attached, queue, outbox, workerVars>>

(* Seeded: only the failover branch.                                       *)
ToSwitchAway(c) == {r \in Router : ~healthy[r] /\ mine[c][r] = "primary"}

(* Routers whose noted side is not the one their state asks for.           *)
ToSwitch(c) ==
  {r \in Router : \/ ~healthy[r] /\ mine[c][r] = "primary"
                  \/ healthy[r] /\ mine[c][r] = "secondary"}

Wanted(r) == IF healthy[r] THEN "primary" ELSE "secondary"

(* Seeded: the new sides are saved before the messages are sent.           *)
CheckStatusesSaving(c) ==
  LET now == [r \in Router |-> IF r \in ToSwitch(c) THEN Wanted(r) ELSE mine[c][r]]
  IN  /\ cpc[c] = "check"
      /\ cpc' = [cpc EXCEPT ![c] = "send"]
      /\ mine' = [mine EXCEPT ![c] = now]
      /\ active' = now
      /\ outbox' = [outbox EXCEPT ![c] = {s \in Subnet : RouterOf[s] \in ToSwitch(c)}]
      /\ UNCHANGED <<healthy, attached, queue, workerVars>>

(* Seeded: sends the side noted so far instead of the wanted one.          *)
CheckStatusesUnnoted(c) ==
  /\ cpc[c] = "check"
  /\ cpc' = [cpc EXCEPT ![c] = "send"]
  /\ outbox' = [outbox EXCEPT ![c] = {s \in Subnet : RouterOf[s] \in ToSwitch(c)}]
  /\ UNCHANGED <<healthy, active, attached, queue, mine, workerVars>>

CheckStatuses(c) ==
  /\ cpc[c] = "check"
  /\ cpc' = [cpc EXCEPT ![c] = "send"]
  /\ mine' = [mine EXCEPT ![c] =
       [r \in Router |-> IF r \in ToSwitch(c) THEN Wanted(r) ELSE @[r]]]
  /\ outbox' = [outbox EXCEPT ![c] = {s \in Subnet : RouterOf[s] \in ToSwitch(c)}]
  /\ UNCHANGED <<healthy, active, attached, queue, workerVars>>

(* One more copy of m waits.  The queue takes every message; from          *)
(* MaxCopies on the copies of one are not counted any more.                *)
Enqueue(m) == queue' = [queue EXCEPT ![m] = IF @ < MaxCopies THEN @ + 1 ELSE @]

(* The loop of failover: one send_message per subnet, in list order,       *)
(* whatever is waiting or in hands already.                                *)
SendMessage(c) ==
  /\ cpc[c] = "send"
  /\ \E s \in outbox[c] :
       /\ \A u \in outbox[c] : s <= u
       /\ Enqueue([subnet |-> s, to |-> mine[c][RouterOf[s]]])
       /\ outbox' = [outbox EXCEPT ![c] = @ \ {s}]
  /\ UNCHANGED <<healthy, active, attached, cpc, mine, workerVars>>

Rest(c) ==
  /\ cpc' = [cpc EXCEPT ![c] = "idle"]
  /\ mine' = [mine EXCEPT ![c] = AllPrimary]
  /\ outbox' = [outbox EXCEPT ![c] = {}]

(* put_config, after everything was sent.                                  *)
SaveConfig(c) ==
  /\ cpc[c] = "send"
  /\ outbox[c] = {}
  /\ active' = mine[c]
  /\ Rest(c)
  /\ UNCHANGED <<healthy, attached, queue, workerVars>>

(* A request raises (nothing catches it) or the function times out: the    *)
(* run ends without saving, whatever it has sent.                          *)
CheckerFails(c) ==
  /\ Failures
  /\ cpc[c] # "idle"
  /\ Rest(c)
  /\ UNCHANGED <<healthy, active, attached, queue, workerVars>>

-----------------------------------------------------------------------------
(* The switcher function.                                                  *)

(* Seeded: delivers a message whether or not it is visible.                *)
ReceiveAny(w) ==
  /\ wpc[w] = "idle"
  /\ \E m \in Message : /\ queue' = [queue EXCEPT ![m] = @ - 1]
                        /\ msg' = [msg EXCEPT ![w] = m]
  /\ wpc' = [wpc EXCEPT ![w] = "detach"]
  /\ UNCHANGED <<healthy, active, attached, tries, errors, checkerVars>>

(* The trigger takes any visible message (batch_size 1).                   *)
Receive(w) ==
  /\ wpc[w] = "idle"
  /\ \E m \in Message :
       /\ queue[m] > 0
       /\ queue' = [queue EXCEPT ![m] = @ - 1]
       /\ msg' = [msg EXCEPT ![w] = m]
  /\ wpc' = [wpc EXCEPT ![w] = "detach"]
  /\ UNCHANGED <<healthy, active, attached, tries, errors, checkerVars>>

(* What follows a call of retry_rt_switch_operation.                       *)
After(step) == IF step = "detach" THEN "attach" ELSE "ack"

Switching(w) == wpc[w] \in {"detach", "attach"}

(* The PATCH is accepted and its operation ends without an error.          *)
OperationDone(w) ==
  /\ Switching(w)
  /\ attached' = [attached EXCEPT ![msg[w].subnet] =
                    IF wpc[w] = "detach" THEN "none" ELSE msg[w].to]
  /\ wpc' = [wpc EXCEPT ![w] = After(@)]
  /\ tries' = [tries EXCEPT ![w] = 0]
  /\ UNCHANGED <<healthy, active, queue, msg, errors, checkerVars>>

(* Seeded: gives up one try early.                                         *)
OperationErrorEarly(w) ==
  /\ Switching(w)
  /\ errors < MaxErrors
  /\ errors' = errors + 1
  /\ \/ /\ tries[w] + 2 < NumTries
        /\ tries' = [tries EXCEPT ![w] = @ + 1]
        /\ UNCHANGED wpc
     \/ /\ tries[w] + 2 >= NumTries
        /\ tries' = [tries EXCEPT ![w] = 0]
        /\ wpc' = [wpc EXCEPT ![w] = After(@)]
  /\ UNCHANGED <<healthy, active, attached, queue, msg, checkerVars>>

(* The operation ends in an error: try again, or after num_tries failed    *)
(* tries go on as if nothing had happened.                                 *)
OperationError(w) ==
  /\ Switching(w)
  /\ errors < MaxErrors
  /\ errors' = errors + 1
  /\ \/ /\ tries[w] + 1 < NumTries
        /\ tries' = [tries EXCEPT ![w] = @ + 1]
        /\ UNCHANGED wpc
     \/ /\ tries[w] + 1 = NumTries
        /\ tries' = [tries EXCEPT ![w] = 0]
        /\ wpc' = [wpc EXCEPT ![w] = After(@)]
  /\ UNCHANGED <<healthy, active, attached, queue, msg, checkerVars>>

(* The handler returned: the trigger deletes the message.                  *)
Delete(w) ==
  /\ wpc[w] = "ack"
  /\ wpc' = [wpc EXCEPT ![w] = "idle"]
  /\ msg' = [msg EXCEPT ![w] = Nil]
  /\ UNCHANGED <<healthy, active, attached, queue, tries, errors, checkerVars>>

(* Seeded: the handler swallows its failure, the message is deleted.       *)
WorkerFailsQuietly(w) ==
  /\ Failures
  /\ wpc[w] # "idle"
  /\ wpc' = [wpc EXCEPT ![w] = "idle"]
  /\ msg' = [msg EXCEPT ![w] = Nil]
  /\ tries' = [tries EXCEPT ![w] = 0]
  /\ UNCHANGED <<healthy, active, attached, queue, errors, checkerVars>>

(* The handler raises (an answer without 'id'), times out, or the message  *)
(* is not deleted in time: it becomes visible again.                       *)
WorkerFails(w) ==
  /\ Failures
  /\ wpc[w] # "idle"
  /\ Enqueue(msg[w])
  /\ wpc' = [wpc EXCEPT ![w] = "idle"]
  /\ msg' = [msg EXCEPT ![w] = Nil]
  /\ tries' = [tries EXCEPT ![w] = 0]
  /\ UNCHANGED <<healthy, active, attached, errors, checkerVars>>

-----------------------------------------------------------------------------

RouterChanges(r) ==
  /\ healthy' = [healthy EXCEPT ![r] = ~@]
  /\ UNCHANGED <<active, attached, queue, checkerVars, workerVars>>

CheckerStep(c) ==
  ReadConfig(c) \/ CheckStatuses(c) \/ SendMessage(c) \/ SaveConfig(c)

WorkerStep(w) == Receive(w) \/ OperationDone(w) \/ Delete(w)

Next ==
  \/ \E c \in Checker : CheckerStep(c) \/ CheckerFails(c)
  \/ \E w \in Worker : WorkerStep(w) \/ OperationError(w) \/ WorkerFails(w)
  \/ \E r \in Router : RouterChanges(r)

Spec == Init /\ [][Next]_vars

Fault ==
  \/ \E c \in Checker : CheckerFails(c) /\ ~SaveConfig(c)
  \/ \E w \in Worker : WorkerFails(w)

(* The timer fires, the trigger delivers, operations end, and from some    *)
(* time on nothing raises or times out.                                    *)
FairSpec ==
  /\ Spec
  /\ \A c \in Checker : WF_vars(CheckerStep(c))
  /\ \A w \in Worker : WF_vars(WorkerStep(w))
  /\ <>[][~Fault]_vars

-----------------------------------------------------------------------------
(* Properties.                                                             *)

Handled(s) ==
  \/ \E m \in Message : m.subnet = s /\ queue[m] > 0
  \/ \E w \in Worker : msg[w] # Nil /\ msg[w].subnet = s

(* A subnet without a route table still has a message to repair it: a      *)
(* crash or a timeout between detach and attach, however often, loses      *)
(* nothing, as long as fewer than num_tries operations end in an error.    *)
DetachedIsHandled ==
  \A s \in Subnet : attached[s] = "none" => Handled(s)

(* The requests under way, and those whose handler has only to return.     *)
Asked == ({m \in Message : queue[m] > 0} \cup {msg[w] : w \in Worker}) \ {Nil}
Served == {msg[w] : w \in {v \in Worker : wpc[v] = "ack"}}

(* For whoever sends messages, the queue and the switchers carry every     *)
(* request out at least once before they forget it and attach nothing that *)
(* was not asked for: although handlers die between detach and attach, or  *)
(* before the message is deleted, operations are tried again, and equal    *)
(* and opposite requests are handled at the same time.                     *)
Requests == INSTANCE RouteRequests WITH asked <- Asked, served <- Served

ImplementsRequests == Requests!Spec

(* What is under way for a subnet, or will be sent for it by the checkers  *)
(* that have already decided, leads to one side.                           *)
Towards(s, side) ==
  /\ \A m \in Asked : m.subnet = s => m.to = side
  /\ \A c \in Checker :
       cpc[c] = "send" /\ s \in outbox[c] => mine[c][RouterOf[s]] = side

(* As long as its router's state asks for a side, and everything under way *)
(* for a subnet leads there, the system does not turn back: no checker,    *)
(* however old its copy of the config, sends anything else, and the subnet *)
(* gets no other route table.                                              *)
NoTurningBack ==
  [][\A s \in Subnet, side \in Side :
       side = Wanted(RouterOf[s]) /\ Towards(s, side) =>
         /\ Towards(s, side)'
         /\ attached'[s] \in {attached[s], "none", side}]_vars

(* Nothing of the past is under way for the subnet.                        *)
Calm(s, side) ==
  /\ attached[s] = side
  /\ active[RouterOf[s]] = side
  /\ \A c \in Checker : cpc[c] = "idle"
  /\ ~Handled(s)

(* One failure, started from a calm state, is handled in spite of crashes, *)
(* lost saves, partial sends and redelivered messages.                     *)
FailoverReached ==
  \A s \in Subnet :
    []((Calm(s, "primary") /\ [](~healthy[RouterOf[s]])) => <>[](attached[s] = "secondary"))

(* The same for one recovery.                                              *)
FailbackReached ==
  \A s \in Subnet :
    []((Calm(s, "secondary") /\ [](healthy[RouterOf[s]])) => <>[](attached[s] = "primary"))

(* "When the firewall VM recovers ... the functions change the route table *)
(* of the subnet to the main one" (ubuntu-firewall/Readme.md, 43-46).      *)
RecoveryEndsOnPrimary ==
  \A s \in Subnet :
    <>[](healthy[RouterOf[s]]) => <>[](attached[s] = "primary")

=============================================================================
