----------------------- MODULE SubnetSwitcher_proofs -----------------------
(***************************************************************************)
(* Proofs about SubnetSwitcher for any routers, subnets, invocation slots  *)
(* and bounds: type correctness, and that a detached subnet always has a   *)
(* message to repair it.                                                   *)
(***************************************************************************)
EXTENDS SubnetSwitcher, TLAPS

LEMMA AllPrimaryTyped == AllPrimary \in [Router -> Side]
  BY DEF AllPrimary, Side

(* The message SendMessage sends for a subnet is a message.                *)
LEMMA SentTyped ==
  ASSUME TypeOK, NEW c \in Checker, NEW s \in Subnet
  PROVE  [subnet |-> s, to |-> mine[c][RouterOf[s]]] \in Message
  BY RouterAssumption DEF TypeOK, Message

(* A busy switcher holds a message, an idle one does not.                  *)
Holding == \A w \in Worker : wpc[w] # "idle" <=> msg[w] # Nil

TypeInv == TypeOK /\ Holding

(* A message that is put into the queue waits there, and no other goes.    *)
LEMMA EnqueueWaits ==
  ASSUME queue \in [Message -> Nat], NEW m \in Message, Enqueue(m)
  PROVE  /\ queue' \in [Message -> Nat]
         /\ \A n \in Message : queue'[n] > 0 <=> queue[n] > 0 \/ n = m
<1>1. \A n \in Message :
        /\ queue'[n] \in Nat
        /\ n # m => queue'[n] = queue[n]
        /\ queue'[m] = IF queue[m] < MaxCopies THEN queue[m] + 1 ELSE queue[m]
  BY DEF Enqueue
<1>2. queue'[m] > 0
  BY <1>1, SizesAssumption
<1> QED
  BY <1>1, <1>2 DEF Enqueue

(* SendMessage puts the message of one subnet into the queue.              *)
LEMMA SendEnqueues ==
  ASSUME TypeOK, NEW c \in Checker, SendMessage(c)
  PROVE  \E s \in outbox[c] :
           LET m == [subnet |-> s, to |-> mine[c][RouterOf[s]]]
           IN  m \in Message /\ Enqueue(m)
<1>1. PICK s \in outbox[c] : Enqueue([subnet |-> s, to |-> mine[c][RouterOf[s]]])
  BY DEF SendMessage
<1>2. s \in Subnet
  BY DEF TypeOK
<1> QED
  BY <1>1, <1>2, SentTyped

LEMMA TypeInit == Init => TypeInv
  BY SizesAssumption, AllPrimaryTyped DEF Init, TypeInv, TypeOK, Holding, Side

LEMMA RestTyped ==
  ASSUME TypeOK, NEW c \in Checker, Rest(c)
  PROVE  /\ cpc' \in [Checker -> {"idle", "check", "send"}]
         /\ mine' \in [Checker -> [Router -> Side]]
         /\ outbox' \in [Checker -> SUBSET Subnet]
  BY AllPrimaryTyped DEF TypeOK, Rest

LEMMA TypeChecker ==
  ASSUME TypeInv, NEW c \in Checker, CheckerStep(c) \/ CheckerFails(c)
  PROVE  TypeInv'
<1> USE DEF TypeInv, Holding
<1>1. CASE ReadConfig(c)
  BY <1>1 DEF ReadConfig, TypeOK, workerVars
<1>2. CASE CheckStatuses(c)
  <2> DEFINE now == [r \in Router |-> IF r \in ToSwitch(c) THEN Wanted(r) ELSE mine[c][r]]
  <2>1. now \in [Router -> Side]
    BY DEF TypeOK, Wanted, Side
  <2>2. mine' = [mine EXCEPT ![c] = now]
    BY <1>2 DEF CheckStatuses, TypeOK
  <2>3. mine' \in [Checker -> [Router -> Side]]
    BY <2>1, <2>2 DEF TypeOK
  <2> QED
    BY <1>2, <2>3 DEF CheckStatuses, TypeOK, workerVars
<1>3. CASE SendMessage(c)
  <2>1. PICK m \in Message : Enqueue(m)
    BY <1>3, SendEnqueues
  <2>3. queue' \in [Message -> Nat]
    BY <2>1, EnqueueWaits DEF TypeOK
  <2>4. outbox' \in [Checker -> SUBSET Subnet]
    BY <1>3 DEF SendMessage, TypeOK
  <2> QED
    BY <1>3, <2>3, <2>4 DEF SendMessage, TypeOK, workerVars
<1>4. CASE SaveConfig(c)
  <2>1. Rest(c) /\ active' \in [Router -> Side]
    BY <1>4 DEF SaveConfig, TypeOK
  <2> QED
    BY <1>4, <2>1, RestTyped DEF SaveConfig, TypeOK, workerVars
<1>5. CASE CheckerFails(c)
  BY <1>5, RestTyped DEF CheckerFails, TypeOK, workerVars
<1> QED
  BY <1>1, <1>2, <1>3, <1>4, <1>5 DEF CheckerStep

LEMMA TypeWorker ==
  ASSUME TypeInv, NEW w \in Worker,
         WorkerStep(w) \/ OperationError(w) \/ WorkerFails(w)
  PROVE  TypeInv'
<1> USE DEF TypeInv, Holding
<1>1. CASE Receive(w)
  <2>1. PICK m \in Message : /\ queue[m] > 0
                             /\ queue' = [queue EXCEPT ![m] = @ - 1]
                             /\ msg' = [msg EXCEPT ![w] = m]
    BY <1>1 DEF Receive
  <2>2. queue' \in [Message -> Nat]
    BY <2>1 DEF TypeOK
  <2>3. m # Nil
    BY NilAssumption
  <2> QED
    BY <1>1, <2>1, <2>2, <2>3 DEF Receive, TypeOK, checkerVars
<1>2. CASE OperationDone(w)
  <2>1. msg[w] \in Message
    BY <1>2 DEF OperationDone, Switching, TypeOK
  <2>2. msg[w].to \in Side
    BY <2>1 DEF Message
  <2>3. attached' \in [Subnet -> Side \cup {"none"}]
    BY <1>2, <2>2 DEF OperationDone, TypeOK
  <2>4. 0 \in 0 .. NumTries - 1
    BY SizesAssumption
  <2> QED
    BY <1>2, <2>3, <2>4 DEF OperationDone, Switching, After, TypeOK, checkerVars
<1>3. CASE OperationError(w)
  <2>1. errors' \in 0 .. MaxErrors
    BY <1>3, SizesAssumption DEF OperationError, TypeOK
  <2>2. tries' \in [Worker -> 0 .. NumTries - 1]
    BY <1>3, SizesAssumption DEF OperationError, TypeOK
  <2>3. wpc' \in [Worker -> {"idle", "detach", "attach", "ack"}]
    BY <1>3 DEF OperationError, After, TypeOK
  <2>4. \A v \in Worker : wpc'[v] # "idle" <=> wpc[v] # "idle"
    BY <1>3 DEF OperationError, Switching, After, TypeOK
  <2> QED
    BY <1>3, <2>1, <2>2, <2>3, <2>4 DEF OperationError, TypeOK, checkerVars
<1>4. CASE Delete(w)
  BY <1>4 DEF Delete, TypeOK, checkerVars
<1>5. CASE WorkerFails(w)
  <2>1. msg[w] \in Message
    BY <1>5 DEF WorkerFails, TypeOK
  <2>2. queue' \in [Message -> Nat]
    BY <1>5, <2>1, EnqueueWaits DEF WorkerFails, TypeOK
  <2>3. 0 \in 0 .. NumTries - 1
    BY SizesAssumption
  <2> QED
    BY <1>5, <2>2, <2>3 DEF WorkerFails, TypeOK, checkerVars
<1> QED
  BY <1>1, <1>2, <1>3, <1>4, <1>5 DEF WorkerStep

LEMMA TypeStep == TypeInv /\ [Next]_vars => TypeInv'
<1> SUFFICES ASSUME TypeInv, [Next]_vars PROVE TypeInv'
  OBVIOUS
<1>1. ASSUME NEW r \in Router, RouterChanges(r) PROVE TypeInv'
  BY <1>1 DEF RouterChanges, TypeInv, TypeOK, Holding, checkerVars, workerVars
<1>2. CASE UNCHANGED vars
  BY <1>2 DEF vars, TypeInv, TypeOK, Holding, checkerVars, workerVars
<1> QED
  BY <1>1, <1>2, TypeChecker, TypeWorker DEF Next

(* Type correctness: among others, no try number reaches num_tries and a   *)
(* subnet's table is always a side of the config or "none".                *)
THEOREM TypeCorrect == Spec => []TypeOK
<1>1. TypeInv => TypeOK
  BY DEF TypeInv
<1> QED
  BY <1>1, TypeInit, TypeStep, PTL DEF Spec

-----------------------------------------------------------------------------
(* DetachedIsHandled is not inductive: a switcher in "ack" does not repair *)
(* anything any more.  A detached subnet has a message in the queue or one *)
(* whose handler is still before the end of its attach, and no handler can *)
(* have used up its tries.                                                 *)

Repairing(s) ==
  \/ \E m \in Message : m.subnet = s /\ queue[m] > 0
  \/ \E w \in Worker : Switching(w) /\ msg[w].subnet = s

RepairInv ==
  /\ \A s \in Subnet : attached[s] = "none" => Repairing(s)
  /\ \A w \in Worker : tries[w] <= errors

LEMMA RepairInit == Init => RepairInv
  BY SizesAssumption DEF Init, RepairInv

(* The checker only adds messages.                                         *)
LEMMA RepairChecker ==
  ASSUME TypeInv, RepairInv, NEW c \in Checker, CheckerStep(c) \/ CheckerFails(c)
  PROVE  RepairInv'
<1>1. UNCHANGED <<attached, wpc, msg, tries, errors>>
  BY DEF CheckerStep, ReadConfig, CheckStatuses, SendMessage, SaveConfig, CheckerFails,
         workerVars
<1>2. \A m \in Message : queue[m] > 0 => queue'[m] > 0
  <2>1. CASE SendMessage(c)
    <3>1. PICK m \in Message : Enqueue(m)
      BY <2>1, SendEnqueues DEF TypeInv
    <3> QED
      BY <3>1, EnqueueWaits DEF TypeInv, TypeOK
  <2>2. CASE ~SendMessage(c)
    <3>1. queue' = queue
      BY <2>2 DEF CheckerStep, ReadConfig, CheckStatuses, SaveConfig, CheckerFails
    <3> QED
      BY <3>1
  <2> QED
    BY <2>1, <2>2
<1> QED
  BY <1>1, <1>2 DEF RepairInv, Repairing, Switching

LEMMA RepairWorker ==
  ASSUME MaxErrors < NumTries, TypeInv, RepairInv, NEW w \in Worker,
         WorkerStep(w) \/ OperationError(w) \/ WorkerFails(w)
  PROVE  RepairInv'
<1> USE DEF RepairInv, Switching
<1>0. TypeOK /\ Holding
  BY DEF TypeInv
<1>1. CASE Receive(w)
  <2>1. PICK m \in Message : /\ queue[m] > 0
                             /\ queue' = [queue EXCEPT ![m] = @ - 1]
                             /\ msg' = [msg EXCEPT ![w] = m]
    BY <1>1 DEF Receive
  <2>2. \A n \in Message : n # m => queue'[n] = queue[n]
    BY <1>0, <2>1 DEF TypeOK
  <2>3. wpc'[w] = "detach" /\ msg'[w] = m /\ wpc[w] = "idle"
    BY <1>0, <1>1, <2>1 DEF Receive, TypeOK
  <2>4. \A v \in Worker : v # w => wpc'[v] = wpc[v] /\ msg'[v] = msg[v]
    BY <1>0, <1>1, <2>1 DEF Receive, TypeOK
  <2>5. ASSUME NEW s \in Subnet, Repairing(s) PROVE Repairing(s)'
    <3>1. CASE m.subnet = s
      BY <2>3, <3>1 DEF Repairing
    <3>2. CASE m.subnet # s
      BY <2>2, <2>3, <2>4, <2>5, <3>2 DEF Repairing
    <3> QED
      BY <3>1, <3>2
  <2> QED
    BY <1>1, <2>5 DEF Receive
<1>2. CASE OperationDone(w)
  <2>1. msg[w] \in Message /\ msg[w].subnet \in Subnet /\ msg[w].to \in Side
    BY <1>0, <1>2 DEF OperationDone, TypeOK, Holding, Message
  <2>2. UNCHANGED <<queue, msg, errors>>
    BY <1>2 DEF OperationDone
  <2>3. \A v \in Worker : v # w => wpc'[v] = wpc[v]
    BY <1>0, <1>2 DEF OperationDone, TypeOK
  <2>4. \A v \in Worker : tries'[v] <= errors'
    BY <1>0, <1>2, <2>2, SizesAssumption DEF OperationDone, TypeOK
  <2>5. ASSUME NEW s \in Subnet, attached'[s] = "none" PROVE Repairing(s)'
    <3>1. CASE s = msg[w].subnet
      <4>1. attached'[s] = IF wpc[w] = "detach" THEN "none" ELSE msg[w].to
        BY <1>0, <1>2, <2>1, <3>1 DEF OperationDone, TypeOK
      <4>2. wpc[w] = "detach"
        BY <2>1, <2>5, <4>1 DEF Side
      <4>3. wpc'[w] = "attach"
        BY <1>0, <1>2, <4>2 DEF OperationDone, After, TypeOK
      <4> QED
        BY <2>2, <3>1, <4>3 DEF Repairing
    <3>2. CASE s # msg[w].subnet
      <4>1. attached[s] = "none"
        BY <1>0, <1>2, <2>5, <3>2 DEF OperationDone, TypeOK
      <4> QED
        BY <2>2, <2>3, <3>2, <4>1 DEF Repairing
    <3> QED
      BY <3>1, <3>2
  <2> QED
    BY <2>4, <2>5
<1>3. CASE OperationError(w)
  <2>1. tries[w] + 1 < NumTries
    BY <1>0, <1>3, SizesAssumption DEF OperationError, TypeOK
  <2>2. tries[w] + 1 # NumTries
    BY <1>0, <2>1, SizesAssumption DEF TypeOK
  <2>3. /\ UNCHANGED <<attached, queue, msg, wpc>>
        /\ tries' = [tries EXCEPT ![w] = @ + 1]
        /\ errors' = errors + 1
    BY <1>3, <2>2 DEF OperationError
  <2>4. \A v \in Worker : tries'[v] <= errors'
    BY <1>0, <2>3, SizesAssumption DEF TypeOK
  <2> QED
    BY <2>3, <2>4 DEF Repairing
<1>4. CASE Delete(w)
  <2>1. UNCHANGED <<attached, queue, tries, errors>>
    BY <1>4 DEF Delete
  <2>2. wpc[w] = "ack" /\ \A v \in Worker : v # w => wpc'[v] = wpc[v] /\ msg'[v] = msg[v]
    BY <1>0, <1>4 DEF Delete, TypeOK
  <2> QED
    BY <2>1, <2>2 DEF Repairing
<1>5. CASE WorkerFails(w)
  <2>1. msg[w] \in Message
    BY <1>0, <1>5 DEF WorkerFails, TypeOK, Holding
  <2>2. Enqueue(msg[w]) /\ UNCHANGED <<attached, errors>>
    BY <1>5 DEF WorkerFails
  <2>3. queue'[msg[w]] > 0 /\ \A n \in Message : queue[n] > 0 => queue'[n] > 0
    BY <1>0, <2>1, <2>2, EnqueueWaits DEF TypeOK
  <2>4. \A v \in Worker : v # w => wpc'[v] = wpc[v] /\ msg'[v] = msg[v]
    BY <1>0, <1>5 DEF WorkerFails, TypeOK
  <2>5. \A v \in Worker : tries'[v] <= errors'
    BY <1>0, <1>5, <2>2, SizesAssumption DEF WorkerFails, TypeOK
  <2>6. ASSUME NEW s \in Subnet, Repairing(s) PROVE Repairing(s)'
    <3>1. CASE msg[w].subnet = s
      BY <2>1, <2>3, <3>1 DEF Repairing
    <3>2. CASE msg[w].subnet # s
      BY <2>3, <2>4, <2>6, <3>2 DEF Repairing
    <3> QED
      BY <3>1, <3>2
  <2> QED
    BY <2>2, <2>5, <2>6
<1> QED
  BY <1>1, <1>2, <1>3, <1>4, <1>5 DEF WorkerStep

LEMMA RepairStep ==
  ASSUME MaxErrors < NumTries
  PROVE  TypeInv /\ RepairInv /\ [Next]_vars => RepairInv'
<1> SUFFICES ASSUME TypeInv, RepairInv, [Next]_vars PROVE RepairInv'
  OBVIOUS
<1>1. ASSUME NEW r \in Router, RouterChanges(r) PROVE RepairInv'
  BY <1>1 DEF RouterChanges, RepairInv, Repairing, Switching, checkerVars, workerVars
<1>2. CASE UNCHANGED vars
  BY <1>2 DEF vars, RepairInv, Repairing, Switching, checkerVars, workerVars
<1> QED
  BY <1>1, <1>2, RepairChecker, RepairWorker DEF Next

(* A subnet without a route table has a message, waiting or being handled, *)
(* that will attach one: whatever raises, times out or is redelivered, and *)
(* however many checkers and switchers overlap.  The assumption is what    *)
(* the code needs: with num_tries errors retry_rt_switch_operation gives   *)
(* up silently and the message is deleted.                                 *)
THEOREM DetachedHandled ==
  ASSUME MaxErrors < NumTries
  PROVE  Spec => []DetachedIsHandled
<1>1. TypeInv /\ RepairInv => DetachedIsHandled
  BY DEF TypeInv, Holding, RepairInv, Repairing, DetachedIsHandled, Handled, Switching
<1>2. TypeInv /\ RepairInv /\ [Next]_vars => TypeInv' /\ RepairInv'
  BY TypeStep, RepairStep
<1>3. Init => TypeInv /\ RepairInv
  BY TypeInit, RepairInit
<1> QED
  BY <1>1, <1>2, <1>3, PTL DEF Spec

-----------------------------------------------------------------------------
(* The requests under way, as the steps change them.                       *)

Held(w) == msg[w] \in Message /\ msg[w] \in Asked /\ msg[w].subnet \in Subnet

LEMMA BusyHolds ==
  ASSUME TypeInv, NEW w \in Worker, wpc[w] # "idle"
  PROVE  Held(w)
<1>1. msg[w] \in Message /\ msg[w] # Nil
  BY DEF TypeInv, TypeOK, Holding
<1> QED BY <1>1 DEF Held, Asked, Message

(* Sending a message is asking.                                            *)
LEMMA SendAsks ==
  ASSUME TypeInv, NEW c \in Checker, SendMessage(c)
  PROVE  \E s \in outbox[c] :
           LET m == [subnet |-> s, to |-> mine[c][RouterOf[s]]]
           IN  m \in Message /\ Asked' = Asked \cup {m}
<1>1. PICK s \in outbox[c] :
        LET m == [subnet |-> s, to |-> mine[c][RouterOf[s]]]
        IN  m \in Message /\ Enqueue(m)
  BY SendEnqueues DEF TypeInv
<1> DEFINE m == [subnet |-> s, to |-> mine[c][RouterOf[s]]]
<1>3. m \in Message /\ Enqueue(m)
  BY <1>1
<1> HIDE DEF m
<1>5. \A n \in Message : queue'[n] > 0 <=> queue[n] > 0 \/ n = m
  BY <1>3, EnqueueWaits DEF TypeInv, TypeOK
<1>6. msg' = msg
  BY DEF SendMessage, workerVars
<1>7. m # Nil
  BY <1>3, NilAssumption
<1>8. Asked' = Asked \cup {m}
  BY <1>3, <1>5, <1>6, <1>7 DEF Asked
<1> QED BY <1>3, <1>8 DEF m

(* The other steps of a checker concern nobody's route table.              *)
LEMMA CheckerElse ==
  ASSUME NEW c \in Checker, CheckerStep(c) \/ CheckerFails(c), ~SendMessage(c)
  PROVE  UNCHANGED <<attached, queue, wpc, msg>>
BY DEF CheckerStep, ReadConfig, CheckStatuses, SaveConfig, CheckerFails, workerVars

(* Neither taking a message nor putting it back changes what is asked for. *)
LEMMA ReceiveAsked ==
  ASSUME TypeInv, NEW w \in Worker, Receive(w)
  PROVE  Asked' = Asked /\ Served' = Served
<1>1. PICK m \in Message : /\ queue[m] > 0
                           /\ queue' = [queue EXCEPT ![m] = @ - 1]
                           /\ msg' = [msg EXCEPT ![w] = m]
  BY DEF Receive
<1>2. wpc[w] = "idle" /\ msg[w] = Nil /\ m # Nil
  BY NilAssumption DEF Receive, TypeInv, Holding
<1>3. \A v \in Worker : /\ wpc'[v] = IF v = w THEN "detach" ELSE wpc[v]
                        /\ msg'[v] = IF v = w THEN m ELSE msg[v]
  BY <1>1 DEF Receive, TypeInv, TypeOK
<1>4. \A n \in Message : queue[n] \in Nat
                         /\ queue'[n] = IF n = m THEN queue[n] - 1 ELSE queue[n]
  BY <1>1 DEF TypeInv, TypeOK
<1>5. \A n \in Message : queue'[n] > 0 \/ n = m <=> queue[n] > 0
  BY <1>1, <1>4
<1>6. Asked' = Asked
  BY <1>1, <1>2, <1>3, <1>5 DEF Asked
<1>7. Served' = Served
  BY <1>2, <1>3 DEF Served
<1> QED BY <1>6, <1>7

LEMMA FailAsked ==
  ASSUME TypeInv, NEW w \in Worker, WorkerFails(w)
  PROVE  Asked' = Asked /\ Served' \in {Served, Served \ {msg[w]}}
<1>1. msg[w] \in Message /\ msg[w] # Nil
  BY BusyHolds, NilAssumption DEF WorkerFails, Held
<1>2. \A v \in Worker : /\ wpc'[v] = IF v = w THEN "idle" ELSE wpc[v]
                        /\ msg'[v] = IF v = w THEN Nil ELSE msg[v]
  BY DEF WorkerFails, TypeInv, TypeOK
<1>4. \A n \in Message : queue'[n] > 0 <=> queue[n] > 0 \/ n = msg[w]
  BY <1>1, EnqueueWaits DEF WorkerFails, TypeInv, TypeOK
<1>5. Asked' = Asked
  BY <1>1, <1>2, <1>4 DEF Asked
<1>6. Served' \subseteq Served /\ Served \subseteq Served' \cup {msg[w]}
  BY <1>2 DEF Served
<1> QED BY <1>5, <1>6

(* Deleting a message forgets one copy of the request; while others of it  *)
(* are served, it is still under way.                                      *)
LEMMA DeleteAsked ==
  ASSUME TypeInv, NEW w \in Worker, Delete(w)
  PROVE  /\ msg[w] \in Served
         /\ Asked' \in {Asked, Asked \ {msg[w]}}
         /\ Served' \in {Served, Served \ {msg[w]}}
<1>1. wpc[w] = "ack" /\ queue' = queue
  BY DEF Delete
<1>2. \A v \in Worker : /\ wpc'[v] = IF v = w THEN "idle" ELSE wpc[v]
                        /\ msg'[v] = IF v = w THEN Nil ELSE msg[v]
  BY DEF Delete, TypeInv, TypeOK
<1>3. Asked' \subseteq Asked /\ Asked \subseteq Asked' \cup {msg[w]}
  BY <1>1, <1>2 DEF Asked
<1>4. Served' \subseteq Served /\ Served \subseteq Served' \cup {msg[w]}
  BY <1>2 DEF Served
<1>5. msg[w] \in Served
  BY <1>1 DEF Served
<1> QED BY <1>3, <1>4, <1>5

(* An operation that is not the last of its handler serves nothing.        *)
LEMMA DoneServes ==
  ASSUME TypeInv, NEW w \in Worker, OperationDone(w)
  PROVE  /\ Held(w)
         /\ Asked' = Asked
         /\ wpc[w] = "detach" =>
              /\ Served' = Served
              /\ attached' = [attached EXCEPT ![msg[w].subnet] = "none"]
         /\ wpc[w] = "attach" =>
              /\ Served' = Served \cup {msg[w]}
              /\ attached' = [attached EXCEPT ![msg[w].subnet] = msg[w].to]
<1>1. Switching(w) /\ UNCHANGED <<queue, msg>>
  BY DEF OperationDone
<1>2. Held(w)
  BY <1>1, BusyHolds DEF Switching
<1>3. \A v \in Worker : wpc'[v] = IF v = w THEN After(wpc[w]) ELSE wpc[v]
  BY DEF OperationDone, TypeInv, TypeOK
<1>4. Asked' = Asked
  BY <1>1 DEF Asked
<1>5. wpc[w] = "detach" => Served' = Served
  BY <1>1, <1>3 DEF Served, After
<1>6. wpc[w] = "attach" => Served' = Served \cup {msg[w]}
  BY <1>1, <1>3 DEF Served, After
<1> QED BY <1>2, <1>4, <1>5, <1>6 DEF OperationDone

(* No try is the last one.                                                 *)
LEMMA ErrorRetries ==
  ASSUME MaxErrors < NumTries, TypeInv, RepairInv, NEW w \in Worker, OperationError(w)
  PROVE  UNCHANGED <<attached, queue, wpc, msg>>
<1>1. tries[w] + 1 # NumTries
  BY SizesAssumption DEF OperationError, TypeInv, TypeOK, RepairInv
<1> QED BY <1>1 DEF OperationError

-----------------------------------------------------------------------------
(* The queue and the switchers implement RouteRequests.                    *)

(* A request is under way as long as handlers that served it are.          *)
LEMMA ServedAsked == TypeInv => Served \subseteq Asked
BY BusyHolds DEF Served, Held

LEMMA RequestsInit == Init => Requests!Init
<1> SUFFICES ASSUME Init PROVE Requests!Init
  OBVIOUS
<1>1. attached \in [Subnet -> Side]
  BY DEF Init, Side
<1>2. Asked = {} /\ Served = {}
  BY DEF Init, Asked, Served
<1> QED BY <1>1, <1>2 DEF Requests!Init

LEMMA RequestsWorker ==
  ASSUME MaxErrors < NumTries, TypeInv, RepairInv, TypeInv', RepairInv',
         NEW w \in Worker, WorkerStep(w) \/ OperationError(w) \/ WorkerFails(w)
  PROVE  Requests!Next \/ UNCHANGED <<attached, Asked, Served>>
<1>0. Requests!Request = Message
  BY DEF Requests!Request, Message
<1>1. CASE Receive(w)
  BY <1>1, ReceiveAsked DEF Receive
<1>2. CASE OperationDone(w)
  <2>1. CASE wpc[w] = "detach"
    <3>1. Requests!Detach(msg[w])
      BY <1>2, <2>1, DoneServes DEF Held, Requests!Detach
    <3> QED BY <1>0, <1>2, <3>1, DoneServes DEF Held, Requests!Next
  <2>2. CASE wpc[w] = "attach"
    <3>1. Requests!Attach(msg[w])
      BY <1>2, <2>2, DoneServes DEF Held, Requests!Attach
    <3> QED BY <1>0, <1>2, <3>1, DoneServes DEF Held, Requests!Next
  <2> QED BY <1>2, <2>1, <2>2 DEF OperationDone, Switching
<1>3. CASE OperationError(w)
  <2>1. UNCHANGED <<attached, queue, wpc, msg>>
    BY <1>3, ErrorRetries
  <2> QED BY <2>1 DEF Asked, Served
<1>4. CASE Delete(w)
  <2>1. Held(w) /\ UNCHANGED attached
    BY <1>4, BusyHolds DEF Delete
  <2>2. ASSUME attached[msg[w].subnet] = "none"
        PROVE  \E n \in Asked' : n.subnet = msg[w].subnet
    <3>1. PICK s \in Subnet : s = msg[w].subnet /\ attached'[s] = "none"
      BY <2>1, <2>2 DEF Held
    <3>2. Repairing(s)'
      BY <3>1 DEF RepairInv
    <3>3. CASE \E m \in Message : m.subnet = s /\ queue'[m] > 0
      BY <3>1, <3>3, NilAssumption DEF Asked
    <3>4. CASE \E v \in Worker : Switching(v)' /\ msg'[v].subnet = s
      <4>1. PICK v \in Worker : Switching(v)' /\ msg'[v].subnet = s
        BY <3>4
      <4>2. msg'[v] \in Asked'
        BY <4>1 DEF Switching, TypeInv, Holding, Asked
      <4> QED BY <3>1, <4>1, <4>2
    <3> QED BY <3>2, <3>3, <3>4 DEF Repairing
  <2>3. Served' \subseteq Asked'
    BY DEF Served, Asked, TypeInv, Holding
  <2>4. Requests!Forget(msg[w])
    BY <1>4, <2>1, <2>2, <2>3, DeleteAsked DEF Requests!Forget
  <2> QED BY <1>0, <2>1, <2>4 DEF Held, Requests!Next
<1>5. CASE WorkerFails(w)
  <2>1. Held(w) /\ UNCHANGED attached
    BY <1>5, BusyHolds DEF WorkerFails
  <2>2. Asked' = Asked /\ Served' \in {Served, Served \ {msg[w]}}
    BY <1>5, FailAsked
  <2>3. CASE Served' = Served
    BY <2>1, <2>2, <2>3
  <2>4. CASE Served' = Served \ {msg[w]} /\ Served' # Served
    <3>1. Requests!Repeat(msg[w])
      BY <2>1, <2>2, <2>4 DEF Requests!Repeat
    <3> QED BY <1>0, <2>1, <3>1 DEF Held, Requests!Next
  <2> QED BY <2>2, <2>3, <2>4
<1> QED BY <1>1, <1>2, <1>3, <1>4, <1>5 DEF WorkerStep

(* Every behaviour of checkers, queue and switchers is one that the        *)
(* promise of RouteRequests allows: a request is carried out at least once *)
(* before it is forgotten.  With num_tries errors in a row it is not: the  *)
(* message of a subnet that was never attached is deleted.                 *)
THEOREM RequestsImplemented ==
  ASSUME MaxErrors < NumTries
  PROVE  Spec => ImplementsRequests
<1>1. TypeInv /\ TypeInv' /\ RepairInv /\ RepairInv' /\ [Next]_vars
        => [Requests!Next]_Requests!vars
  <2> SUFFICES ASSUME TypeInv, TypeInv', RepairInv, RepairInv', [Next]_vars
               PROVE  Requests!Next \/ UNCHANGED <<attached, Asked, Served>>
    BY DEF Requests!vars
  <2>1. (UNCHANGED <<attached, queue, wpc, msg>>) => UNCHANGED <<attached, Asked, Served>>
    BY DEF Asked, Served
  <2>2. ASSUME NEW c \in Checker, SendMessage(c)
        PROVE  Requests!Next \/ UNCHANGED <<attached, Asked, Served>>
    <3>1. PICK m \in Message : Asked' = Asked \cup {m}
      BY <2>2, SendAsks
    <3>2. UNCHANGED <<attached, Served>>
      BY <2>2 DEF SendMessage, workerVars, Served
    <3>3. m \notin Asked => Requests!Ask(m)
      BY <3>1, <3>2 DEF Requests!Ask
    <3> QED BY <3>1, <3>2, <3>3 DEF Requests!Next, Requests!Request, Message
  <2>3. ASSUME NEW r \in Router, RouterChanges(r) PROVE UNCHANGED <<attached, Asked, Served>>
    BY <2>1, <2>3 DEF RouterChanges, workerVars
  <2>4. CASE UNCHANGED vars
    BY <2>1, <2>4 DEF vars, workerVars
  <2> QED BY <2>1, <2>2, <2>3, <2>4, CheckerElse, RequestsWorker DEF Next
<1>2. TypeInv /\ RepairInv /\ [Next]_vars => TypeInv' /\ RepairInv'
  BY TypeStep, RepairStep
<1>3. Init => TypeInv /\ RepairInv
  BY TypeInit, RepairInit
<1> QED
  BY <1>1, <1>2, <1>3, RequestsInit, PTL DEF Spec, Requests!Spec, ImplementsRequests

-----------------------------------------------------------------------------
(* The system does not turn back.                                          *)

(* A switcher asks for nothing.                                            *)
LEMMA WorkerAsks ==
  ASSUME TypeInv, NEW w \in Worker, WorkerStep(w) \/ OperationError(w) \/ WorkerFails(w)
  PROVE  Asked' \subseteq Asked /\ UNCHANGED <<cpc, mine, outbox>>
<1>1. UNCHANGED <<cpc, mine, outbox>>
  BY DEF WorkerStep, Receive, OperationDone, Delete, OperationError, WorkerFails, checkerVars
<1>2. CASE Receive(w) \/ WorkerFails(w) \/ Delete(w)
  BY <1>1, <1>2, ReceiveAsked, FailAsked, DeleteAsked
<1>3. CASE OperationDone(w) \/ OperationError(w)
  <2>1. UNCHANGED <<queue, msg>>
    BY <1>3 DEF OperationDone, OperationError
  <2> QED BY <1>1, <2>1 DEF Asked
<1> QED BY <1>1, <1>2, <1>3 DEF WorkerStep

(* What a checker decides to send and what it sends leads to the side its  *)
(* router's state asks for, if what it had decided before does.            *)
LEMMA CheckerTowards ==
  ASSUME TypeInv, NEW c \in Checker, CheckerStep(c) \/ CheckerFails(c),
         NEW s \in Subnet, NEW side, side = Wanted(RouterOf[s]), Towards(s, side)
  PROVE  Towards(s, side)'
<1>1. CASE SendMessage(c)
  <2>1. PICK u \in outbox[c] :
          LET m == [subnet |-> u, to |-> mine[c][RouterOf[u]]]
          IN  m \in Message /\ Asked' = Asked \cup {m}
    BY <1>1, SendAsks
  <2>2. cpc[c] = "send" /\ UNCHANGED <<cpc, mine>>
    BY <1>1 DEF SendMessage
  <2>3. \A m \in Asked' : m.subnet = s => m.to = side
    BY <2>1, <2>2 DEF Towards
  <2>4. \A d \in Checker : outbox'[d] \subseteq outbox[d]
    BY <1>1 DEF SendMessage, TypeInv, TypeOK
  <2> QED BY <2>2, <2>3, <2>4 DEF Towards
<1>2. CASE ~SendMessage(c)
  <2>1. Asked' = Asked
    BY <1>2, CheckerElse DEF Asked
  <2>2. \A d \in Checker \ {c} :
          cpc'[d] = cpc[d] /\ mine'[d] = mine[d] /\ outbox'[d] = outbox[d]
    BY <1>2 DEF CheckerStep, ReadConfig, CheckStatuses, SaveConfig, CheckerFails, Rest,
                TypeInv, TypeOK
  <2>3. CASE CheckStatuses(c)
    <3>1. outbox'[c] = {u \in Subnet : RouterOf[u] \in ToSwitch(c)}
      BY <2>3 DEF CheckStatuses, TypeInv, TypeOK
    <3>2. \A r \in ToSwitch(c) : r \in Router /\ mine'[c][r] = Wanted(r)
      BY <2>3 DEF CheckStatuses, TypeInv, TypeOK, ToSwitch
    <3>3. s \in outbox'[c] => mine'[c][RouterOf[s]] = side
      BY <3>1, <3>2
    <3> QED BY <2>1, <2>2, <3>3 DEF Towards
  <2>4. CASE ReadConfig(c) \/ SaveConfig(c) \/ CheckerFails(c)
    <3>1. cpc'[c] # "send"
      BY <2>4 DEF ReadConfig, SaveConfig, CheckerFails, Rest, TypeInv, TypeOK
    <3> QED BY <2>1, <2>2, <3>1 DEF Towards
  <2> QED BY <1>2, <2>3, <2>4 DEF CheckerStep
<1> QED BY <1>1, <1>2

(* A switcher attaches what its message names.                             *)
LEMMA WorkerTowards ==
  ASSUME TypeInv, NEW w \in Worker, WorkerStep(w) \/ OperationError(w) \/ WorkerFails(w),
         NEW s \in Subnet, NEW side, Towards(s, side)
  PROVE  Towards(s, side)' /\ attached'[s] \in {attached[s], "none", side}
<1>1. Towards(s, side)'
  BY WorkerAsks DEF Towards
<1>2. CASE OperationDone(w)
  <2>1. Held(w) /\ (msg[w].subnet = s => msg[w].to = side)
    BY <1>2, DoneServes DEF Held, Towards
  <2>2. attached'[s] = IF msg[w].subnet # s THEN attached[s]
                       ELSE IF wpc[w] = "detach" THEN "none" ELSE msg[w].to
    BY <1>2 DEF OperationDone, TypeInv, TypeOK
  <2> QED BY <1>1, <2>1, <2>2
<1>3. CASE ~OperationDone(w)
  BY <1>1, <1>3 DEF WorkerStep, Receive, Delete, OperationError, WorkerFails
<1> QED BY <1>2, <1>3

LEMMA TowardsStep ==
  ASSUME TypeInv, [Next]_vars, NEW s \in Subnet, NEW side,
         side = Wanted(RouterOf[s]), Towards(s, side)
  PROVE  Towards(s, side)' /\ attached'[s] \in {attached[s], "none", side}
<1>1. ASSUME NEW c \in Checker, CheckerStep(c) \/ CheckerFails(c)
      PROVE  Towards(s, side)' /\ attached'[s] = attached[s]
  <2>1. Towards(s, side)'
    BY <1>1, CheckerTowards
  <2>2. attached' = attached
    BY <1>1, CheckerElse DEF SendMessage
  <2> QED BY <2>1, <2>2
<1>2. (UNCHANGED <<attached, queue, msg, cpc, mine, outbox>>)
        => Towards(s, side)' /\ attached'[s] = attached[s]
  BY DEF Towards, Asked
<1>3. ASSUME NEW r \in Router, RouterChanges(r)
      PROVE  Towards(s, side)' /\ attached'[s] = attached[s]
  BY <1>2, <1>3 DEF RouterChanges, checkerVars, workerVars
<1>4. (UNCHANGED vars) => Towards(s, side)' /\ attached'[s] = attached[s]
  BY <1>2 DEF vars, checkerVars, workerVars
<1> QED BY <1>1, <1>3, <1>4, WorkerTowards DEF Next

(* However old a checker's copy of the config and in whatever order the    *)
(* messages are taken, once all that is under way for a subnet leads to    *)
(* the side its router's state asks for, nothing leads it back.            *)
THEOREM NeverTurnsBack == Spec => NoTurningBack
<1>1. TypeInv /\ [Next]_vars =>
        \A s \in Subnet, side \in Side :
          side = Wanted(RouterOf[s]) /\ Towards(s, side) =>
            /\ Towards(s, side)'
            /\ attached'[s] \in {attached[s], "none", side}
  BY TowardsStep
<1>2. TypeInv /\ [Next]_vars => TypeInv'
  BY TypeStep
<1> QED
  BY <1>1, <1>2, TypeInit, PTL DEF Spec, NoTurningBack

(* "For good" in FailoverReached and FailbackReached: a subnet that has    *)
(* the route table its router's state asks for, with nothing but that      *)
(* under way, keeps it while the state lasts, but for moments in which a   *)
(* repeated message takes it off to attach it again.                       *)
THEOREM ReachedForGood ==
  ASSUME NEW s \in Subnet, NEW side \in Side
  PROVE  Spec => [](Towards(s, side) /\ attached[s] \in {side, "none"}
                      /\ [](side = Wanted(RouterOf[s]))
                        => [](attached[s] \in {side, "none"}))
<1> DEFINE Reached == Towards(s, side) /\ attached[s] \in {side, "none"}
<1>1. TypeInv /\ Reached /\ side = Wanted(RouterOf[s]) /\ [Next]_vars => Reached'
  BY TowardsStep
<1>2. TypeInv /\ [Next]_vars => TypeInv'
  BY TypeStep
<1>3. Towards(s, side) /\ attached[s] \in {side, "none"} => Reached
  OBVIOUS
<1>4. Reached => attached[s] \in {side, "none"}
  OBVIOUS
<1> HIDE DEF Reached
<1> QED
  BY <1>1, <1>2, <1>3, <1>4, TypeInit, PTL DEF Spec
=============================================================================
