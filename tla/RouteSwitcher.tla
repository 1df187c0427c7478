--------------------------- MODULE RouteSwitcher ---------------------------
(***************************************************************************)
(* The route-switcher function, version 2 (main.py): a timer starts it     *)
(* once a minute; an invocation reads the config object from the bucket,   *)
(* asks the network load balancer for the routers' states, reads every     *)
(* route table of the config, computes new next hops, sends the changed    *)
(* tables with whole-list PATCH requests from a thread pool and, when the  *)
(* remembered preferred hops changed, writes the config object back.       *)
(*                                                                         *)
(* Several invocations may overlap (the timer fires every 60 s and the     *)
(* execution timeout is 600 s); each keeps its own copy of the config.     *)
(***************************************************************************)
EXTENDS Naturals, FiniteSets

CONSTANTS
  Router,         \* healthchecked routers (network VMs)
  Address,        \* own_ip of the routers' interfaces, used as next hops
  Foreign,        \* next hops of other static routes, no router's address
  Prefix,         \* destination prefixes
  NumTables,      \* route tables listed in the config, in this order
  Reports,        \* bound: what the load balancer may report of a router
  Owner,          \* the router an address belongs to
  Backup,         \* backup_peer_ip of an address
  Segment,        \* the network an address belongs to
  Home,           \* the network a route table belongs to
  BackToPrimary,  \* BACK_TO_PRIMARY is 'true'
  Invocation,     \* slots for concurrently running invocations
  OperatorEdits,  \* when the operator edits a table: "never", "quiet", "anytime"
  MaxApplies,     \* bound: terraform applies of new input parameters
  NoHop,          \* the prefix is not in the table / not in the config
  NoTable         \* no table to send

Table == 1 .. NumTables
Hop == Address \cup Foreign
Routes == [Prefix -> Hop \cup {NoHop}]
Status == {"HEALTHY", "UNHEALTHY", "ABSENT"}
Config == [routes : [Table -> Routes], keyed : SUBSET Table, gen : 0 .. MaxApplies]

ASSUME TablesAssumption == NumTables \in Nat /\ MaxApplies \in Nat
ASSUME ReportsAssumption == Reports \in [Router -> SUBSET Status]
ASSUME AddressAssumption ==
  /\ Owner \in [Address -> Router]
  /\ Backup \in [Address -> Address]
  /\ Address \cap Foreign = {}
ASSUME SegmentAssumption == \A a \in Address : Segment[Backup[a]] = Segment[a]
ASSUME NullAssumption == NoHop \notin Hop /\ NoTable \notin Routes
ASSUME ModeAssumption ==
  BackToPrimary \in BOOLEAN /\ OperatorEdits \in {"never", "quiet", "anytime"}

VARIABLES
  status,    \* what the load balancer reports of each router
  nextHop,   \* the static routes of each table, as the VPC holds them
  ops,       \* the accepted update operation of a table, not yet carried out
  config,    \* the config object in the bucket
  pc,        \* where an invocation is
  conf,      \* an invocation's copy of the config
  snap,      \* the router states an invocation was given
  cursor,    \* the next table in its loop over config['route_tables']
  patch,     \* all_routeTables: the tables it has still to send
  changed,   \* its config_changed flag
  behind     \* history: invocations at work that have not read the object
             \* since another one last saved it

env == <<status, nextHop, ops, config, behind>>
local == <<pc, conf, snap, cursor, patch, changed>>
vars == <<env, local>>

EmptyRoutes == [p \in Prefix |-> NoHop]
FreshConfig(g) == [routes |-> [t \in Table |-> EmptyRoutes], keyed |-> {}, gen |-> g]
NoPatches == [t \in Table |-> NoTable]
AllHealthy == [r \in Router |-> "HEALTHY"]

LocalHops(t) == {a \in Address : Segment[a] = Home[t]}

TypeOK ==
  /\ status \in [Router -> Status]
  /\ nextHop \in [Table -> Routes]
  /\ ops \in [Table -> Routes \cup {NoTable}]
  /\ config \in Config
  /\ pc \in [Invocation -> {"idle", "check", "tables"}]
  /\ conf \in [Invocation -> Config]
  /\ snap \in [Invocation -> [Router -> Status]]
  /\ cursor \in [Invocation -> 1 .. NumTables + 1]
  /\ patch \in [Invocation -> [Table -> Routes \cup {NoTable}]]
  /\ changed \in [Invocation -> BOOLEAN]
  /\ behind \subseteq Invocation

(* The module is started once every router is healthy (README, deployment  *)
(* steps 5 and 6); the tables hold routes of the operator's choice.        *)
Init ==
  /\ status = AllHealthy
  /\ nextHop \in [Table -> Routes]
  /\ \A t \in Table, p \in Prefix :
       nextHop[t][p] \in LocalHops(t) \cup Foreign \cup {NoHop}
  /\ ops = NoPatches
  /\ config = FreshConfig(0)
  /\ pc = [i \in Invocation |-> "idle"]
  /\ conf = [i \in Invocation |-> FreshConfig(0)]
  /\ snap = [i \in Invocation |-> AllHealthy]
  /\ cursor = [i \in Invocation |-> 1]
  /\ patch = [i \in Invocation |-> NoPatches]
  /\ changed = [i \in Invocation |-> FALSE]
  /\ behind = {}

-----------------------------------------------------------------------------
(* What one invocation computes.                                           *)

(* Keys of healthy_nexthops and of unhealthy_nexthops.  A router that is   *)
(* not among the target states contributes to neither.                     *)
Up(s) == {a \in Address : s[Owner[a]] = "HEALTHY"}
Down(s) == {a \in Address : s[Owner[a]] = "UNHEALTHY"}

(* Seeded bug: the state of the router in use is not looked at.            *)
FailsOverAlways(h, s) == Backup[h] \in Up(s)

FailsOver(h, s) == h \in Down(s) /\ Backup[h] \in Up(s)

(* Seeded bug: the hop in use need not be a router's.                      *)
FailsBackFromAny(h, primary, s) ==
  BackToPrimary /\ primary \in Up(s) /\ primary # h

(* Seeded bug: returns only when the hop in use is down.                   *)
FailsBackLate(h, primary, s) ==
  BackToPrimary /\ h \in Down(s) /\ primary \in Up(s) /\ primary # h

FailsBack(h, primary, s) ==
  BackToPrimary /\ h \in Up(s) /\ primary \in Up(s) /\ primary # h

Switched(table, routes, s) ==
  [p \in Prefix |->
     IF table[p] \in Address /\ FailsOver(table[p], s) THEN Backup[table[p]]
     ELSE IF FailsBack(table[p], routes[p], s) THEN routes[p]
     ELSE table[p]]

(* Prefixes whose next hop is a known router address: routeTable_prefixes. *)
Managed(table, s) == {p \in Prefix : table[p] \in Up(s) \cup Down(s)}

(* Seeded bug: a known prefix is recorded again.                           *)
UnrecordedAgain(table, routes, s) ==
  {p \in Prefix : table[p] \in Up(s) /\ routes[p] # table[p]}

(* Prefixes on a healthy hop that the config does not know yet.            *)
Unrecorded(table, routes, s) ==
  {p \in Prefix : table[p] \in Up(s) /\ routes[p] = NoHop}

Recorded(table, routes, s) ==
  [p \in Prefix |->
     IF p \in Unrecorded(table, routes, s) THEN table[p] ELSE routes[p]]

Keys(routes) == {p \in Prefix : routes[p] # NoHop}

(* Stale prefixes are dropped only when the NUMBERS of prefixes differ.    *)
Differ(table, routes, s) == Cardinality(Keys(routes)) # Cardinality(Managed(table, s))

Pruned(table, routes, s) ==
  [p \in Prefix |->
     IF Differ(table, routes, s) /\ p \notin Managed(table, s)
       THEN NoHop ELSE routes[p]]

-----------------------------------------------------------------------------
(* The steps of an invocation.                                             *)

Active(i) == pc[i] # "idle"

(* The invocation is over: it returned, raised or was killed.              *)
Ends(i) ==
  /\ pc' = [pc EXCEPT ![i] = "idle"]
  /\ conf' = [conf EXCEPT ![i] = FreshConfig(0)]
  /\ snap' = [snap EXCEPT ![i] = AllHealthy]
  /\ cursor' = [cursor EXCEPT ![i] = 1]
  /\ patch' = [patch EXCEPT ![i] = NoPatches]
  /\ changed' = [changed EXCEPT ![i] = FALSE]

(* handler: get_config.  When it fails the handler returns at once, which  *)
(* is a stuttering step.                                                   *)
Start(i) ==
  /\ pc[i] = "idle"
  /\ pc' = [pc EXCEPT ![i] = "check"]
  /\ conf' = [conf EXCEPT ![i] = config]
  /\ behind' = behind \ {i}
  /\ UNCHANGED <<status, nextHop, ops, config, snap, cursor, patch, changed>>

Targets == {r \in Router : status[r] # "ABSENT"}

(* Seeded bug: wants two healthy targets.                                  *)
UsableTwoHealthy ==
  Cardinality({r \in Router : status[r] = "HEALTHY"}) >= 2

(* The states allow a failover: two targets at least, one of them healthy. *)
Usable ==
  /\ Cardinality(Targets) >= 2
  /\ \E r \in Router : status[r] = "HEALTHY"

GetStatuses(i) ==
  /\ pc[i] = "check"
  /\ Usable
  /\ pc' = [pc EXCEPT ![i] = "tables"]
  /\ snap' = [snap EXCEPT ![i] = status]
  /\ UNCHANGED <<env, conf, cursor, patch, changed>>

(* The request failed, or one of the early returns was taken.              *)
GiveUp(i) ==
  /\ pc[i] = "check"
  /\ Ends(i)
  /\ UNCHANGED env

Looping(i) == pc[i] = "tables" /\ cursor[i] <= NumTables

(* Seeded bug: runs past the end of the list.                              *)
SkipTablePastEnd(i) ==
  /\ pc[i] = "tables"
  /\ cursor' = [cursor EXCEPT ![i] = @ + 1]
  /\ UNCHANGED <<env, pc, conf, snap, patch, changed>>

(* The GET failed, or the table holds no route: on to the next table.  In  *)
(* the second case the remembered hops of the table are left alone.        *)
SkipTable(i) ==
  /\ Looping(i)
  /\ cursor' = [cursor EXCEPT ![i] = @ + 1]
  /\ UNCHANGED <<env, pc, conf, snap, patch, changed>>

(* The body of the loop for a table that was read and holds routes.        *)
ReadTable(i) ==
  /\ Looping(i)
  /\ nextHop[cursor[i]] # EmptyRoutes
  /\ LET t == cursor[i]
         table == nextHop[t]
         s == snap[i]
         old == conf[i].routes[t]
         inserted == Unrecorded(table, old, s) # {}
         known == Recorded(table, old, s)
         keyed == t \in conf[i].keyed \/ inserted
         new == Switched(table, old, s)
     IN  /\ conf' = [conf EXCEPT
              ![i].routes[t] = IF keyed THEN Pruned(table, known, s) ELSE old,
              ![i].keyed = IF keyed THEN @ \cup {t} ELSE @]
         /\ changed' = [changed EXCEPT
              ![i] = @ \/ inserted \/ (keyed /\ Differ(table, known, s))]
         /\ patch' = [patch EXCEPT
              ![i][t] = IF new # table THEN new ELSE NoTable]
         /\ cursor' = [cursor EXCEPT ![i] = @ + 1]
  /\ UNCHANGED <<env, pc, snap>>

Looped(i) == pc[i] = "tables" /\ cursor[i] = NumTables + 1

(* Seeded bug: sends the changed routes only.                              *)
SendChangedRoutes(i, t) ==
  /\ Looped(i)
  /\ patch[i][t] # NoTable
  /\ ops[t] = NoTable
  /\ ops' = [ops EXCEPT ![t] =
       [p \in Prefix |-> IF patch[i][t][p] # nextHop[t][p] THEN patch[i][t][p] ELSE NoHop]]
  /\ patch' = [patch EXCEPT ![i][t] = NoTable]
  /\ UNCHANGED <<status, nextHop, config, behind, pc, conf, snap, cursor, changed>>

(* failover: one thread of the pool sends a table.  The VPC accepts the    *)
(* request and carries it out later; the operation is not waited for.      *)
SendTable(i, t) ==
  /\ Looped(i)
  /\ patch[i][t] # NoTable
  /\ ops[t] = NoTable
  /\ ops' = [ops EXCEPT ![t] = patch[i][t]]
  /\ patch' = [patch EXCEPT ![i][t] = NoTable]
  /\ UNCHANGED <<status, nextHop, config, behind, pc, conf, snap, cursor, changed>>

(* The request raises, is answered with an error, or has no operation id:  *)
(* failover logs it and returns.                                           *)
SendFails(i, t) ==
  /\ Looped(i)
  /\ patch[i][t] # NoTable
  /\ patch' = [patch EXCEPT ![i][t] = NoTable]
  /\ UNCHANGED <<env, pc, conf, snap, cursor, changed>>

(* The pool has been waited for.  put_config uploads the whole object.     *)
PutConfig(i) ==
  /\ Looped(i)
  /\ patch[i] = NoPatches
  /\ changed[i]
  /\ config' = conf[i]
  /\ behind' = {j \in Invocation \ {i} : Active(j)}
  /\ Ends(i)
  /\ UNCHANGED <<status, nextHop, ops>>

(* Nothing to store, or the upload raises and nothing catches it.          *)
ReturnsOrRaises(i) ==
  /\ Looped(i)
  /\ patch[i] = NoPatches
  /\ Ends(i)
  /\ UNCHANGED env

(* The function runs into its execution timeout (600 s) at any point.      *)
TimesOut(i) ==
  /\ Active(i)
  /\ Ends(i)
  /\ UNCHANGED env

-----------------------------------------------------------------------------
(* The cloud and its operator (outside main.py).                           *)

(* The VPC carries an accepted update out, or the operation fails.         *)
ApplyOperation(t) ==
  /\ ops[t] # NoTable
  /\ nextHop' = [nextHop EXCEPT ![t] = ops[t]]
  /\ ops' = [ops EXCEPT ![t] = NoTable]
  /\ UNCHANGED <<status, config, behind, local>>

DropOperation(t) ==
  /\ ops[t] # NoTable
  /\ ops' = [ops EXCEPT ![t] = NoTable]
  /\ UNCHANGED <<status, nextHop, config, behind, local>>

SetStatus(r, s) ==
  /\ s \in Reports[r] \ {status[r]}
  /\ status' = [status EXCEPT ![r] = s]
  /\ UNCHANGED <<nextHop, ops, config, behind, local>>

Quiet == ops = NoPatches /\ \A i \in Invocation : ~Active(i)

(* The operator adds, deletes or re-points a route.                        *)
EditRoute(t, p, h) ==
  /\ OperatorEdits = "anytime" \/ (OperatorEdits = "quiet" /\ Quiet)
  /\ nextHop[t][p] # h
  /\ nextHop' = [nextHop EXCEPT ![t][p] = h]
  /\ UNCHANGED <<status, ops, config, behind, local>>

OperatorStep ==
  \E t \in Table, p \in Prefix :
    \E h \in LocalHops(t) \cup Foreign \cup {NoHop} : EditRoute(t, p, h)

(* terraform apply of new input parameters renders the config object anew, *)
(* without the remembered hops; to be done while all routers are healthy   *)
(* (README, section on changing the parameters).                           *)
ApplyParameters ==
  /\ config.gen < MaxApplies
  /\ status = AllHealthy
  /\ config' = FreshConfig(config.gen + 1)
  /\ UNCHANGED <<status, nextHop, ops, behind, local>>

InvocationStep(i) ==
  \/ Start(i)
  \/ GetStatuses(i)
  \/ GiveUp(i)
  \/ SkipTable(i)
  \/ ReadTable(i)
  \/ \E t \in Table : SendTable(i, t) \/ SendFails(i, t)
  \/ PutConfig(i)
  \/ ReturnsOrRaises(i)
  \/ TimesOut(i)

Next ==
  \/ \E i \in Invocation : InvocationStep(i)
  \/ \E t \in Table : ApplyOperation(t) \/ DropOperation(t)
  \/ \E r \in Router, s \in Status : SetStatus(r, s)
  \/ OperatorStep
  \/ ApplyParameters

Spec == Init /\ [][Next]_vars

-----------------------------------------------------------------------------
(* Fairness.  The timer keeps firing and an invocation keeps running; the  *)
(* VPC carries accepted operations out; and from some time on no request   *)
(* fails for a reason of its own.                                          *)

(* The steps of an invocation whose every request is answered in time.     *)
Working(i) ==
  \/ Start(i)
  \/ GetStatuses(i)
  \/ ~Usable /\ GiveUp(i)
  \/ ReadTable(i)
  \/ SkipTable(i) /\ nextHop[cursor[i]] = EmptyRoutes
  \/ \E t \in Table : SendTable(i, t) \/ (ops[t] # NoTable /\ SendFails(i, t))
  \/ PutConfig(i)
  \/ ~changed[i] /\ ReturnsOrRaises(i)

Fault ==
  \/ \E i \in Invocation : InvocationStep(i) /\ ~Working(i)
  \/ \E t \in Table : DropOperation(t) /\ ~ApplyOperation(t)

FairSpec ==
  /\ Spec
  /\ \A i \in Invocation : WF_vars(Working(i))
  /\ \A t \in Table : WF_vars(ApplyOperation(t))
  /\ <>[][~Fault]_vars

-----------------------------------------------------------------------------
(* Properties.                                                             *)

(* A next hop never leaves the network its table belongs to: neither a     *)
(* failover nor a return to a remembered hop, sent from however stale a    *)
(* copy, gives a table an address of another VPC.                          *)
HopsStayInSegment ==
  \A t \in Table, p \in Prefix :
    nextHop[t][p] \in Address => Segment[nextHop[t][p]] = Home[t]

(* While the operator leaves the tables alone during a run, the switcher   *)
(* changes nothing but next hops of routes through router addresses: the   *)
(* whole-list PATCH neither loses a route nor moves one of another kind.   *)
OnlyRouterHopsMove ==
  [][OperatorStep \/
     \A t \in Table, p \in Prefix :
       nextHop'[t][p] # nextHop[t][p] =>
         nextHop[t][p] \in Address /\ nextHop'[t][p] \in Address]_vars

(* Seen from outside, the switcher is a caretaker of the tables: its steps *)
(* are invisible but for accepted operations, and those only re-point      *)
(* routes through routers, within the table's network.  It is so although  *)
(* the list an operation carries was computed from an earlier table, and   *)
(* by an invocation that may be overlapped, killed or outdated by then.    *)
Protected == INSTANCE ProtectedTables WITH busy <- {t \in Table : ops[t] # NoTable}

ImplementsProtected == Protected!Spec

(* Once remembered, the preferred hop of a route is kept or forgotten, and *)
(* not replaced (by the backup in use, say).  The exception is a run that  *)
(* read the object before another run saved it and, as put_config writes   *)
(* the whole object, saves over it: both may have found the prefix unknown *)
(* and seen different hops in use.                                         *)
PreferredHopKept ==
  [][config'.gen = config.gen =>
       \/ \E i \in behind : PutConfig(i)
       \/ \A t \in Table, p \in Prefix :
            config.routes[t][p] # NoHop =>
              config'.routes[t][p] \in {config.routes[t][p], NoHop}]_vars

(* Every router is healthy, every route through a router is on its         *)
(* preferred hop and no change is under way.                               *)
Settled ==
  /\ status = AllHealthy
  /\ ops = NoPatches
  /\ \A t \in Table, p \in Prefix :
       nextHop[t][p] \in Address =>
         /\ config.routes[t][p] = nextHop[t][p]
         /\ \A i \in Invocation : Active(i) => conf[i].routes[t][p] = nextHop[t][p]
  /\ \A i \in Invocation : snap[i] = AllHealthy /\ patch[i] = NoPatches

(* The switcher does not disturb a network that needs nothing: a settled   *)
(* state stays settled until a router fails or somebody edits.             *)
SettledStays ==
  [][Settled /\ UNCHANGED status /\ ~OperatorStep /\ ~ApplyParameters => Settled']_vars

(* When a router stays down and the backup of its address stays up, the    *)
(* routes through it leave it for good.                                    *)
FailoverHappens ==
  \A a \in Address :
    <>[](a \in Down(status) /\ Backup[a] \in Up(status))
      => <>[](\A t \in Table, p \in Prefix : nextHop[t][p] # a)

(* When every router stays healthy, every route through a router ends up   *)
(* on its remembered preferred hop and stays there.                        *)
FailbackHappens ==
  <>[](status = AllHealthy)
    => <>[](\A t \in Table, p \in Prefix :
              nextHop[t][p] \in Address => config.routes[t][p] = nextHop[t][p])

(* "In the course of the module's work its input parameters can be         *)
(* changed" (README): parameters applied are not undone by the function.   *)
AppliedParametersStay == [][config'.gen >= config.gen]_vars

=============================================================================
