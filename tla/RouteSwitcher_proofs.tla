------------------------ MODULE RouteSwitcher_proofs ------------------------
(***************************************************************************)
(* What holds of RouteSwitcher for every set of routers, tables, prefixes  *)
(* and concurrently running invocations.                                   *)
(***************************************************************************)
EXTENDS RouteSwitcher, TLAPS

-----------------------------------------------------------------------------
(* The operators an invocation computes with.                              *)

(* A computed table is a table: the backup and the remembered hop that     *)
(* replace a next hop are addresses.                                       *)
LEMMA SwitchedType ==
  ASSUME NEW table \in Routes, NEW routes \in Routes, NEW s
  PROVE  Switched(table, routes, s) \in Routes
BY AddressAssumption DEF Switched, Routes, Hop, FailsBack, Up

(* What an invocation remembers are next hops it saw.                      *)
LEMMA RecordedType ==
  ASSUME NEW table \in Routes, NEW routes \in Routes, NEW s
  PROVE  Recorded(table, routes, s) \in Routes
BY DEF Recorded, Routes, Hop

LEMMA PrunedType ==
  ASSUME NEW table \in Routes, NEW routes \in Routes, NEW s
  PROVE  Pruned(table, routes, s) \in Routes
BY DEF Pruned, Routes

(* The idle values of an invocation's variables are well typed.            *)
LEMMA IdleTypes ==
  /\ EmptyRoutes \in Routes
  /\ \A g \in 0 .. MaxApplies : FreshConfig(g) \in Config
  /\ 0 \in 0 .. MaxApplies
  /\ NoPatches \in [Table -> Routes \cup {NoTable}]
  /\ 1 \in 1 .. NumTables + 1
<1>1. EmptyRoutes \in Routes
  BY DEF EmptyRoutes, Routes
<1>2. \A g \in 0 .. MaxApplies : FreshConfig(g) \in Config
  BY <1>1 DEF FreshConfig, Config
<1>3. NoPatches \in [Table -> Routes \cup {NoTable}]
  BY DEF NoPatches
<1>4. 0 \in 0 .. MaxApplies /\ 1 \in 1 .. NumTables + 1
  BY TablesAssumption
<1> QED BY <1>1, <1>2, <1>3, <1>4

(* Ending an invocation keeps its variables well typed.                    *)
LEMMA EndsType ==
  ASSUME TypeOK, NEW i \in Invocation, Ends(i), AllHealthy \in [Router -> Status]
  PROVE  /\ pc' \in [Invocation -> {"idle", "check", "tables"}]
         /\ conf' \in [Invocation -> Config]
         /\ snap' \in [Invocation -> [Router -> Status]]
         /\ cursor' \in [Invocation -> 1 .. NumTables + 1]
         /\ patch' \in [Invocation -> [Table -> Routes \cup {NoTable}]]
         /\ changed' \in [Invocation -> BOOLEAN]
<1>1. FreshConfig(0) \in Config
  BY IdleTypes
<1> QED BY <1>1, IdleTypes DEF TypeOK, Ends

(* The body of the loop keeps an invocation's variables well typed.        *)
LEMMA ReadTableType ==
  ASSUME TypeOK, NEW i \in Invocation, ReadTable(i)
  PROVE  TypeOK'
<1> DEFINE t == cursor[i]
           table == nextHop[t]
           s == snap[i]
           old == conf[i].routes[t]
           inserted == Unrecorded(table, old, s) # {}
           known == Recorded(table, old, s)
           keyed == t \in conf[i].keyed \/ inserted
           new == Switched(table, old, s)
           rts == IF keyed THEN Pruned(table, known, s) ELSE old
           ks == IF keyed THEN conf[i].keyed \cup {t} ELSE conf[i].keyed
<1>1. t \in Table /\ cursor[i] + 1 \in 1 .. NumTables + 1
  BY TablesAssumption DEF TypeOK, ReadTable, Looping, Table
<1>2. table \in Routes /\ old \in Routes
  BY <1>1 DEF TypeOK, Config
<1>3. new \in Routes
  BY <1>2, SwitchedType
<1>4. rts \in Routes
  BY <1>2, RecordedType, PrunedType
<1>5. conf' = [conf EXCEPT ![i].routes[t] = rts, ![i].keyed = ks]
  BY DEF ReadTable
<1>6. conf' \in [Invocation -> Config]
  <2>1. conf[i] \in Config
    BY DEF TypeOK
  <2>2. [conf[i].routes EXCEPT ![t] = rts] \in [Table -> Routes]
    BY <2>1, <1>4 DEF Config
  <2>3. ks \in SUBSET Table
    BY <2>1, <1>1 DEF Config
  <2>4. [[conf[i] EXCEPT !.routes[t] = rts] EXCEPT !.keyed = ks] \in Config
    BY <2>1, <2>2, <2>3 DEF Config
  <2> QED BY <1>5, <2>4 DEF TypeOK
<1>7. patch' \in [Invocation -> [Table -> Routes \cup {NoTable}]]
  BY <1>1, <1>3 DEF ReadTable, TypeOK
<1>8. changed' \in [Invocation -> BOOLEAN]
  BY DEF ReadTable, TypeOK
<1>9. cursor' \in [Invocation -> 1 .. NumTables + 1]
  BY <1>1 DEF ReadTable, TypeOK
<1> QED BY <1>6, <1>7, <1>8, <1>9 DEF ReadTable, TypeOK, env

(* Every variable keeps its type, however the invocations interleave and   *)
(* whatever the load balancer, the VPC and the operator do.                *)
THEOREM TypeCorrect == Spec => []TypeOK
<1>0. AllHealthy \in [Router -> Status]
  BY DEF AllHealthy, Status
<1>1. Init => TypeOK
  BY <1>0, IdleTypes DEF Init, TypeOK
<1>2. TypeOK /\ [Next]_vars => TypeOK'
  <2> SUFFICES ASSUME TypeOK, [Next]_vars PROVE TypeOK'
    OBVIOUS
  <2>1. ASSUME NEW i \in Invocation, InvocationStep(i) PROVE TypeOK'
    <3>1. CASE Start(i)
      BY <3>1 DEF Start, TypeOK, env
    <3>2. CASE GetStatuses(i)
      BY <3>2 DEF GetStatuses, TypeOK, env
    <3>3. CASE GiveUp(i)
      BY <3>3, <1>0, EndsType DEF GiveUp, TypeOK, env
    <3>4. CASE SkipTable(i)
      BY <3>4, TablesAssumption DEF SkipTable, Looping, TypeOK, env
    <3>5. CASE ReadTable(i)
      BY <3>5, ReadTableType
    <3>6. ASSUME NEW t \in Table, SendTable(i, t) PROVE TypeOK'
      BY <3>6 DEF SendTable, TypeOK
    <3>7. ASSUME NEW t \in Table, SendFails(i, t) PROVE TypeOK'
      BY <3>7 DEF SendFails, TypeOK, env
    <3>8. CASE PutConfig(i)
      BY <3>8, <1>0, EndsType DEF PutConfig, TypeOK
    <3>9. CASE ReturnsOrRaises(i)
      BY <3>9, <1>0, EndsType DEF ReturnsOrRaises, TypeOK, env
    <3>10. CASE TimesOut(i)
      BY <3>10, <1>0, EndsType DEF TimesOut, TypeOK, env
    <3> QED BY <2>1, <3>1, <3>2, <3>3, <3>4, <3>5, <3>6, <3>7, <3>8, <3>9, <3>10
            DEF InvocationStep
  <2>2. ASSUME NEW t \in Table, ApplyOperation(t) PROVE TypeOK'
    BY <2>2 DEF ApplyOperation, TypeOK, local
  <2>3. ASSUME NEW t \in Table, DropOperation(t) PROVE TypeOK'
    BY <2>3 DEF DropOperation, TypeOK, local
  <2>4. ASSUME NEW r \in Router, NEW s \in Status, SetStatus(r, s) PROVE TypeOK'
    BY <2>4 DEF SetStatus, TypeOK, local
  <2>5. CASE OperatorStep
    BY <2>5 DEF OperatorStep, EditRoute, TypeOK, local, Routes, Hop, LocalHops
  <2>6. CASE ApplyParameters
    <3>1. config.gen + 1 \in 0 .. MaxApplies
      BY <2>6, TablesAssumption DEF ApplyParameters, TypeOK, Config
    <3> QED BY <2>6, <3>1, IdleTypes DEF ApplyParameters, TypeOK, local
  <2>7. CASE UNCHANGED vars
    BY <2>7 DEF vars, env, local, TypeOK
  <2> QED BY <2>1, <2>2, <2>3, <2>4, <2>5, <2>6, <2>7 DEF Next
<1> QED BY <1>1, <1>2, PTL DEF Spec

-----------------------------------------------------------------------------
(* Next hops stay in their network.                                        *)

InSegment(routes, t) ==
  \A p \in Prefix : routes[p] \in Address => Segment[routes[p]] = Home[t]

(* The invariant has to cover every place a next hop travels through: the  *)
(* bucket, the copies of the config, the tables still to send and the      *)
(* operations under way.                                                   *)
SegmentInv ==
  \A t \in Table :
    /\ InSegment(nextHop[t], t)
    /\ ops[t] # NoTable => InSegment(ops[t], t)
    /\ InSegment(config.routes[t], t)
    /\ \A i \in Invocation :
         /\ InSegment(conf[i].routes[t], t)
         /\ patch[i][t] # NoTable => InSegment(patch[i][t], t)

(* An address and its backup are in one network, and a remembered hop is   *)
(* in the network of the table it is remembered for.                       *)
LEMMA SwitchedSegment ==
  ASSUME NEW t \in Table, NEW table, NEW routes, NEW s,
         InSegment(table, t), InSegment(routes, t)
  PROVE  InSegment(Switched(table, routes, s), t)
BY AddressAssumption, SegmentAssumption DEF InSegment, Switched, FailsBack, Up

LEMMA RecordedSegment ==
  ASSUME NEW t \in Table, NEW table, NEW routes, NEW s,
         InSegment(table, t), InSegment(routes, t)
  PROVE  InSegment(Recorded(table, routes, s), t)
BY DEF InSegment, Recorded

LEMMA PrunedSegment ==
  ASSUME NEW t \in Table, NEW table, NEW routes, NEW s, InSegment(routes, t)
  PROVE  InSegment(Pruned(table, routes, s), t)
BY NullAssumption DEF InSegment, Pruned, Hop

LEMMA FreshSegment ==
  ASSUME NEW t \in Table, NEW g
  PROVE  InSegment(FreshConfig(g).routes[t], t)
BY NullAssumption DEF InSegment, FreshConfig, EmptyRoutes, Hop

LEMMA EndsSegment ==
  ASSUME TypeOK, SegmentInv, NEW i \in Invocation, Ends(i)
  PROVE  \A j \in Invocation, t \in Table :
           /\ InSegment(conf'[j].routes[t], t)
           /\ patch'[j][t] # NoTable => InSegment(patch'[j][t], t)
<1> TAKE j \in Invocation, t \in Table
<1>1. InSegment(FreshConfig(0).routes[t], t)
  BY FreshSegment
<1>2. NoPatches[t] = NoTable
  BY DEF NoPatches
<1> QED BY <1>1, <1>2 DEF Ends, TypeOK, SegmentInv

LEMMA ReadTableSegment ==
  ASSUME TypeOK, SegmentInv, NEW i \in Invocation, ReadTable(i)
  PROVE  SegmentInv'
<1> DEFINE c == cursor[i]
           table == nextHop[c]
           s == snap[i]
           old == conf[i].routes[c]
           inserted == Unrecorded(table, old, s) # {}
           known == Recorded(table, old, s)
           keyed == c \in conf[i].keyed \/ inserted
           new == Switched(table, old, s)
           rts == IF keyed THEN Pruned(table, known, s) ELSE old
           ks == IF keyed THEN conf[i].keyed \cup {c} ELSE conf[i].keyed
<1>1. c \in Table
  BY TablesAssumption DEF TypeOK, ReadTable, Looping, Table
<1>2. InSegment(table, c) /\ InSegment(old, c)
  BY <1>1 DEF SegmentInv
<1>3. InSegment(new, c) /\ InSegment(rts, c)
  BY <1>1, <1>2, SwitchedSegment, RecordedSegment, PrunedSegment
<1>4. conf' = [conf EXCEPT ![i].routes[c] = rts, ![i].keyed = ks]
  BY DEF ReadTable
<1>5. \A j \in Invocation, t \in Table : InSegment(conf'[j].routes[t], t)
  <2> TAKE j \in Invocation, t \in Table
  <2>1. conf[i].routes \in [Table -> Routes] /\ conf[i] \in Config
    BY DEF TypeOK, Config
  <2>2. conf'[j].routes[t] = IF j = i /\ t = c THEN rts ELSE conf[j].routes[t]
    BY <1>4, <2>1 DEF TypeOK, Config
  <2> QED BY <2>2, <1>3 DEF SegmentInv
<1>6. patch' = [patch EXCEPT ![i][c] = IF new # table THEN new ELSE NoTable]
  BY DEF ReadTable
<1>7. \A j \in Invocation, t \in Table :
        patch'[j][t] # NoTable => InSegment(patch'[j][t], t)
  <2> TAKE j \in Invocation, t \in Table
  <2>1. patch'[j][t] = IF j = i /\ t = c
                         THEN IF new # table THEN new ELSE NoTable
                         ELSE patch[j][t]
    BY <1>6 DEF TypeOK
  <2> QED BY <2>1, <1>3 DEF SegmentInv
<1> HIDE DEF c, table, s, old, inserted, known, keyed, new, rts, ks
<1>8. UNCHANGED <<nextHop, ops, config>>
  BY DEF ReadTable, env
<1> QED BY <1>5, <1>7, <1>8 DEF SegmentInv

LEMMA SegmentInvariant == Spec => []SegmentInv
<1>1. Init => SegmentInv
  <2> SUFFICES ASSUME Init PROVE SegmentInv
    OBVIOUS
  <2>1. \A t \in Table : InSegment(nextHop[t], t)
    BY NullAssumption, AddressAssumption DEF Init, InSegment, LocalHops, Hop
  <2>2. \A t \in Table : InSegment(FreshConfig(0).routes[t], t)
    BY FreshSegment
  <2> QED BY <2>1, <2>2 DEF Init, SegmentInv, NoPatches
<1>2. TypeOK /\ SegmentInv /\ [Next]_vars => SegmentInv'
  <2> SUFFICES ASSUME TypeOK, SegmentInv, [Next]_vars PROVE SegmentInv'
    OBVIOUS
  <2>1. ASSUME NEW i \in Invocation, InvocationStep(i) PROVE SegmentInv'
    <3>1. CASE Start(i)
      BY <3>1 DEF Start, SegmentInv, TypeOK, env
    <3>2. CASE GetStatuses(i)
      BY <3>2 DEF GetStatuses, SegmentInv, env
    <3>3. CASE GiveUp(i)
      BY <3>3, EndsSegment DEF GiveUp, SegmentInv, env
    <3>4. CASE SkipTable(i)
      BY <3>4 DEF SkipTable, SegmentInv, env
    <3>5. CASE ReadTable(i)
      BY <3>5, ReadTableSegment
    <3>6. ASSUME NEW t \in Table, SendTable(i, t) PROVE SegmentInv'
      BY <3>6 DEF SendTable, SegmentInv, TypeOK
    <3>7. ASSUME NEW t \in Table, SendFails(i, t) PROVE SegmentInv'
      BY <3>7 DEF SendFails, SegmentInv, TypeOK, env
    <3>8. CASE PutConfig(i)
      BY <3>8, EndsSegment DEF PutConfig, SegmentInv
    <3>9. CASE ReturnsOrRaises(i)
      BY <3>9, EndsSegment DEF ReturnsOrRaises, SegmentInv, env
    <3>10. CASE TimesOut(i)
      BY <3>10, EndsSegment DEF TimesOut, SegmentInv, env
    <3> QED BY <2>1, <3>1, <3>2, <3>3, <3>4, <3>5, <3>6, <3>7, <3>8, <3>9, <3>10
            DEF InvocationStep
  <2>2. ASSUME NEW t \in Table, ApplyOperation(t) PROVE SegmentInv'
    BY <2>2 DEF ApplyOperation, SegmentInv, TypeOK, local
  <2>3. ASSUME NEW t \in Table, DropOperation(t) PROVE SegmentInv'
    BY <2>3 DEF DropOperation, SegmentInv, TypeOK, local
  <2>4. ASSUME NEW r \in Router, NEW s \in Status, SetStatus(r, s) PROVE SegmentInv'
    BY <2>4 DEF SetStatus, SegmentInv, local
  <2>5. ASSUME NEW t \in Table, NEW p \in Prefix,
               NEW h \in LocalHops(t) \cup Foreign \cup {NoHop}, EditRoute(t, p, h)
        PROVE  SegmentInv'
    <3>1. h \in Address => Segment[h] = Home[t]
      BY NullAssumption, AddressAssumption DEF LocalHops, Hop
    <3>2. \A u \in Table : InSegment(nextHop'[u], u)
      BY <2>5, <3>1 DEF EditRoute, InSegment, SegmentInv, TypeOK, Routes
    <3> QED BY <2>5, <3>2 DEF EditRoute, SegmentInv, local
  <2>6. CASE ApplyParameters
    BY <2>6, FreshSegment DEF ApplyParameters, SegmentInv, local
  <2>7. CASE UNCHANGED vars
    BY <2>7 DEF vars, env, local, SegmentInv
  <2> QED BY <2>1, <2>2, <2>3, <2>4, <2>5, <2>6, <2>7 DEF Next, OperatorStep
<1> QED BY <1>1, <1>2, TypeCorrect, PTL DEF Spec

(* No next hop ever leaves the network of its table.                       *)
THEOREM SegmentSafe == Spec => []HopsStayInSegment
<1>1. SegmentInv => HopsStayInSegment
  BY DEF SegmentInv, InSegment, HopsStayInSegment
<1> QED BY <1>1, SegmentInvariant, PTL

-----------------------------------------------------------------------------
(* Only next hops that are router addresses are moved.                     *)

SameButRouters(routes, table) ==
  \A p \in Prefix : routes[p] # table[p] => routes[p] \in Address /\ table[p] \in Address

(* Whatever is on its way to a table differs from it in router hops only.  *)
(* It stays so because the operator edits a table only when nothing is on  *)
(* its way.                                                                *)
OnTheWayInv ==
  /\ \A t \in Table :
       /\ ops[t] # NoTable => SameButRouters(ops[t], nextHop[t])
       /\ \A i \in Invocation :
            patch[i][t] # NoTable => SameButRouters(patch[i][t], nextHop[t])
  /\ \A i \in Invocation : pc[i] = "idle" => patch[i] = NoPatches

LEMMA SwitchedSame ==
  ASSUME NEW table \in Routes, NEW routes, NEW s
  PROVE  SameButRouters(Switched(table, routes, s), table)
BY AddressAssumption DEF SameButRouters, Switched, FailsBack, FailsOver, Up, Down

LEMMA SameTransitive ==
  ASSUME NEW q, NEW r, NEW u, SameButRouters(q, u), SameButRouters(r, u)
  PROVE  SameButRouters(q, r)
BY DEF SameButRouters

LEMMA EndsOnTheWay ==
  ASSUME TypeOK, OnTheWayInv, NEW i \in Invocation, Ends(i), UNCHANGED <<nextHop, ops>>
  PROVE  OnTheWayInv'
BY DEF Ends, TypeOK, OnTheWayInv, NoPatches

LEMMA ReadTableOnTheWay ==
  ASSUME TypeOK, OnTheWayInv, NEW i \in Invocation, ReadTable(i)
  PROVE  OnTheWayInv'
<1> DEFINE c == cursor[i]
           new == Switched(nextHop[c], conf[i].routes[c], snap[i])
<1>1. c \in Table
  BY TablesAssumption DEF TypeOK, ReadTable, Looping, Table
<1>2. SameButRouters(new, nextHop[c])
  BY <1>1, SwitchedSame DEF TypeOK
<1>3. patch' = [patch EXCEPT ![i][c] = IF new # nextHop[c] THEN new ELSE NoTable]
  BY DEF ReadTable
<1>4. UNCHANGED <<nextHop, ops, pc>> /\ pc[i] # "idle"
  BY DEF ReadTable, Looping, env
<1> HIDE DEF c, new
<1>5. \A j \in Invocation, t \in Table :
        patch'[j][t] = IF j = i /\ t = c
                         THEN IF new # nextHop[c] THEN new ELSE NoTable
                         ELSE patch[j][t]
  BY <1>3 DEF TypeOK
<1>6. \A j \in Invocation : j # i => patch'[j] = patch[j]
  BY <1>3 DEF TypeOK
<1> QED BY <1>1, <1>2, <1>4, <1>5, <1>6 DEF OnTheWayInv

LEMMA OnTheWayInvariant ==
  ASSUME OperatorEdits # "anytime"
  PROVE  Spec => []OnTheWayInv
<1>1. Init => OnTheWayInv
  BY DEF Init, OnTheWayInv, NoPatches
<1>2. TypeOK /\ OnTheWayInv /\ [Next]_vars => OnTheWayInv'
  <2> SUFFICES ASSUME TypeOK, OnTheWayInv, [Next]_vars PROVE OnTheWayInv'
    OBVIOUS
  <2>1. ASSUME NEW i \in Invocation, InvocationStep(i) PROVE OnTheWayInv'
    <3>1. CASE Start(i)
      BY <3>1 DEF Start, OnTheWayInv, TypeOK, env
    <3>2. CASE GetStatuses(i)
      BY <3>2 DEF GetStatuses, OnTheWayInv, TypeOK, env
    <3>3. CASE GiveUp(i)
      BY <3>3, EndsOnTheWay DEF GiveUp, env
    <3>4. CASE SkipTable(i)
      BY <3>4 DEF SkipTable, OnTheWayInv, env
    <3>5. CASE ReadTable(i)
      BY <3>5, ReadTableOnTheWay
    <3>6. ASSUME NEW t \in Table, SendTable(i, t) PROVE OnTheWayInv'
      BY <3>6 DEF SendTable, Looped, OnTheWayInv, TypeOK
    <3>7. ASSUME NEW t \in Table, SendFails(i, t) PROVE OnTheWayInv'
      BY <3>7 DEF SendFails, Looped, OnTheWayInv, TypeOK, env
    <3>8. CASE PutConfig(i)
      BY <3>8, EndsOnTheWay DEF PutConfig
    <3>9. CASE ReturnsOrRaises(i)
      BY <3>9, EndsOnTheWay DEF ReturnsOrRaises, env
    <3>10. CASE TimesOut(i)
      BY <3>10, EndsOnTheWay DEF TimesOut, env
    <3> QED BY <2>1, <3>1, <3>2, <3>3, <3>4, <3>5, <3>6, <3>7, <3>8, <3>9, <3>10
            DEF InvocationStep
  <2>2. ASSUME NEW u \in Table, ApplyOperation(u) PROVE OnTheWayInv'
    <3>1. SameButRouters(ops[u], nextHop[u])
      BY <2>2 DEF ApplyOperation, OnTheWayInv
    <3>2. nextHop' = [nextHop EXCEPT ![u] = ops[u]] /\ ops' = [ops EXCEPT ![u] = NoTable]
      BY <2>2 DEF ApplyOperation
    <3>3. UNCHANGED <<pc, patch>>
      BY <2>2 DEF ApplyOperation, local
    <3>4. \A t \in Table, i \in Invocation :
            patch[i][t] # NoTable => SameButRouters(patch[i][t], nextHop'[t])
      BY <3>1, <3>2, SameTransitive DEF OnTheWayInv, TypeOK
    <3> QED BY <3>2, <3>3, <3>4 DEF OnTheWayInv, TypeOK
  <2>3. ASSUME NEW u \in Table, DropOperation(u) PROVE OnTheWayInv'
    BY <2>3 DEF DropOperation, OnTheWayInv, TypeOK, local
  <2>4. ASSUME NEW r \in Router, NEW s \in Status, SetStatus(r, s) PROVE OnTheWayInv'
    BY <2>4 DEF SetStatus, OnTheWayInv, local
  <2>5. CASE OperatorStep
    <3>1. Quiet /\ UNCHANGED <<ops, pc, patch>>
      BY <2>5 DEF OperatorStep, EditRoute, local
    <3>2. \A t \in Table : ops[t] = NoTable /\ \A i \in Invocation : patch[i][t] = NoTable
      BY <3>1 DEF Quiet, Active, OnTheWayInv, NoPatches
    <3> QED BY <3>1, <3>2 DEF OnTheWayInv
  <2>6. CASE ApplyParameters
    BY <2>6 DEF ApplyParameters, OnTheWayInv, local
  <2>7. CASE UNCHANGED vars
    BY <2>7 DEF vars, env, local, OnTheWayInv
  <2> QED BY <2>1, <2>2, <2>3, <2>4, <2>5, <2>6, <2>7 DEF Next
<1> QED BY <1>1, <1>2, TypeCorrect, PTL DEF Spec

(* The steps of an invocation touch no table: what it sends is carried out *)
(* by the VPC.                                                             *)
LEMMA InvocationLeavesTables ==
  ASSUME NEW i \in Invocation, InvocationStep(i)
  PROVE  UNCHANGED nextHop
BY DEF InvocationStep, Start, GetStatuses, GiveUp, SkipTable, ReadTable, SendTable,
       SendFails, PutConfig, ReturnsOrRaises, TimesOut, env

(* As long as the operator does not edit a table during a run, updating    *)
(* whole tables loses no route and touches no route of another kind.       *)
THEOREM RouterHopsOnly ==
  ASSUME OperatorEdits # "anytime"
  PROVE  Spec => OnlyRouterHopsMove
<1> DEFINE Moves == OperatorStep \/
                      \A t \in Table, p \in Prefix :
                        nextHop'[t][p] # nextHop[t][p] =>
                          nextHop[t][p] \in Address /\ nextHop'[t][p] \in Address
<1>1. TypeOK /\ OnTheWayInv /\ [Next]_vars => [Moves]_vars
  <2> SUFFICES ASSUME TypeOK, OnTheWayInv, [Next]_vars PROVE [Moves]_vars
    OBVIOUS
  <2>1. (UNCHANGED nextHop) => Moves
    OBVIOUS
  <2>2. ASSUME NEW u \in Table, ApplyOperation(u) PROVE Moves
    BY <2>2 DEF ApplyOperation, OnTheWayInv, SameButRouters, TypeOK
  <2>3. ASSUME NEW u \in Table, DropOperation(u) PROVE UNCHANGED nextHop
    BY <2>3 DEF DropOperation
  <2>4. ASSUME NEW r \in Router, NEW s \in Status, SetStatus(r, s)
        PROVE  UNCHANGED nextHop
    BY <2>4 DEF SetStatus
  <2>5. OperatorStep => Moves
    OBVIOUS
  <2>6. ApplyParameters => UNCHANGED nextHop
    BY DEF ApplyParameters
  <2> HIDE DEF Moves
  <2> QED BY <2>1, <2>2, <2>3, <2>4, <2>5, <2>6, InvocationLeavesTables DEF Next
<1> QED BY <1>1, TypeCorrect, OnTheWayInvariant, PTL DEF Spec, OnlyRouterHopsMove

-----------------------------------------------------------------------------
(* The switcher implements ProtectedTables.                                *)

Busy == {t \in Table : ops[t] # NoTable}

(* Carrying out an operation is a Finish step: the list it carries differs *)
(* from the table in routes through routers only (OnTheWayInv), and their  *)
(* old and new hops are in the table's network (SegmentInv).               *)
LEMMA ApplyFinishes ==
  ASSUME TypeOK, OnTheWayInv, SegmentInv, NEW t \in Table, ApplyOperation(t)
  PROVE  Protected!Finish(t)
<1> DEFINE through == Protected!ThroughRouters(t)
           hop == [p \in through |-> ops[t][p]]
<1>1. ops[t] \in Routes /\ nextHop[t] \in Routes
  BY DEF ApplyOperation, TypeOK
<1>2. SameButRouters(ops[t], nextHop[t]) /\ InSegment(ops[t], t) /\ InSegment(nextHop[t], t)
  BY DEF ApplyOperation, OnTheWayInv, SegmentInv
<1>3. \A p \in Prefix : p \in through <=> nextHop[t][p] \in Address
  BY <1>2 DEF InSegment, Protected!ThroughRouters, Protected!RouterHops
<1>4. hop \in [through -> Protected!RouterHops(t)]
  <2> SUFFICES ASSUME NEW p \in through PROVE ops[t][p] \in Protected!RouterHops(t)
    OBVIOUS
  <2>1. p \in Prefix /\ nextHop[t][p] \in Address
    BY <1>3 DEF Protected!ThroughRouters
  <2>2. ops[t][p] \in Address
    BY <2>1, <1>2 DEF SameButRouters
  <2> QED BY <2>1, <2>2, <1>2 DEF InSegment, Protected!RouterHops
<1>5. ops[t] = [p \in Prefix |-> IF p \in through THEN hop[p] ELSE nextHop[t][p]]
  <2>1. \A p \in Prefix : ops[t][p] = IF p \in through THEN hop[p] ELSE nextHop[t][p]
    BY <1>2, <1>3 DEF SameButRouters
  <2> HIDE DEF through, hop
  <2> QED BY <1>1, <2>1 DEF Routes
<1>6. t \in Busy /\ Busy' = Busy \ {t}
  BY DEF ApplyOperation, TypeOK, Busy
<1>7. nextHop' = [nextHop EXCEPT ![t] = ops[t]]
  BY DEF ApplyOperation
<1> QED BY <1>4, <1>5, <1>6, <1>7 DEF Protected!Finish, Busy

(* An operation that fails is a Finish step that moves nothing.            *)
LEMMA DropFinishes ==
  ASSUME TypeOK, NEW t \in Table, DropOperation(t)
  PROVE  Protected!Finish(t)
<1> DEFINE through == Protected!ThroughRouters(t)
           hop == [p \in through |-> nextHop[t][p]]
           new == [p \in Prefix |-> IF p \in through THEN hop[p] ELSE nextHop[t][p]]
<1>1. nextHop \in [Table -> Routes] /\ nextHop[t] \in [Prefix -> Hop \cup {NoHop}]
  BY DEF TypeOK, Routes
<1>2. hop \in [through -> Protected!RouterHops(t)]
  BY DEF Protected!ThroughRouters
<1>3. new = nextHop[t]
  BY <1>1
<1>4. t \in Busy /\ Busy' = Busy \ {t}
  BY DEF DropOperation, TypeOK, Busy
<1>5. nextHop' = [nextHop EXCEPT ![t] = new]
  <2> HIDE DEF new
  <2> QED BY <1>1, <1>3 DEF DropOperation
<1> QED BY <1>2, <1>4, <1>5 DEF Protected!Finish, Busy

(* Every behaviour of the switcher, however many invocations overlap, is   *)
(* one that the promise of ProtectedTables allows, as long as the operator *)
(* does not edit a table during a run.                                     *)
THEOREM ProtectedImplemented ==
  ASSUME OperatorEdits # "anytime"
  PROVE  Spec => ImplementsProtected
<1>1. Init => Protected!Init
  BY DEF Init, Protected!Init, Protected!Choices, Protected!RouterHops, LocalHops,
         Routes, Hop, NoPatches
<1>2. TypeOK /\ OnTheWayInv /\ SegmentInv /\ [Next]_vars => [Protected!Next]_Protected!vars
  <2> SUFFICES ASSUME TypeOK, OnTheWayInv, SegmentInv, [Next]_vars
               PROVE  Protected!Next \/ UNCHANGED Protected!vars
    OBVIOUS
  <2>1. (UNCHANGED <<nextHop, ops>>) => UNCHANGED Protected!vars
    BY DEF Protected!vars
  <2>2. ASSUME NEW i \in Invocation, NEW t \in Table, SendTable(i, t) PROVE Protected!Next
    <3>1. t \notin Busy /\ Busy' = Busy \cup {t}
      BY <2>2, NullAssumption DEF SendTable, TypeOK, Busy
    <3>2. Protected!Accept(t)
      BY <2>2, <3>1 DEF SendTable, Protected!Accept, Busy
    <3> QED BY <3>2 DEF Protected!Next
  <2>3. ASSUME NEW i \in Invocation, InvocationStep(i),
               ~ \E t \in Table : SendTable(i, t)
        PROVE  UNCHANGED <<nextHop, ops>>
    BY <2>3 DEF InvocationStep, Start, GetStatuses, GiveUp, SkipTable, ReadTable,
                SendFails, PutConfig, ReturnsOrRaises, TimesOut, env
  <2>4. ASSUME NEW t \in Table, ApplyOperation(t) PROVE Protected!Next
    BY <2>4, ApplyFinishes DEF Protected!Next
  <2>5. ASSUME NEW t \in Table, DropOperation(t) PROVE Protected!Next
    BY <2>5, DropFinishes DEF Protected!Next
  <2>6. ASSUME NEW r \in Router, NEW s \in Status, SetStatus(r, s)
        PROVE  UNCHANGED <<nextHop, ops>>
    BY <2>6 DEF SetStatus
  <2>7. ASSUME NEW t \in Table, NEW p \in Prefix,
               NEW h \in LocalHops(t) \cup Foreign \cup {NoHop}, EditRoute(t, p, h)
        PROVE  Protected!Next
    <3>1. h \in Protected!Choices(t)
      BY DEF LocalHops, Protected!Choices, Protected!RouterHops
    <3>2. Busy = {} /\ Busy' = Busy
      BY <2>7 DEF EditRoute, Quiet, NoPatches, Busy
    <3>3. Protected!Edit(t, p, h)
      BY <2>7, <3>2 DEF EditRoute, Protected!Edit, Busy
    <3> QED BY <3>1, <3>3 DEF Protected!Next
  <2>8. ApplyParameters => UNCHANGED <<nextHop, ops>>
    BY DEF ApplyParameters
  <2>9. (UNCHANGED vars) => UNCHANGED <<nextHop, ops>>
    BY DEF vars, env
  <2> QED BY <2>1, <2>2, <2>3, <2>4, <2>5, <2>6, <2>7, <2>8, <2>9 DEF Next, OperatorStep
<1> QED BY <1>1, <1>2, TypeCorrect, OnTheWayInvariant, SegmentInvariant, PTL
        DEF Spec, Protected!Spec, ImplementsProtected

-----------------------------------------------------------------------------
(* The loop body, seen from the remembered hops.                           *)

(* What the loop body makes of the hops remembered for its table.          *)
Relearned(old, table, s) == Pruned(table, Recorded(table, old, s), s)

(* A remembered hop is kept or forgotten, never replaced: prefixes are     *)
(* recorded only where none is known.                                      *)
LEMMA RelearnedKeeps ==
  ASSUME NEW old, NEW table, NEW s, NEW p \in Prefix, old[p] # NoHop
  PROVE  /\ Relearned(old, table, s)[p] \in {old[p], NoHop}
         /\ Recorded(table, old, s)[p] = old[p]
BY DEF Relearned, Pruned, Recorded, Unrecorded

(* The loop body changes what its own invocation remembers of its own      *)
(* table, and nothing else of any copy of the config.                      *)
LEMMA ReadTableRemembers ==
  ASSUME TypeOK, NEW i \in Invocation, ReadTable(i)
  PROVE  /\ cursor[i] \in Table
         /\ cursor' = [cursor EXCEPT ![i] = @ + 1]
         /\ \A j \in Invocation : conf'[j].gen = conf[j].gen
         /\ \A j \in Invocation, t \in Table :
              \/ conf'[j].routes[t] = conf[j].routes[t]
              \/ /\ j = i /\ t = cursor[i]
                 /\ conf'[j].routes[t] =
                      Relearned(conf[i].routes[t], nextHop[t], snap[i])
<1> DEFINE c == cursor[i]
           old == conf[i].routes[c]
           known == Recorded(nextHop[c], old, snap[i])
           inserted == Unrecorded(nextHop[c], old, snap[i]) # {}
           keyed == c \in conf[i].keyed \/ inserted
           rts == IF keyed THEN Pruned(nextHop[c], known, snap[i]) ELSE old
           ks == IF keyed THEN conf[i].keyed \cup {c} ELSE conf[i].keyed
<1>1. c \in Table
  BY TablesAssumption DEF TypeOK, ReadTable, Looping, Table
<1>2. conf' = [conf EXCEPT ![i].routes[c] = rts, ![i].keyed = ks]
  BY DEF ReadTable
<1>3. rts = old \/ rts = Relearned(old, nextHop[c], snap[i])
  BY DEF Relearned
<1>4. cursor' = [cursor EXCEPT ![i] = @ + 1]
  BY DEF ReadTable
<1> HIDE DEF rts, ks
<1>5. conf[i] \in Config /\ conf[i].routes \in [Table -> Routes]
  BY DEF TypeOK, Config
<1>6. \A j \in Invocation : conf'[j].gen = conf[j].gen
  BY <1>2, <1>5 DEF TypeOK, Config
<1>7. \A j \in Invocation, t \in Table :
        conf'[j].routes[t] = IF j = i /\ t = c THEN rts ELSE conf[j].routes[t]
  BY <1>2, <1>5 DEF TypeOK, Config
<1> QED BY <1>1, <1>3, <1>4, <1>6, <1>7

-----------------------------------------------------------------------------
(* Preferred hops are replaced only by runs that were overtaken.           *)

(* An invocation has still to look at the table.                           *)
Unread(i, t) == pc[i] = "check" \/ cursor[i] <= t

(* The copy such an invocation works on was read from the object as it     *)
(* still is in the bucket, unless parameters were applied since; it        *)
(* remembers the same hops but for those it forgot, and of a table it has  *)
(* still to read all of them: it reads a table once, so what it forgets it *)
(* does not learn anew from the backup in use.                             *)
Remembers(i) ==
  /\ conf[i].gen <= config.gen
  /\ conf[i].gen = config.gen =>
       \A t \in Table, p \in Prefix :
         config.routes[t][p] # NoHop =>
           /\ conf[i].routes[t][p] \in {config.routes[t][p], NoHop}
           /\ Unread(i, t) => conf[i].routes[t][p] = config.routes[t][p]

(* At work, and nobody saved the object since it was read.                 *)
Current(i) == Active(i) /\ i \notin behind

RemembersInv == \A i \in Invocation : Current(i) => Remembers(i)

LEMMA ReadTableKeeps ==
  ASSUME TypeOK, RemembersInv, NEW i \in Invocation, ReadTable(i)
  PROVE  RemembersInv'
<1> SUFFICES ASSUME NEW j \in Invocation, Current(j)' PROVE Remembers(j)'
  BY DEF RemembersInv
<1>1. UNCHANGED <<pc, config, behind>> /\ pc[i] = "tables"
  BY DEF ReadTable, Looping, env
<1>2. Remembers(j)
  BY <1>1 DEF RemembersInv, Current, Active
<1>3. /\ cursor[i] \in Table
      /\ cursor' = [cursor EXCEPT ![i] = @ + 1]
      /\ conf'[j].gen = conf[j].gen
  BY ReadTableRemembers
<1>4. \A t \in Table : Unread(j, t)' => Unread(j, t) /\ ~(j = i /\ t = cursor[i])
  BY <1>1, <1>3, TablesAssumption DEF TypeOK, Unread, Table
<1>5. ASSUME NEW t \in Table, NEW p \in Prefix, config.routes[t][p] # NoHop,
             conf[j].gen = config.gen
      PROVE  /\ conf'[j].routes[t][p] \in {config.routes[t][p], NoHop}
             /\ Unread(j, t)' => conf'[j].routes[t][p] = config.routes[t][p]
  <2>1. CASE conf'[j].routes[t] = conf[j].routes[t]
    BY <1>2, <1>4, <1>5, <2>1 DEF Remembers
  <2>2. CASE /\ j = i /\ t = cursor[i]
             /\ conf'[j].routes[t] = Relearned(conf[i].routes[t], nextHop[t], snap[i])
    <3>1. Unread(j, t)
      BY <2>2, TablesAssumption DEF Unread, TypeOK, Table
    <3>2. conf[j].routes[t][p] = config.routes[t][p]
      BY <1>2, <1>5, <3>1 DEF Remembers
    <3>3. conf'[j].routes[t][p] \in {config.routes[t][p], NoHop}
      BY <1>5, <2>2, <3>2, RelearnedKeeps
    <3> QED BY <1>4, <2>2, <3>3
  <2> QED BY <2>1, <2>2, ReadTableRemembers
<1> QED BY <1>1, <1>2, <1>3, <1>5 DEF Remembers

LEMMA EndsKeeps ==
  ASSUME TypeOK, RemembersInv, NEW i \in Invocation, Ends(i),
         \/ UNCHANGED <<config, behind>>
         \/ behind' = {j \in Invocation \ {i} : Active(j)}
  PROVE  RemembersInv'
<1> SUFFICES ASSUME NEW j \in Invocation, Current(j)' PROVE Remembers(j)'
  BY DEF RemembersInv
<1>1. j # i /\ pc'[j] = pc[j] /\ conf'[j] = conf[j] /\ cursor'[j] = cursor[j]
  BY DEF Ends, Current, Active, TypeOK
<1>2. Current(j) /\ config' = config
  BY <1>1 DEF Active, Current
<1> QED BY <1>1, <1>2 DEF RemembersInv, Remembers, Unread

(* A save puts everybody else at work behind, and parameters applied       *)
(* meanwhile show in the generation of the object.                         *)
LEMMA RemembersStep ==
  ASSUME TypeOK, RemembersInv, [Next]_vars
  PROVE  RemembersInv'
<1>1. ASSUME NEW i \in Invocation, InvocationStep(i) PROVE RemembersInv'
  <2>1. CASE Start(i)
    <3>1. conf'[i] = config /\ UNCHANGED <<config, cursor>>
      BY <2>1 DEF Start, env, TypeOK
    <3>2. Remembers(i)'
      BY <3>1 DEF Remembers, TypeOK, Config
    <3>3. ASSUME NEW j \in Invocation, j # i, Current(j)' PROVE Remembers(j)'
      <4>1. conf'[j] = conf[j] /\ pc'[j] = pc[j]
        BY <2>1, <3>3 DEF Start, TypeOK
      <4>2. Current(j)
        BY <2>1, <3>3, <4>1 DEF Start, Current, Active
      <4>3. Remembers(j)
        BY <4>2 DEF RemembersInv
      <4> QED BY <3>1, <4>1, <4>3 DEF Remembers, Unread
    <3> QED BY <3>2, <3>3 DEF RemembersInv
  <2>2. CASE GetStatuses(i)
    BY <2>2 DEF GetStatuses, RemembersInv, Remembers, Unread, Current, Active, env, TypeOK
  <2>3. CASE GiveUp(i)
    BY <2>3, EndsKeeps DEF GiveUp, env
  <2>4. CASE SkipTable(i)
    BY <2>4, TablesAssumption
       DEF SkipTable, Looping, RemembersInv, Remembers, Unread, Current, Active, env, TypeOK, Table
  <2>5. CASE ReadTable(i)
    BY <2>5, ReadTableKeeps
  <2>6. ASSUME NEW t \in Table, SendTable(i, t) \/ SendFails(i, t) PROVE RemembersInv'
    BY <2>6 DEF SendTable, SendFails, RemembersInv, Remembers, Unread, Current, Active, env
  <2>7. CASE PutConfig(i)
    BY <2>7, EndsKeeps DEF PutConfig, Looped, Active
  <2>8. CASE ReturnsOrRaises(i)
    BY <2>8, EndsKeeps DEF ReturnsOrRaises, env
  <2>9. CASE TimesOut(i)
    BY <2>9, EndsKeeps DEF TimesOut, env
  <2> QED BY <1>1, <2>1, <2>2, <2>3, <2>4, <2>5, <2>6, <2>7, <2>8, <2>9 DEF InvocationStep
<1>2. (UNCHANGED <<config, behind, pc, conf, cursor>>) => RemembersInv'
  BY DEF RemembersInv, Remembers, Unread, Current, Active
<1>3. ASSUME NEW t \in Table, ApplyOperation(t) \/ DropOperation(t) PROVE RemembersInv'
  BY <1>2, <1>3 DEF ApplyOperation, DropOperation, local
<1>4. ASSUME NEW r \in Router, NEW s \in Status, SetStatus(r, s) PROVE RemembersInv'
  BY <1>2, <1>4 DEF SetStatus, local
<1>5. CASE OperatorStep
  BY <1>2, <1>5 DEF OperatorStep, EditRoute, local
<1>6. CASE ApplyParameters
  <2>1. \A i \in Invocation : Current(i) => conf[i].gen < config'.gen
    BY <1>6, TablesAssumption
       DEF ApplyParameters, FreshConfig, RemembersInv, Remembers, TypeOK, Config
  <2>2. UNCHANGED <<pc, conf, behind>>
    BY <1>6 DEF ApplyParameters, local
  <2>3. \A i \in Invocation : conf[i].gen \in Nat
    BY TablesAssumption DEF TypeOK, Config
  <2>4. config'.gen \in Nat
    BY <1>6, TablesAssumption DEF ApplyParameters, FreshConfig, TypeOK, Config
  <2> QED BY <2>1, <2>2, <2>3, <2>4 DEF RemembersInv, Remembers, Current, Active
<1>7. CASE UNCHANGED vars
  BY <1>2, <1>7 DEF vars, env, local
<1> QED BY <1>1, <1>3, <1>4, <1>5, <1>6, <1>7 DEF Next

(* However many runs overlap, fail or are killed, and whatever is edited   *)
(* or applied in between, a remembered hop is replaced only by a run that  *)
(* read the object before another run saved it.                            *)
THEOREM PreferredHopStays == Spec => PreferredHopKept
<1> DEFINE Kept == config'.gen = config.gen =>
                     \/ \E i \in behind : PutConfig(i)
                     \/ \A t \in Table, p \in Prefix :
                          config.routes[t][p] # NoHop =>
                            config'.routes[t][p] \in {config.routes[t][p], NoHop}
<1>1. Init => RemembersInv
  BY DEF Init, RemembersInv, Current, Active
<1>2. TypeOK /\ RemembersInv /\ [Next]_vars => [Kept]_vars
  <2> SUFFICES ASSUME TypeOK, RemembersInv, [Next]_vars PROVE Kept
    OBVIOUS
  <2>1. (UNCHANGED config) => Kept
    OBVIOUS
  <2>2. ASSUME NEW i \in Invocation, PutConfig(i) PROVE Kept
    <3>1. CASE i \in behind
      BY <2>2, <3>1
    <3>2. CASE i \notin behind
      BY <2>2, <3>2 DEF PutConfig, Looped, Current, Active, RemembersInv, Remembers
    <3> QED BY <3>1, <3>2
  <2>3. ASSUME NEW i \in Invocation, InvocationStep(i), ~PutConfig(i)
        PROVE  UNCHANGED config
    BY <2>3 DEF InvocationStep, Start, GetStatuses, GiveUp, SkipTable, ReadTable,
                SendTable, SendFails, ReturnsOrRaises, TimesOut, env
  <2>4. ASSUME NEW t \in Table, ApplyOperation(t) \/ DropOperation(t)
        PROVE  UNCHANGED config
    BY <2>4 DEF ApplyOperation, DropOperation
  <2>5. ASSUME NEW r \in Router, NEW s \in Status, SetStatus(r, s) PROVE UNCHANGED config
    BY <2>5 DEF SetStatus
  <2>6. OperatorStep => UNCHANGED config
    BY DEF OperatorStep, EditRoute
  <2>7. ApplyParameters => Kept
    <3>1. ApplyParameters => config'.gen # config.gen
      BY TablesAssumption DEF ApplyParameters, FreshConfig, TypeOK, Config
    <3> QED BY <3>1
  <2>8. (UNCHANGED vars) => UNCHANGED config
    BY DEF vars, env
  <2> HIDE DEF Kept
  <2> QED BY <2>1, <2>2, <2>3, <2>4, <2>5, <2>6, <2>7, <2>8 DEF Next
<1>3. TypeOK /\ RemembersInv /\ [Next]_vars => RemembersInv'
  BY RemembersStep
<1> QED BY <1>1, <1>2, <1>3, TypeCorrect, PTL DEF Spec, PreferredHopKept
-----------------------------------------------------------------------------
(* A settled network stays settled.                                        *)

(* The routes of a table that go through a router go where they should.    *)
InPlace(table, routes) ==
  \A p \in Prefix : table[p] \in Address => routes[p] = table[p]

(* With every router healthy and every route in place a run has nothing to *)
(* switch, and what it remembers stays in place: all router addresses are  *)
(* managed prefixes then, which are not pruned, whatever the numbers of    *)
(* prefixes are.                                                           *)
LEMMA NothingToSwitch ==
  ASSUME NEW table \in Routes, NEW routes \in Routes, InPlace(table, routes)
  PROVE  Switched(table, routes, AllHealthy) = table
<1>1. Down(AllHealthy) = {}
  BY AddressAssumption DEF Down, AllHealthy
<1>2. Up(AllHealthy) \subseteq Address
  BY DEF Up
<1>3. \A p \in Prefix :
        ~FailsOver(table[p], AllHealthy) /\ ~FailsBack(table[p], routes[p], AllHealthy)
  BY <1>1, <1>2 DEF FailsOver, FailsBack, InPlace
<1>4. Switched(table, routes, AllHealthy) = [p \in Prefix |-> table[p]]
  BY <1>3 DEF Switched
<1> QED BY <1>4 DEF Routes

LEMMA NothingToLearn ==
  ASSUME NEW table, NEW routes, InPlace(table, routes)
  PROVE  InPlace(table, Relearned(routes, table, AllHealthy))
<1> SUFFICES ASSUME NEW p \in Prefix, table[p] \in Address
             PROVE  Relearned(routes, table, AllHealthy)[p] = table[p]
  BY DEF InPlace
<1>1. table[p] \in Up(AllHealthy)
  BY AddressAssumption DEF Up, AllHealthy
<1>2. p \in Managed(table, AllHealthy)
  BY <1>1 DEF Managed
<1>3. routes[p] = table[p]
  BY DEF InPlace
<1>4. Recorded(table, routes, AllHealthy)[p] = table[p]
  BY <1>3 DEF Recorded
<1> QED BY <1>2, <1>4 DEF Relearned, Pruned

LEMMA SettledInPlace ==
  Settled <=>
    /\ status = AllHealthy
    /\ ops = NoPatches
    /\ \A t \in Table : InPlace(nextHop[t], config.routes[t])
    /\ \A i \in Invocation, t \in Table :
         Active(i) => InPlace(nextHop[t], conf[i].routes[t])
    /\ \A i \in Invocation : snap[i] = AllHealthy /\ patch[i] = NoPatches
BY DEF Settled, InPlace

LEMMA SettledEnds ==
  ASSUME TypeOK, Settled, NEW i \in Invocation, Ends(i), UNCHANGED <<status, nextHop, ops>>,
         config' = config \/ (Active(i) /\ config' = conf[i])
  PROVE  Settled'
<1>1. \A j \in Invocation : Active(j)' => Active(j) /\ conf'[j] = conf[j]
  BY DEF Ends, Active, TypeOK
<1>2. \A j \in Invocation : snap'[j] = AllHealthy /\ patch'[j] = NoPatches
  BY DEF Ends, TypeOK, Settled
<1>3. \A t \in Table : InPlace(nextHop[t], config'.routes[t])
  BY SettledInPlace
<1> QED BY <1>1, <1>2, <1>3 DEF Settled, InPlace

LEMMA SettledReadTable ==
  ASSUME TypeOK, Settled, NEW i \in Invocation, ReadTable(i)
  PROVE  Settled'
<1> DEFINE c == cursor[i]
<1>1. c \in Table /\ nextHop[c] \in Routes /\ conf[i].routes[c] \in Routes
  BY ReadTableRemembers DEF TypeOK, Config
<1>2. UNCHANGED <<status, nextHop, ops, config, pc, snap>> /\ Active(i)
  BY DEF ReadTable, Looping, Active, env
<1>3. InPlace(nextHop[c], conf[i].routes[c]) /\ snap[i] = AllHealthy /\ patch[i] = NoPatches
  BY <1>1, <1>2, SettledInPlace
<1>4. patch' = patch
  <2>1. Switched(nextHop[c], conf[i].routes[c], snap[i]) = nextHop[c]
    BY <1>1, <1>3, NothingToSwitch
  <2>2. patch' = [patch EXCEPT ![i][c] = NoTable]
    BY <2>1 DEF ReadTable
  <2>3. patch[i][c] = NoTable
    BY <1>1, <1>3 DEF NoPatches
  <2> QED BY <2>2, <2>3, <1>1 DEF TypeOK
<1>5. \A j \in Invocation, t \in Table :
        Active(j)' => InPlace(nextHop[t], conf'[j].routes[t])
  <2> TAKE j \in Invocation, t \in Table
  <2>1. Active(j)' = Active(j)
    BY <1>2 DEF Active
  <2>2. Active(j) => InPlace(nextHop[t], conf[j].routes[t])
    BY SettledInPlace
  <2>3. CASE conf'[j].routes[t] = conf[j].routes[t]
    BY <2>1, <2>2, <2>3
  <2>4. CASE /\ j = i /\ t = c
             /\ conf'[j].routes[t] = Relearned(conf[i].routes[t], nextHop[t], snap[i])
    BY <1>3, <2>4, NothingToLearn
  <2> QED BY <2>3, <2>4, ReadTableRemembers
<1> QED BY <1>2, <1>4, <1>5 DEF Settled, InPlace

(* Nobody's step, not even storing an old copy of the config, unsettles a  *)
(* settled network.                                                        *)
LEMMA SettledStep ==
  ASSUME TypeOK, [Next]_vars, Settled, UNCHANGED status, [~OperatorStep /\ ~ApplyParameters]_vars
  PROVE  Settled'
<1>1. /\ ops = NoPatches /\ status = AllHealthy
      /\ \A i \in Invocation : snap[i] = AllHealthy /\ patch[i] = NoPatches
  BY DEF Settled
<1>2. ASSUME NEW i \in Invocation, InvocationStep(i) PROVE Settled'
  <2>1. CASE Start(i)
    <3>1. /\ UNCHANGED <<status, nextHop, ops, config, snap, patch>>
          /\ \A j \in Invocation :
               Active(j)' => conf'[j] = config \/ (Active(j) /\ conf'[j] = conf[j])
      BY <2>1 DEF Start, env, Active, TypeOK
    <3> QED BY <3>1 DEF Settled
  <2>2. CASE GetStatuses(i)
    <3>1. /\ UNCHANGED <<status, nextHop, ops, config, patch, conf>>
          /\ \A j \in Invocation : Active(j)' = Active(j) /\ snap'[j] = AllHealthy
      BY <1>1, <2>2 DEF GetStatuses, env, Active, TypeOK
    <3> QED BY <3>1 DEF Settled
  <2>3. CASE GiveUp(i) \/ ReturnsOrRaises(i) \/ TimesOut(i)
    BY <2>3, SettledEnds DEF GiveUp, ReturnsOrRaises, TimesOut, env
  <2>4. CASE PutConfig(i)
    BY <2>4, SettledEnds DEF PutConfig, Looped, Active
  <2>5. CASE SkipTable(i)
    BY <2>5 DEF SkipTable, env, Settled, Active
  <2>6. CASE ReadTable(i)
    BY <2>6, SettledReadTable
  <2>7. ~ \E t \in Table : SendTable(i, t) \/ SendFails(i, t)
    BY <1>1 DEF SendTable, SendFails, NoPatches
  <2> QED BY <1>2, <2>1, <2>2, <2>3, <2>4, <2>5, <2>6, <2>7 DEF InvocationStep
<1>3. ~ \E t \in Table : ApplyOperation(t) \/ DropOperation(t)
  BY <1>1 DEF ApplyOperation, DropOperation, NoPatches
<1>4. ~ \E r \in Router, s \in Status : SetStatus(r, s)
  BY DEF SetStatus, TypeOK
<1>5. CASE UNCHANGED vars
  BY <1>5 DEF vars, env, local, Settled, Active
<1> QED BY <1>2, <1>3, <1>4, <1>5 DEF Next

(* The switcher leaves a network alone in which everything is healthy and  *)
(* in place, however many invocations overlap.                             *)
THEOREM SettledUndisturbed == Spec => SettledStays
<1>1. TypeOK /\ [Next]_vars =>
        (Settled /\ UNCHANGED status /\ ~OperatorStep /\ ~ApplyParameters => Settled')
  BY SettledStep
<1> QED BY <1>1, TypeCorrect, PTL DEF Spec, SettledStays

(* "Stays there" in FailbackHappens: while every router stays healthy and  *)
(* nobody edits or applies parameters, a settled network keeps its routes  *)
(* on the remembered hops.                                                 *)
THEOREM SettledForGood ==
  Spec => [](Settled /\ [](status = AllHealthy) /\ [][~OperatorStep /\ ~ApplyParameters]_vars
               => [](\A t \in Table, p \in Prefix :
                       nextHop[t][p] \in Address => config.routes[t][p] = nextHop[t][p]))
<1>1. TypeOK /\ Settled /\ status = AllHealthy /\ (status = AllHealthy)'
        /\ [Next]_vars /\ [~OperatorStep /\ ~ApplyParameters]_vars
        => Settled'
  BY SettledStep
<1>2. Settled => \A t \in Table, p \in Prefix :
                   nextHop[t][p] \in Address => config.routes[t][p] = nextHop[t][p]
  BY DEF Settled
<1> QED BY <1>1, <1>2, TypeCorrect, PTL DEF Spec

-----------------------------------------------------------------------------
(* A router that failed and was left stays left.                           *)

Avoids(table, a) == \A p \in Prefix : table[p] # a

(* The router of address a is down, whoever is to compute next hops knows  *)
(* it, and no table goes through a or is going to.                         *)
Left(a) ==
  /\ a \in Down(status)
  /\ \A i \in Invocation : pc[i] = "tables" => a \in Down(snap[i])
  /\ \A t \in Table :
       /\ Avoids(nextHop[t], a)
       /\ ops[t] # NoTable => Avoids(ops[t], a)
       /\ \A i \in Invocation : patch[i][t] # NoTable => Avoids(patch[i][t], a)

(* Neither a failover nor a return to a remembered hop leads to a router   *)
(* that is known to be down.                                               *)
LEMMA SwitchedAvoids ==
  ASSUME NEW table, NEW routes, NEW s, NEW a, a \in Down(s), Avoids(table, a)
  PROVE  Avoids(Switched(table, routes, s), a)
<1>1. a \notin Up(s)
  BY DEF Up, Down
<1> QED BY <1>1 DEF Avoids, Switched, FailsOver, FailsBack

LEMMA LeftEnds ==
  ASSUME TypeOK, NEW a, Left(a), NEW i \in Invocation, Ends(i), UNCHANGED <<status, nextHop, ops>>
  PROVE  Left(a)'
<1>1. \A j \in Invocation :
        \/ pc'[j] = pc[j] /\ snap'[j] = snap[j] /\ patch'[j] = patch[j]
        \/ pc'[j] = "idle" /\ patch'[j] = NoPatches
  BY DEF Ends, TypeOK
<1>2. \A t \in Table : NoPatches[t] = NoTable
  BY DEF NoPatches
<1> QED BY <1>1, <1>2 DEF Left, Down

LEMMA LeftReadTable ==
  ASSUME TypeOK, NEW a, Left(a), NEW i \in Invocation, ReadTable(i)
  PROVE  Left(a)'
<1> DEFINE c == cursor[i]
           new == Switched(nextHop[c], conf[i].routes[c], snap[i])
<1>1. c \in Table /\ pc[i] = "tables"
  <2>1. c \in Table
    BY ReadTableRemembers
  <2>2. pc[i] = "tables"
    BY DEF ReadTable, Looping
  <2> QED BY <2>1, <2>2
<1>2. UNCHANGED <<status, nextHop, ops, pc, snap>>
  BY DEF ReadTable, env
<1>3. Avoids(new, a)
  BY <1>1, SwitchedAvoids DEF Left
<1>4. patch' = [patch EXCEPT ![i][c] = IF new # nextHop[c] THEN new ELSE NoTable]
  BY DEF ReadTable
<1> HIDE DEF c, new
<1>5. \A j \in Invocation, t \in Table : patch'[j][t] \in {patch[j][t], new, NoTable}
  BY <1>4 DEF TypeOK
<1>6. \A j \in Invocation, t \in Table : patch'[j][t] # NoTable => Avoids(patch'[j][t], a)
  BY <1>3, <1>5 DEF Left
<1> QED BY <1>2, <1>6 DEF Left, Down

LEMMA LeftSends ==
  ASSUME TypeOK, NEW a, Left(a), NEW i \in Invocation, NEW t \in Table,
         SendTable(i, t) \/ SendFails(i, t)
  PROVE  Left(a)'
<1>1. patch[i][t] # NoTable /\ UNCHANGED <<status, nextHop, pc, snap>>
  BY DEF SendTable, SendFails, env
<1>2. \A j \in Invocation, u \in Table : patch'[j][u] \in {patch[j][u], NoTable}
  <2>1. patch' = [patch EXCEPT ![i] = [patch[i] EXCEPT ![t] = NoTable]]
    BY DEF SendTable, SendFails
  <2>2. \A j \in Invocation : patch'[j] = IF j = i THEN [patch[i] EXCEPT ![t] = NoTable]
                                                  ELSE patch[j]
    BY <2>1 DEF TypeOK
  <2>3. \A u \in Table : [patch[i] EXCEPT ![t] = NoTable][u] \in {patch[i][u], NoTable}
    BY DEF TypeOK
  <2> QED BY <2>2, <2>3
<1>3. \A u \in Table : ops'[u] = ops[u] \/ (ops'[u] = patch[i][u] /\ u = t)
  BY DEF SendTable, SendFails, env, TypeOK
<1> QED BY <1>1, <1>2, <1>3 DEF Left, Down

LEMMA LeftStep ==
  ASSUME TypeOK, NEW a, Left(a), [Next]_vars, [~OperatorStep]_vars, (a \in Down(status))'
  PROVE  Left(a)'
<1>1. ASSUME NEW i \in Invocation, InvocationStep(i) PROVE Left(a)'
  <2>1. CASE Start(i) \/ GetStatuses(i)
    <3>1. UNCHANGED <<status, nextHop, ops, patch>>
      BY <2>1 DEF Start, GetStatuses, env
    <3>2. \A j \in Invocation :
            \/ pc'[j] = pc[j] /\ snap'[j] = snap[j]
            \/ pc'[j] = "check" \/ snap'[j] = status
      BY <2>1 DEF Start, GetStatuses, TypeOK
    <3> QED BY <3>1, <3>2 DEF Left, Down
  <2>2. CASE GiveUp(i) \/ ReturnsOrRaises(i) \/ TimesOut(i) \/ PutConfig(i)
    BY <2>2, LeftEnds DEF GiveUp, ReturnsOrRaises, TimesOut, PutConfig, env
  <2>3. CASE SkipTable(i)
    BY <2>3 DEF SkipTable, env, Left, Down
  <2> QED BY <1>1, <2>1, <2>2, <2>3, LeftReadTable, LeftSends DEF InvocationStep
<1>2. ASSUME NEW t \in Table, ApplyOperation(t) \/ DropOperation(t) PROVE Left(a)'
  <2>1. UNCHANGED <<status, pc, snap, patch>> /\ ops[t] # NoTable
    BY <1>2 DEF ApplyOperation, DropOperation, local
  <2>2. \A u \in Table : /\ nextHop'[u] = nextHop[u] \/ (nextHop'[u] = ops[u] /\ u = t)
                         /\ ops'[u] \in {ops[u], NoTable}
    BY <1>2 DEF ApplyOperation, DropOperation, TypeOK
  <2> QED BY <2>1, <2>2 DEF Left, Down
<1>3. CASE UNCHANGED <<nextHop, ops, pc, snap, patch>>
  BY <1>3 DEF Left, Down
<1>4. ASSUME NEW r \in Router, NEW s \in Status, SetStatus(r, s) PROVE Left(a)'
  BY <1>3, <1>4 DEF SetStatus, local
<1>5. CASE ApplyParameters
  BY <1>3, <1>5 DEF ApplyParameters, local
<1>6. CASE UNCHANGED vars
  BY <1>3, <1>6 DEF vars, env, local
<1> QED BY <1>1, <1>2, <1>4, <1>5, <1>6 DEF Next

(* "For good" in FailoverHappens: while the router of an address stays     *)
(* down and nobody edits, a network that has left the address, with all    *)
(* that is under way, never returns to it, however old the remembered hops *)
(* and the copies of the config are and whoever overwrites them.           *)
THEOREM LeftForGood ==
  ASSUME NEW a \in Address
  PROVE  Spec => [](Left(a) /\ [](a \in Down(status)) /\ [][~OperatorStep]_vars
                      => [](\A t \in Table, p \in Prefix : nextHop[t][p] # a))
<1>1. TypeOK /\ Left(a) /\ [Next]_vars /\ [~OperatorStep]_vars /\ (a \in Down(status))'
        => Left(a)'
  BY LeftStep
<1>2. Left(a) => \A t \in Table, p \in Prefix : nextHop[t][p] # a
  BY DEF Left, Avoids
<1> QED BY <1>1, <1>2, TypeCorrect, PTL DEF Spec
=============================================================================
