----------------------- MODULE SnapshotBackup_proofs -----------------------
(***************************************************************************)
(* Proofs about SnapshotBackup for any number of disks and handlers, any   *)
(* TTL, quota and kinds of faults.                                         *)
(***************************************************************************)
EXTENDS SnapshotBackup, TLAPS

(* A busy handler holds a message.                                         *)
Holding == \A w \in Worker : step[w] # "idle" => hands[w] \in Disk

TypeInv == TypeOK /\ Holding

LEMMA TypeInit == Init => TypeInv
  BY SizesAssumption DEF Init, TypeInv, TypeOK, Holding, Phase, Disk

(* The budget stays within its bounds whatever goes wrong.                 *)
LEMMA FaultTyped ==
  ASSUME TypeOK, NEW kind, Fault(kind)
  PROVE  faults' \in 0 .. MaxFaults /\ bad' \in 0 .. MaxBadDays /\ faults' > 0
  BY SizesAssumption DEF Fault, TypeOK

LEMMA FreeTyped ==
  ASSUME TypeInv, NEW w \in Worker, Free(w)
  PROVE  /\ hands' \in [Worker -> Disk \cup {Nil}]
         /\ step' \in [Worker -> {"idle", "create", "ack"}]
         /\ Holding'
  BY DEF TypeInv, TypeOK, Holding, Free

LEMMA BackToQueueTyped ==
  ASSUME TypeInv, NEW w \in Worker, step[w] # "idle", BackToQueue(w)
  PROVE  /\ hands' \in [Worker -> Disk \cup {Nil}]
         /\ step' \in [Worker -> {"idle", "create", "ack"}]
         /\ queue' \in [Disk -> Nat]
         /\ Holding'
<1>1. Free(w) /\ queue' = [queue EXCEPT ![hands[w]] = @ + 1]
  BY DEF BackToQueue
<1>2. queue' \in [Disk -> Nat]
  BY <1>1 DEF TypeInv, TypeOK, Holding
<1> QED
  BY <1>1, <1>2, FreeTyped

LEMMA TypeSpawn ==
  ASSUME TypeInv, SpawnStep \/ SpawnStops
  PROVE  TypeInv'
<1> USE DEF TypeInv, Phase
<1>1. CASE SpawnStart
  BY <1>1, SizesAssumption DEF SpawnStart, TypeOK, Holding, workers, budget
<1>2. CASE SpawnDisk
  <2>1. next' \in 1 .. NumDisks + 1
    BY <1>2, SizesAssumption DEF SpawnDisk, TypeOK
  <2>2. queue' \in [Disk -> Nat]
    BY <1>2 DEF SpawnDisk, TypeOK
  <2> QED
    BY <1>2, <2>1, <2>2 DEF SpawnDisk, TypeOK, Holding, workers, budget
<1>3. CASE SpawnEnd
  BY <1>3 DEF SpawnEnd, TypeOK, Holding, workers, budget
<1>4. CASE SpawnStops
  BY <1>4, FaultTyped DEF SpawnStops, TypeOK, Holding, workers
<1> QED
  BY <1>1, <1>2, <1>3, <1>4 DEF SpawnStep

LEMMA TypeHandler ==
  ASSUME TypeInv, NEW w \in Worker,
         WorkerStep(w) \/ Crash(w) \/ \E d \in Disk : Receive(w, d)
  PROVE  TypeInv'
<1> USE DEF TypeInv
<1>1. ASSUME NEW d \in Disk, Receive(w, d) PROVE TypeInv'
  <2>1. queue' \in [Disk -> Nat]
    BY <1>1 DEF Receive, TypeOK
  <2> QED
    BY <1>1, <2>1 DEF Receive, TypeOK, Holding, budget
<1>2. CASE Create(w)
  <2>1. creating' \in [Disk -> Nat]
    BY <1>2 DEF Create, TypeOK, Holding
  <2> QED
    BY <1>2, <2>1 DEF Create, TypeOK, Holding, budget
<1>3. CASE Reject(w)
  <2>1. step[w] # "idle" /\ BackToQueue(w)
    BY <1>3 DEF Reject
  <2> QED
    BY <1>3, <2>1, BackToQueueTyped DEF Reject, TypeOK, budget
<1>4. CASE Acknowledge(w)
  <2>1. Free(w)
    BY <1>4 DEF Acknowledge
  <2> QED
    BY <1>4, <2>1, FreeTyped DEF Acknowledge, TypeOK, budget
<1>5. CASE Crash(w)
  <2>1. step[w] # "idle" /\ BackToQueue(w) /\ Fault("crash")
    BY <1>5 DEF Crash
  <2> QED
    BY <1>5, <2>1, BackToQueueTyped, FaultTyped DEF Crash, TypeOK
<1> QED
  BY <1>1, <1>2, <1>3, <1>4, <1>5 DEF WorkerStep

LEMMA TypeClean ==
  ASSUME TypeInv, CleanStep \/ CleanStops
  PROVE  TypeInv'
<1> USE DEF TypeInv, Phase
<1>1. CASE CleanStep
  BY <1>1 DEF CleanStep, CleanStart, DeleteExpired, CleanEnd, TypeOK, Holding, workers, budget
<1>2. CASE CleanStops
  BY <1>2, FaultTyped DEF CleanStops, TypeOK, Holding, workers
<1> QED
  BY <1>1, <1>2

LEMMA TypeDisk ==
  ASSUME TypeInv, NEW d \in Disk, DiskStep(d)
  PROVE  TypeInv'
<1> USE DEF TypeInv
<1>1. CASE SnapshotReady(d)
  <2>1. creating' \in [Disk -> Nat]
    BY <1>1 DEF SnapshotReady, TypeOK
  <2>2. snapshots' \subseteq Snapshot
    BY <1>1, SizesAssumption DEF SnapshotReady, TypeOK, Snapshot, Age
  <2> QED
    BY <1>1, <2>1, <2>2 DEF SnapshotReady, TypeOK, Holding, workers, budget
<1>2. CASE SnapshotFails(d)
  <2>1. creating' \in [Disk -> Nat]
    BY <1>2 DEF SnapshotFails, TypeOK
  <2>2. Fault("operation")
    BY <1>2 DEF SnapshotFails
  <2> QED
    BY <1>2, <2>1, <2>2, FaultTyped DEF SnapshotFails, TypeOK, Holding, workers
<1>3. CASE RemoveDisk(d)
  BY <1>3 DEF RemoveDisk, TypeOK, Holding, workers, budget
<1>4. CASE Retention(d)
  <2>1. queue' \in [Disk -> Nat]
    BY <1>4 DEF Retention, TypeOK
  <2> QED
    BY <1>4, <2>1 DEF Retention, TypeOK, Holding, workers, budget
<1> QED
  BY <1>1, <1>2, <1>3, <1>4 DEF DiskStep

(* A day later a snapshot is still one of its disk and at most a day older.*)
LEMMA AgedTyped ==
  ASSUME NEW s \in Snapshot
  PROVE  /\ Aged(s) \in Snapshot
         /\ Aged(s).disk = s.disk
         /\ Aged(s).age <= s.age + 1
<1>1. s.age \in 0 .. TTL /\ TTL \in Nat
  BY SizesAssumption DEF Snapshot, Age
<1>2. CASE s.age < TTL
  <2>1. Aged(s) = [s EXCEPT !.age = @ + 1] /\ s.age + 1 \in Age
    BY <1>1, <1>2 DEF Aged, Age
  <2> QED
    BY <1>1, <2>1 DEF Snapshot
<1>3. CASE ~(s.age < TTL)
  <2>1. Aged(s) = [s EXCEPT !.late = FALSE]
    BY <1>3 DEF Aged
  <2>2. Aged(s) \in Snapshot /\ Aged(s).disk = s.disk /\ Aged(s).age = s.age
    BY <2>1 DEF Snapshot
  <2> QED
    BY <1>1, <2>2
<1> QED
  BY <1>2, <1>3

(* A fault leaves room for one more bad day.                               *)
BadDayFits == faults > 0 => bad < MaxBadDays

LEMMA TypeNextDay ==
  ASSUME TypeInv, BadDayFits, NextDay
  PROVE  TypeInv'
<1>1. snapshots' \subseteq Snapshot
  BY AgedTyped DEF NextDay, TypeInv, TypeOK
<1>2. faults' \in 0 .. MaxFaults /\ bad' \in 0 .. MaxBadDays
  BY SizesAssumption DEF NextDay, BadDayFits, TypeInv, TypeOK
<1> QED
  BY <1>1, <1>2 DEF NextDay, TypeInv, TypeOK, Holding, Phase, workers

LEMMA BadDayStep ==
  ASSUME TypeInv, BadDayFits, [Next]_vars
  PROVE  BadDayFits'
<1>1. CASE UNCHANGED <<faults, bad>>
  BY <1>1 DEF BadDayFits
<1>2. ASSUME NEW kind, Fault(kind) PROVE BadDayFits'
  BY <1>2 DEF Fault, BadDayFits
<1>3. CASE NextDay
  BY <1>3 DEF NextDay, BadDayFits
<1> QED
  BY <1>1, <1>2, <1>3 DEF Next, SpawnStep, SpawnStart, SpawnDisk, SpawnEnd, SpawnStops,
     CleanStep, CleanStart, DeleteExpired, CleanEnd, CleanStops, WorkerStep, Create, Reject,
     Acknowledge, Crash, Receive, DiskStep, SnapshotReady, SnapshotFails, RemoveDisk,
     Retention, vars, budget

LEMMA TypeStep ==
  TypeInv /\ BadDayFits /\ [Next]_vars => TypeInv' /\ BadDayFits'
<1> SUFFICES ASSUME TypeInv, BadDayFits, [Next]_vars PROVE TypeInv' /\ BadDayFits'
  OBVIOUS
<1>1. CASE UNCHANGED vars
  BY <1>1, BadDayStep DEF vars, TypeInv, TypeOK, Holding, workers, budget
<1> QED
  BY <1>1, BadDayStep, TypeSpawn, TypeHandler, TypeClean, TypeDisk, TypeNextDay DEF Next

LEMMA TypeAlways == Spec => [](TypeInv /\ BadDayFits)
<1>1. Init => TypeInv /\ BadDayFits
  BY TypeInit DEF Init, BadDayFits
<1> QED
  BY <1>1, TypeStep, PTL DEF Spec

(* Type correctness: the iterator stays within the list, a snapshot's age  *)
(* within 0 .. TTL, the faults within their bounds.                        *)
THEOREM TypeCorrect == Spec => []TypeOK
<1>1. TypeInv => TypeOK
  BY DEF TypeInv
<1> QED
  BY <1>1, TypeAlways, PTL

-----------------------------------------------------------------------------
(* No task is lost.  In "ack" a handler does nothing more for its task, so *)
(* the invariant counts the handlers in "create" only.  It holds while no  *)
(* operation can have failed, and the listing is complete on days without  *)
(* a fault.                                                                *)

Task(d) ==
  \/ queue[d] > 0
  \/ \E w \in Worker : step[w] = "create" /\ hands[w] = d
  \/ creating[d] > 0
  \/ HasCopyOfToday(d)

Lossless == faults = 0 \/ "operation" \notin Faults

TasksHeld ==
  (Lossless /\ spawn # "due") =>
    \A d \in present \cap Selected : next > d => Task(d)

Listed == (spawn = "done" /\ faults = 0) => next > NumDisks

LEMMA SelectedDisks == Selected \subseteq Disk
  BY DisksAssumption DEF Selected

LEMMA FaultLossless ==
  ASSUME TypeInv, NEW kind, Fault(kind)
  PROVE  /\ faults' # 0
         /\ Lossless' => Lossless
         /\ kind = "operation" => ~Lossless'
  BY FaultTyped DEF TypeInv, Fault, Lossless

LEMMA HandlerKeepsTask ==
  ASSUME TypeInv, NEW w \in Worker,
         WorkerStep(w) \/ Crash(w) \/ \E e \in Disk : Receive(w, e),
         NEW d \in Disk, Task(d)
  PROVE  Task(d)'
<1> USE DEF Task, HasCopyOfToday
<1>0. TypeOK /\ (step[w] # "idle" => hands[w] \in Disk)
  BY DEF TypeInv, Holding
<1>1. ASSUME NEW e \in Disk, Receive(w, e) PROVE Task(d)'
  <2>1. step'[w] = "create" /\ hands'[w] = e
    BY <1>0, <1>1 DEF Receive, TypeOK
  <2>2. /\ \A v \in Worker \ {w} : step'[v] = step[v] /\ hands'[v] = hands[v]
        /\ step[w] = "idle"
        /\ d # e => queue'[d] = queue[d]
        /\ UNCHANGED <<creating, snapshots>>
    BY <1>0, <1>1 DEF Receive, TypeOK
  <2> QED
    BY <2>1, <2>2
<1>2. CASE Create(w)
  <2>1. /\ creating'[hands[w]] > 0
        /\ \A e \in Disk : creating[e] > 0 => creating'[e] > 0
        /\ \A v \in Worker \ {w} : step'[v] = step[v]
        /\ UNCHANGED <<queue, hands, snapshots>>
    BY <1>0, <1>2 DEF Create, TypeOK
  <2> QED
    BY <2>1
<1>3. CASE Reject(w) \/ Crash(w)
  <2>1. step[w] # "idle" /\ BackToQueue(w) /\ UNCHANGED <<creating, snapshots>>
    BY <1>3 DEF Reject, Crash
  <2>2. /\ queue'[hands[w]] > 0
        /\ \A e \in Disk : queue[e] > 0 => queue'[e] > 0
        /\ \A v \in Worker \ {w} : step'[v] = step[v] /\ hands'[v] = hands[v]
    BY <1>0, <2>1 DEF BackToQueue, Free, TypeOK
  <2> QED
    BY <2>1, <2>2
<1>4. CASE Acknowledge(w)
  <2>1. /\ step[w] = "ack"
        /\ \A v \in Worker \ {w} : step'[v] = step[v] /\ hands'[v] = hands[v]
        /\ UNCHANGED <<queue, creating, snapshots>>
    BY <1>0, <1>4 DEF Acknowledge, Free, TypeOK
  <2> QED
    BY <2>1
<1> QED
  BY <1>1, <1>2, <1>3, <1>4 DEF WorkerStep

(* A snapshot that is ready is one of today.                               *)
LEMMA ReadyToday ==
  ASSUME NEW e \in Disk, SnapshotReady(e)
  PROVE  \E s \in snapshots' : s.disk = e /\ s.age = 0
<1>1. PICK late \in BOOLEAN :
        snapshots' = snapshots \cup {[disk |-> e, age |-> 0, late |-> late]}
  BY DEF SnapshotReady
<1> DEFINE copy == [disk |-> e, age |-> 0, late |-> late]
<1>2. copy \in snapshots'
  BY <1>1
<1>3. copy.disk = e /\ copy.age = 0
  OBVIOUS
<1> QED
  BY <1>2, <1>3

LEMMA DiskKeepsTask ==
  ASSUME TypeInv, NEW e \in Disk, DiskStep(e), Lossless',
         NEW d \in Disk \cap present', Task(d)
  PROVE  Task(d)'
<1> USE DEF Task, HasCopyOfToday
<1>0. TypeOK
  BY DEF TypeInv
<1>1. CASE SnapshotReady(e)
  <2>0. PICK late \in BOOLEAN :
          snapshots' = snapshots \cup {[disk |-> e, age |-> 0, late |-> late]}
    BY <1>1 DEF SnapshotReady
  <2>1. CASE d = e
    BY <1>1, <2>1, ReadyToday
  <2>2. CASE d # e
    <3>1. creating'[d] = creating[d]
      BY <1>0, <1>1, <2>2 DEF SnapshotReady, TypeOK
    <3> QED
      BY <1>1, <2>0, <3>1 DEF SnapshotReady, workers
  <2> QED
    BY <2>1, <2>2
<1>2. CASE SnapshotFails(e)
  BY <1>2, FaultLossless DEF SnapshotFails
<1>3. CASE RemoveDisk(e)
  BY <1>3 DEF RemoveDisk, workers
<1>4. CASE Retention(e)
  <2>1. d # e
    BY <1>4 DEF Retention
  <2>2. queue'[d] = queue[d]
    BY <1>0, <1>4, <2>1 DEF Retention, TypeOK
  <2> QED
    BY <1>4, <2>2 DEF Retention, workers
<1> QED
  BY <1>1, <1>2, <1>3, <1>4 DEF DiskStep

(* What is of today does not expire today.                                 *)
LEMMA CleanKeepsTask ==
  ASSUME TypeInv, CleanStep \/ CleanStops, NEW d \in Disk, Task(d)
  PROVE  Task(d)'
<1>1. \A s \in snapshots : s.age = 0 => ~Expired(s)
  BY SizesAssumption DEF Expired
<1> QED
  BY <1>1 DEF CleanStep, CleanStart, DeleteExpired, CleanEnd, CleanStops, Task, HasCopyOfToday,
     workers

LEMMA SpawnKeepsTasks ==
  ASSUME TypeInv, TasksHeld, SpawnStep \/ SpawnStops
  PROVE  TasksHeld'
<1> USE DEF TasksHeld
<1>0. TypeOK
  BY DEF TypeInv
<1>1. CASE SpawnStart
  <2>1. next' = 1
    BY <1>1 DEF SpawnStart
  <2>2. \A d \in Disk : ~(1 > d)
    BY SizesAssumption DEF Disk
  <2> QED
    BY <2>1, <2>2, SelectedDisks
<1>2. CASE SpawnDisk
  <2> SUFFICES ASSUME Lossless', NEW d \in present' \cap Selected, next' > d
               PROVE  Task(d)'
    OBVIOUS
  <2>1. /\ Lossless /\ spawn = "running" /\ d \in present /\ d \in Disk
        /\ next' = next + 1
        /\ UNCHANGED <<step, hands, creating, snapshots>>
    BY <1>2, SelectedDisks DEF SpawnDisk, Lossless, workers, budget
  <2>2. queue'[d] = IF d = next THEN queue[d] + 1 ELSE queue[d]
    BY <1>0, <1>2, <2>1 DEF SpawnDisk, TypeOK
  <2>3. CASE d = next
    BY <1>0, <2>1, <2>2, <2>3 DEF Task, TypeOK
  <2>4. CASE d # next
    <3>1. next > d
      BY <1>0, <2>1, <2>4 DEF TypeOK, Disk
    <3>2. Task(d)
      BY <2>1, <3>1
    <3> QED
      BY <2>1, <2>2, <2>4, <3>2 DEF Task, HasCopyOfToday
  <2> QED
    BY <2>3, <2>4
<1>3. CASE SpawnEnd
  BY <1>3 DEF SpawnEnd, Lossless, Task, HasCopyOfToday, workers, budget
<1>4. CASE SpawnStops
  BY <1>4, FaultLossless DEF SpawnStops, Task, HasCopyOfToday, workers
<1> QED
  BY <1>1, <1>2, <1>3, <1>4 DEF SpawnStep

(* Apart from SpawnHandler and the day's end nothing moves the iterator.   *)
LEMMA OthersKeepTasks ==
  ASSUME TypeInv, TasksHeld,
         \/ CleanStep \/ CleanStops
         \/ \E w \in Worker : WorkerStep(w) \/ Crash(w) \/ \E e \in Disk : Receive(w, e)
         \/ \E e \in Disk : DiskStep(e)
  PROVE  TasksHeld'
<1>1. UNCHANGED <<spawn, next>> /\ present' \subseteq present
  BY DEF CleanStep, CleanStart, DeleteExpired, CleanEnd, CleanStops, WorkerStep, Create, Reject,
     Acknowledge, Crash, Receive, DiskStep, SnapshotReady, SnapshotFails, RemoveDisk, Retention
<1>2. Lossless' => Lossless
  <2>1. UNCHANGED budget \/ \E kind \in FaultKind : Fault(kind)
    BY DEF CleanStep, CleanStart, DeleteExpired, CleanEnd, CleanStops, WorkerStep, Create,
       Reject, Acknowledge, Crash, Receive, DiskStep, SnapshotReady, SnapshotFails, RemoveDisk,
       Retention, FaultKind
  <2> QED
    BY <2>1, FaultLossless DEF Lossless, budget
<1>3. ASSUME NEW d \in Disk \cap present', Lossless', Task(d) PROVE Task(d)'
  BY <1>3, HandlerKeepsTask, DiskKeepsTask, CleanKeepsTask
<1> QED
  BY <1>1, <1>2, <1>3, SelectedDisks DEF TasksHeld

LEMMA ListedStep ==
  ASSUME TypeInv, Listed, [Next]_vars
  PROVE  Listed'
<1> USE DEF Listed
<1>1. CASE SpawnStep
  BY <1>1 DEF SpawnStep, SpawnStart, SpawnDisk, SpawnEnd
<1>2. ASSUME NEW kind, Fault(kind) PROVE Listed'
  BY <1>2, FaultLossless
<1>3. CASE NextDay
  BY <1>3 DEF NextDay
<1>4. CASE UNCHANGED <<spawn, next, faults>>
  BY <1>4
<1> QED
  BY <1>1, <1>2, <1>3, <1>4 DEF Next, SpawnStops,
     CleanStep, CleanStart, DeleteExpired, CleanEnd, CleanStops, WorkerStep, Create, Reject,
     Acknowledge, Crash, Receive, DiskStep, SnapshotReady, SnapshotFails, RemoveDisk,
     Retention, vars, budget

LEMMA TasksStep ==
  ASSUME TypeInv, TasksHeld, [Next]_vars
  PROVE  TasksHeld'
<1>1. CASE UNCHANGED vars
  BY <1>1 DEF vars, TasksHeld, Lossless, Task, HasCopyOfToday, workers, budget
<1>2. CASE NextDay
  BY <1>2 DEF NextDay, TasksHeld
<1> QED
  BY <1>1, <1>2, SpawnKeepsTasks, OthersKeepTasks DEF Next

TaskInv == TypeInv /\ BadDayFits /\ TasksHeld /\ Listed

LEMMA TaskStep == TaskInv /\ [Next]_vars => TaskInv'
  BY TypeStep, TasksStep, ListedStep DEF TaskInv

LEMMA TaskInit == Init => TaskInv
  BY TypeInit DEF Init, TaskInv, BadDayFits, TasksHeld, Listed

(* Without operations that fail after they were accepted, every message    *)
(* sent today ends in a snapshot or is still on its way there, whatever    *)
(* crashes and however often the quota turns it down.                      *)
THEOREM TasksKept ==
  ASSUME "operation" \notin Faults
  PROVE  Spec => []NoTaskLost
<1>1. TaskInv => NoTaskLost
  BY DEF TaskInv, TasksHeld, Lossless, Task, NoTaskLost
<1> QED
  BY <1>1, TaskInit, TaskStep, PTL DEF Spec

-----------------------------------------------------------------------------
(* Coverage.  When the timers fire the youngest snapshot of a disk is at   *)
(* most a day older than the run of bad days before: a day without a fault *)
(* has a snapshot of its own by its end.                                   *)

YoungCopy(d, age) == \E s \in snapshots : s.disk = d /\ s.age <= age

Young == \A d \in present \cap Selected : HasCopy(d) => YoungCopy(d, bad + 1)

KeepInv == TaskInv /\ Young

(* The young one does not expire: bad + 1 is less than TTL.                *)
LEMMA DeleteKeepsCopy ==
  ASSUME MaxBadDays + 1 < TTL, TypeInv, DeleteExpired,
         NEW d, YoungCopy(d, bad + 1)
  PROVE  YoungCopy(d, bad + 1)'
<1>1. TypeOK /\ bad' = bad
  BY DEF TypeInv, DeleteExpired, budget
<1>2. PICK s \in snapshots : s.disk = d /\ s.age <= bad + 1
  BY DEF YoungCopy
<1>3. ~Expired(s)
  BY <1>1, <1>2, SizesAssumption DEF Expired, TypeOK, Snapshot, Age
<1>4. s \in snapshots'
  BY <1>2, <1>3 DEF DeleteExpired
<1> QED
  BY <1>1, <1>2, <1>4 DEF YoungCopy

LEMMA DeleteKeepsYoung ==
  ASSUME MaxBadDays + 1 < TTL, KeepInv, DeleteExpired
  PROVE  Young'
<1>1. present' = present /\ \A d : HasCopy(d)' => HasCopy(d)
  BY DEF DeleteExpired, HasCopy
<1> QED
  BY <1>1, DeleteKeepsCopy DEF KeepInv, TaskInv, Young

LEMMA ReadyKeepsYoung ==
  ASSUME KeepInv, NEW e \in Disk, SnapshotReady(e)
  PROVE  Young'
<1>0. TypeOK
  BY DEF KeepInv, TaskInv, TypeInv
<1>1. PICK late \in BOOLEAN :
        snapshots' = snapshots \cup {[disk |-> e, age |-> 0, late |-> late]}
  BY DEF SnapshotReady
<1>2. UNCHANGED <<present, bad>>
  BY DEF SnapshotReady, budget
<1> SUFFICES ASSUME NEW d \in present \cap Selected, HasCopy(d)'
             PROVE  YoungCopy(d, bad + 1)'
  BY <1>2 DEF Young
<1>3. CASE d = e
  <2>1. PICK s \in snapshots' : s.disk = d /\ s.age = 0
    BY <1>3, ReadyToday
  <2>2. s.age <= bad' + 1
    BY <1>0, <1>2, <2>1, SizesAssumption DEF TypeOK
  <2> QED
    BY <2>1, <2>2 DEF YoungCopy
<1>4. CASE d # e
  <2>1. HasCopy(d)
    BY <1>1, <1>4 DEF HasCopy
  <2> QED
    BY <1>1, <1>2, <2>1 DEF KeepInv, Young, YoungCopy
<1> QED
  BY <1>3, <1>4

(* A night later the young copy is at most a day older.                    *)
LEMMA NightAges ==
  ASSUME TypeInv, NextDay, NEW d, NEW age \in Nat, YoungCopy(d, age)
  PROVE  \E s \in snapshots' : s.disk = d /\ s.age <= age + 1
<1>1. PICK s \in snapshots : s.disk = d /\ s.age <= age
  BY DEF YoungCopy
<1>2. s \in Snapshot /\ s.age \in Nat
  BY SizesAssumption DEF TypeInv, TypeOK, Snapshot, Age
<1>3. Aged(s) \in snapshots'
  BY <1>1 DEF NextDay
<1>4. Aged(s).age \in Nat /\ Aged(s).disk = d /\ Aged(s).age <= s.age + 1
  BY <1>1, <1>2, AgedTyped, SizesAssumption DEF Snapshot, Age
<1>5. Aged(s).age <= age + 1
  BY <1>1, <1>2, <1>4
<1> QED
  BY <1>3, <1>4, <1>5

(* At the end of a day without a fault each disk has a snapshot of today;  *)
(* otherwise the run of bad days grows with the age.                       *)
LEMMA NextDayKeepsYoung ==
  ASSUME KeepInv, NextDay
  PROVE  Young'
<1>0. TypeOK /\ TypeInv
  BY DEF KeepInv, TaskInv, TypeInv
<1>1. present' = present /\ snapshots' = {Aged(s) : s \in snapshots}
  BY DEF NextDay
<1> SUFFICES ASSUME NEW d \in present \cap Selected, HasCopy(d)'
             PROVE  YoungCopy(d, bad + 1)'
  BY <1>1 DEF Young
<1>2. HasCopy(d)
  BY <1>0, <1>1, AgedTyped DEF HasCopy, TypeOK
<1>3. CASE faults = 0
  <2>1. /\ spawn = "done" /\ bad' = 0
        /\ queue[d] = 0 /\ creating[d] = 0
        /\ \A w \in Worker : step[w] # "create"
    BY <1>3, SelectedDisks DEF NextDay
  <2>2. next > d
    BY <1>0, <1>3, <2>1, SelectedDisks, SizesAssumption DEF KeepInv, TaskInv, Listed, TypeOK, Disk
  <2>3. Task(d)
    BY <1>3, <2>1, <2>2 DEF KeepInv, TaskInv, TasksHeld, Lossless
  <2>4. YoungCopy(d, 0)
    BY <2>1, <2>3 DEF Task, HasCopyOfToday, YoungCopy
  <2> QED
    BY <1>0, <2>1, <2>4, NightAges DEF YoungCopy
<1>4. CASE faults # 0
  <2>1. bad' = bad + 1 /\ bad + 1 \in Nat
    BY <1>0, <1>4, SizesAssumption DEF NextDay, TypeOK
  <2>2. YoungCopy(d, bad + 1)
    BY <1>2 DEF KeepInv, Young
  <2> QED
    BY <1>0, <2>1, <2>2, NightAges DEF YoungCopy
<1> QED
  BY <1>3, <1>4

(* No other step takes a snapshot away, adds a disk or ends a day.         *)
LEMMA OtherSteps ==
  ASSUME [Next]_vars, ~DeleteExpired, ~NextDay,
         \A e \in Disk : ~SnapshotReady(e)
  PROVE  snapshots' = snapshots /\ bad' = bad /\ present' \subseteq present
  BY DEF Next, SpawnStep, SpawnStart, SpawnDisk, SpawnEnd, SpawnStops, CleanStep, CleanStart,
     CleanEnd, CleanStops, WorkerStep, Create, Reject, Acknowledge, Crash, Receive, DiskStep,
     SnapshotFails, RemoveDisk, Retention, Fault, vars, budget

LEMMA KeepStep ==
  ASSUME MaxBadDays + 1 < TTL
  PROVE  KeepInv /\ [Next]_vars => KeepInv'
<1> SUFFICES ASSUME KeepInv, [Next]_vars PROVE Young'
  BY TaskStep DEF KeepInv
<1>1. CASE ~DeleteExpired /\ ~NextDay /\ \A e \in Disk : ~SnapshotReady(e)
  <2>1. snapshots' = snapshots /\ bad' = bad /\ present' \subseteq present
    BY <1>1, OtherSteps
  <2> QED
    BY <2>1 DEF KeepInv, Young, YoungCopy, HasCopy
<1> QED
  BY <1>1, DeleteKeepsYoung, NextDayKeepsYoung, ReadyKeepsYoung

(* A disk once backed up keeps a snapshot until it is removed, for every   *)
(* TTL, every number of disks and handlers and every fault, as long as     *)
(* fewer than TTL - 1 days in a row have one.                              *)
THEOREM Coverage ==
  ASSUME MaxBadDays + 1 < TTL
  PROVE  Spec => CoverageKept
<1>1. Init => KeepInv
  BY TaskInit DEF Init, KeepInv, Young, HasCopy
<1>2. KeepInv /\ [Next]_vars =>
        [\A d \in Selected : HasCopy(d) /\ d \in present' => HasCopy(d)']_vars
  <2> SUFFICES ASSUME KeepInv, [Next]_vars,
                      NEW d \in Selected, HasCopy(d), d \in present'
               PROVE  HasCopy(d)'
    OBVIOUS
  <2>1. d \in present
    <3>1. present' \subseteq present
      BY OtherSteps DEF DeleteExpired, NextDay, SnapshotReady
    <3> QED
      BY <3>1
  <2>2. YoungCopy(d, bad + 1) /\ TypeInv
    BY <2>1 DEF KeepInv, TaskInv, Young
  <2>3. CASE DeleteExpired
    BY <2>2, <2>3, DeleteKeepsCopy DEF YoungCopy, HasCopy
  <2>4. CASE NextDay
    BY <2>2, <2>4, AgedTyped DEF NextDay, TypeInv, TypeOK, HasCopy
  <2>5. CASE \E e \in Disk : SnapshotReady(e)
    BY <2>5 DEF SnapshotReady, HasCopy
  <2> QED
    BY <2>3, <2>4, <2>5, OtherSteps DEF HasCopy
<1> QED
  BY <1>1, <1>2, KeepStep, PTL DEF Spec, CoverageKept

=============================================================================
