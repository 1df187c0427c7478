--------------------------- MODULE SnapshotBackup ---------------------------
(***************************************************************************)
(* The snapshot backup tool: three cloud functions around a message queue. *)
(*   SpawnHandler     timer, daily: one message per disk to back up;       *)
(*   SnapshotHandler  queue trigger: asks for a snapshot of the message's  *)
(*                    disk, labelled with the time it may be deleted at;   *)
(*   DeleteHandler    timer, an hour later: deletes what has expired.      *)
(*                                                                         *)
(* Time is counted in days, from one run of the creation timer to the next *)
(* (22:00), with the run of the deletion timer (23:00) in between.  A      *)
(* label made before that run's time of day has passed on the day on which *)
(* the snapshot is TTL days old; one made later, by a task that was        *)
(* retried for long, passes a day after.  Expired snapshots of a disk are  *)
(* alike, and so are two taken on a day on the same side of that time.     *)
(***************************************************************************)
EXTENDS Naturals, FiniteSets, FiniteSetsExt

CONSTANTS
  NumDisks,    \* disks of the folder, in the order they are listed
  Marked,      \* the disks with the label "snapshot"
  OnlyMarked,  \* is MODE "only-marked"?
  Worker,      \* slots for concurrent runs of SnapshotHandler
  TTL,         \* life of a snapshot, in whole days
  Quota,       \* operations the cloud runs at the same time (15)
  Faults,      \* kinds of faults that may happen
  MaxFaults,   \* bound: faults on one day
  MaxBadDays,  \* bound: successive days with a fault
  Nil          \* no message

Disk == 1 .. NumDisks
Age == 0 .. TTL
Snapshot == [disk : Disk, age : Age, late : BOOLEAN]
FaultKind == {"crash", "operation", "listing", "delete"}
Phase == {"due", "running", "done"}

ASSUME SizesAssumption ==
  /\ NumDisks \in Nat /\ TTL \in Nat \ {0} /\ Quota \in Nat \ {0}
  /\ MaxFaults \in Nat /\ MaxBadDays \in Nat
ASSUME DisksAssumption == Marked \subseteq Disk /\ OnlyMarked \in BOOLEAN
ASSUME FaultsAssumption == Faults \subseteq FaultKind
ASSUME NilAssumption == Nil \notin Disk

VARIABLES
  present,    \* disks not removed yet
  spawn,      \* today's run of SpawnHandler
  next,       \* its iterator over the disks
  clean,      \* today's run of DeleteHandler
  queue,      \* visible messages of each disk
  hands,      \* the message a SnapshotHandler works on
  step,       \* where that handler is
  creating,   \* operations under way for a disk
  snapshots,  \* finished snapshots: disk, age in days, and whether the
              \* label was made after the deletion timer's time of day
  faults,     \* faults of the day
  bad         \* days with a fault up to yesterday, in a row

workers == <<hands, step>>
budget == <<faults, bad>>
vars == <<present, spawn, next, clean, queue, workers, creating, snapshots, budget>>

TypeOK ==
  /\ present \subseteq Disk
  /\ spawn \in Phase /\ clean \in Phase
  /\ next \in 1 .. NumDisks + 1
  /\ queue \in [Disk -> Nat]
  /\ hands \in [Worker -> Disk \cup {Nil}]
  /\ step \in [Worker -> {"idle", "create", "ack"}]
  /\ creating \in [Disk -> Nat]
  /\ snapshots \subseteq Snapshot
  /\ faults \in 0 .. MaxFaults
  /\ bad \in 0 .. MaxBadDays

Init ==
  /\ present = Disk
  /\ spawn = "due" /\ clean = "due"
  /\ next = 1
  /\ queue = [d \in Disk |-> 0]
  /\ hands = [w \in Worker |-> Nil]
  /\ step = [w \in Worker |-> "idle"]
  /\ creating = [d \in Disk |-> 0]
  /\ snapshots = {}
  /\ faults = 0 /\ bad = 0

(* Something goes wrong, on a day on which that is still within bounds.    *)
Fault(kind) ==
  /\ kind \in Faults
  /\ faults < MaxFaults
  /\ bad < MaxBadDays
  /\ faults' = faults + 1
  /\ UNCHANGED bad

-----------------------------------------------------------------------------
(* SpawnHandler.                                                           *)

Selected == IF OnlyMarked THEN Marked ELSE Disk

SpawnStart ==
  /\ spawn = "due"
  /\ spawn' = "running"
  /\ next' = 1
  /\ UNCHANGED <<present, clean, queue, workers, creating, snapshots, budget>>

(* Seeded: the iterator is asked once too often.                           *)
SpawnDiskPastEnd ==
  /\ spawn = "running"
  /\ next <= NumDisks + 1
  /\ next' = next + 1
  /\ queue' = [d \in Disk |-> IF d = next /\ d \in present \cap Selected
                              THEN queue[d] + 1 ELSE queue[d]]
  /\ UNCHANGED <<present, spawn, clean, workers, creating, snapshots, budget>>

(* One turn of the loop: skip the disk or send its message.                *)
SpawnDisk ==
  /\ spawn = "running"
  /\ next <= NumDisks
  /\ next' = next + 1
  /\ queue' = [d \in Disk |-> IF d = next /\ d \in present \cap Selected
                              THEN queue[d] + 1 ELSE queue[d]]
  /\ UNCHANGED <<present, spawn, clean, workers, creating, snapshots, budget>>

SpawnEnd ==
  /\ spawn = "running"
  /\ next > NumDisks
  /\ spawn' = "done"
  /\ UNCHANGED <<present, next, clean, queue, workers, creating, snapshots, budget>>

(* SendMessage fails, or the listing does: Next() is false then, nobody    *)
(* asks the iterator for its error and the handler answers 200.  Messages  *)
(* already sent stay sent, the rest of the disks has none today.           *)
SpawnStops ==
  /\ spawn = "running"
  /\ Fault("listing")
  /\ spawn' = "done"
  /\ UNCHANGED <<present, next, clean, queue, workers, creating, snapshots>>

-----------------------------------------------------------------------------
(* SnapshotHandler.                                                        *)

Receive(w, d) ==
  /\ step[w] = "idle"
  /\ queue[d] > 0
  /\ queue' = [queue EXCEPT ![d] = @ - 1]
  /\ hands' = [hands EXCEPT ![w] = d]
  /\ step' = [step EXCEPT ![w] = "create"]
  /\ UNCHANGED <<present, spawn, next, clean, creating, snapshots, budget>>

Free(w) ==
  /\ hands' = [hands EXCEPT ![w] = Nil]
  /\ step' = [step EXCEPT ![w] = "idle"]

BackToQueue(w) == Free(w) /\ queue' = [queue EXCEPT ![hands[w]] = @ + 1]

(* The compute API takes the request: the disk exists and the number of    *)
(* operations under way is below the quota.                                *)
Accepted(d) ==
  /\ d \in present
  /\ MapThenSumSet(LAMBDA e : creating[e], Disk) < Quota

Create(w) ==
  /\ step[w] = "create"
  /\ Accepted(hands[w])
  /\ creating' = [creating EXCEPT ![hands[w]] = @ + 1]
  /\ step' = [step EXCEPT ![w] = "ack"]
  /\ UNCHANGED <<present, spawn, next, clean, queue, hands, snapshots, budget>>

(* Seeded: the error of Create is logged only, the handler answers 200.    *)
RejectQuietly(w) ==
  /\ step[w] = "create"
  /\ ~Accepted(hands[w])
  /\ Free(w)
  /\ UNCHANGED <<present, spawn, next, clean, queue, creating, snapshots, budget>>

(* Create returns an error and so does the handler: the message becomes    *)
(* visible again.                                                          *)
Reject(w) ==
  /\ step[w] = "create"
  /\ ~Accepted(hands[w])
  /\ BackToQueue(w)
  /\ UNCHANGED <<present, spawn, next, clean, creating, snapshots, budget>>

(* The handler answers 200, with whatever it knows of the operation, and   *)
(* the trigger deletes the message.                                        *)
Acknowledge(w) ==
  /\ step[w] = "ack"
  /\ Free(w)
  /\ UNCHANGED <<present, spawn, next, clean, queue, creating, snapshots, budget>>

(* Seeded: a panic is recovered from and the handler answers 200.          *)
CrashQuietly(w) ==
  /\ step[w] # "idle"
  /\ Fault("crash")
  /\ Free(w)
  /\ UNCHANGED <<present, spawn, next, clean, queue, creating, snapshots>>

(* The handler times out or raises, before or after Create.                *)
Crash(w) ==
  /\ step[w] # "idle"
  /\ Fault("crash")
  /\ BackToQueue(w)
  /\ UNCHANGED <<present, spawn, next, clean, creating, snapshots>>

(* The operation ends.  Nobody waits for it: Error() looks at the answer   *)
(* of Create only, and when that has an error the answer is 200 as well.   *)
(* The label is the time at which the handler started, before Create: it   *)
(* can only be later than the day's deletion when that has begun.          *)
SnapshotReady(d) ==
  /\ creating[d] > 0
  /\ creating' = [creating EXCEPT ![d] = @ - 1]
  /\ \E late \in BOOLEAN :
       /\ late => clean # "due"
       /\ snapshots' = snapshots \cup {[disk |-> d, age |-> 0, late |-> late]}
  /\ UNCHANGED <<present, spawn, next, clean, queue, workers, budget>>

SnapshotFails(d) ==
  /\ creating[d] > 0
  /\ Fault("operation")
  /\ creating' = [creating EXCEPT ![d] = @ - 1]
  /\ UNCHANGED <<present, spawn, next, clean, queue, workers, snapshots>>

-----------------------------------------------------------------------------
(* DeleteHandler.                                                          *)

CleanStart ==
  /\ clean = "due"
  /\ spawn # "due"
  /\ clean' = "running"
  /\ UNCHANGED <<present, spawn, next, queue, workers, creating, snapshots, budget>>

(* Seeded: the comparison is a day off.                                    *)
ExpiredEarly(s) == s.age + 1 >= TTL

(* now > expiration_ts, at the time of day of the deletion timer.          *)
Expired(s) == s.age = TTL /\ ~s.late

(* A day later.  What is TTL days old is expired then, late or not, and    *)
(* ages beyond TTL are not told apart.                                     *)
Aged(s) == IF s.age < TTL THEN [s EXCEPT !.age = @ + 1] ELSE [s EXCEPT !.late = FALSE]

DeleteExpired ==
  /\ clean = "running"
  /\ \E s \in snapshots : Expired(s) /\ snapshots' = snapshots \ {s}
  /\ UNCHANGED <<present, spawn, next, clean, queue, workers, creating, budget>>

(* Seeded: returns from inside the loop.                                   *)
CleanEndEarly ==
  /\ clean = "running"
  /\ clean' = "done"
  /\ UNCHANGED <<present, spawn, next, queue, workers, creating, snapshots, budget>>

(* The whole list was visited; the snapshots taken meanwhile are young.    *)
CleanEnd ==
  /\ clean = "running"
  /\ ~\E s \in snapshots : Expired(s)
  /\ clean' = "done"
  /\ UNCHANGED <<present, spawn, next, queue, workers, creating, snapshots, budget>>

(* Delete returns an error, or the listing does: the rest stays today.     *)
CleanStops ==
  /\ clean = "running"
  /\ Fault("delete")
  /\ clean' = "done"
  /\ UNCHANGED <<present, spawn, next, queue, workers, creating, snapshots>>

-----------------------------------------------------------------------------
(* The surroundings.                                                       *)

RemoveDisk(d) ==
  /\ d \in present
  /\ present' = present \ {d}
  /\ UNCHANGED <<spawn, next, clean, queue, workers, creating, snapshots, budget>>

(* A message nobody can handle leaves the queue by its retention time.     *)
Retention(d) ==
  /\ d \notin present
  /\ queue[d] > 0
  /\ queue' = [queue EXCEPT ![d] = @ - 1]
  /\ UNCHANGED <<present, spawn, next, clean, workers, creating, snapshots, budget>>

(* Tasks take minutes and are retried within minutes: the next day starts  *)
(* after both timers fired and the day's tasks are through.                *)
NextDay ==
  /\ spawn = "done" /\ clean = "done"
  /\ \A d \in Disk : queue[d] = 0 /\ creating[d] = 0
  /\ \A w \in Worker : step[w] = "idle"
  /\ spawn' = "due" /\ clean' = "due"
  /\ snapshots' = {Aged(s) : s \in snapshots}
  /\ faults' = 0
  /\ bad' = IF faults > 0 THEN bad + 1 ELSE 0
  /\ UNCHANGED <<present, next, queue, workers, creating>>

-----------------------------------------------------------------------------

SpawnStep == SpawnStart \/ SpawnDisk \/ SpawnEnd
CleanStep == CleanStart \/ DeleteExpired \/ CleanEnd
WorkerStep(w) == Create(w) \/ Reject(w) \/ Acknowledge(w)
DiskStep(d) == SnapshotReady(d) \/ SnapshotFails(d) \/ RemoveDisk(d) \/ Retention(d)

Next ==
  \/ SpawnStep \/ SpawnStops
  \/ CleanStep \/ CleanStops
  \/ \E w \in Worker : WorkerStep(w) \/ Crash(w) \/ \E d \in Disk : Receive(w, d)
  \/ \E d \in Disk : DiskStep(d)
  \/ NextDay

Spec == Init /\ [][Next]_vars

(* The timers fire daily, functions run, operations end; the queue offers  *)
(* every message again and again until it is deleted.                      *)
FairSpec ==
  /\ Spec
  /\ WF_vars(SpawnStep) /\ WF_vars(CleanStep) /\ WF_vars(NextDay)
  /\ \A w \in Worker : WF_vars(WorkerStep(w))
  /\ \A d \in Disk : /\ SF_vars(\E w \in Worker : Receive(w, d))
                     /\ WF_vars(SnapshotReady(d))
                     /\ SF_vars(Retention(d))

-----------------------------------------------------------------------------
(* Properties.                                                             *)

HasCopy(d) == \E s \in snapshots : s.disk = d
HasCopyOfToday(d) == \E s \in snapshots : s.disk = d /\ s.age = 0

(* A disk once backed up is never left without a snapshot, although        *)
(* operations fail silently, listings break off, functions crash and the   *)
(* deletion goes on: as long as fewer than TTL - 1 days in a row go wrong. *)
(* On the day after those, the last snapshot is MaxBadDays + 1 days old    *)
(* when DeleteHandler runs, and the new one may not be ready yet.          *)
CoverageKept ==
  [][\A d \in Selected : HasCopy(d) /\ d \in present' => HasCopy(d)']_vars

(* What was asked for today is waiting, in a handler, under way or done:   *)
(* "if for some reason the snapshot could not be created, the message      *)
(* returns to the queue" (snapshot-disks.go, the comment before the check  *)
(* of the operation's error).                                              *)
NoTaskLost ==
  spawn # "due" =>
    \A d \in present \cap Selected :
      next > d => \/ queue[d] > 0
                  \/ \E w \in Worker : hands[w] = d
                  \/ creating[d] > 0
                  \/ HasCopyOfToday(d)

(* A task the quota turned down, or whose handler crashed, is tried again  *)
(* until the snapshot exists.                                              *)
TasksEndInSnapshots ==
  \A d \in Disk : queue[d] > 0 ~> (HasCopyOfToday(d) \/ d \notin present)

(* Expired snapshots do not pile up: a deletion that broke off is made up  *)
(* for on a later day, as not more than MaxBadDays in a row go wrong.      *)
ExpiredGo == []<>(\A s \in snapshots : ~Expired(s))

=============================================================================
