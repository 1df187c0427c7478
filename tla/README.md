# Formal models of the yc-architect-solution-library

The repository is a library of solutions for Yandex Cloud. Most of it is
declarative (Terraform, Helm, manifests), and most of its programs are short.
Four of them are small distributed protocols: timers and queues start cloud
functions that share state in a bucket, in the VPC or in the compute API; any
of them may fail, time out or overlap with the next run. Two more are the halves
of a speech application, a web page full of callbacks and the server-side client that
streams its audio. These six are modelled here in TLA+, model-checked
with TLC and, for the safety properties that matter most, proved with TLAPS for
every size.

| Module | Models | Proofs |
| --- | --- | --- |
| `RouteSwitcher` | `src/yc-route-switcher-v2/route-switcher` (function, timer, config object) | `RouteSwitcher_proofs` |
| `ProtectedTables` | the promise of `RouteSwitcher` to the operator (abstract specification) | `RouteSwitcher_proofs` |
| `SubnetSwitcher` | `src/yc-route-switcher/modules/multi-vpc-protected-network` (checker, queue, switcher) | `SubnetSwitcher_proofs` |
| `RouteRequests` | the promise of the queue and the switchers to whoever sends messages (abstract specification) | `SubnetSwitcher_proofs` |
| `SnapshotBackup` | `src/yc-snap-backup-tool` (three functions, queue, quota, retention) | `SnapshotBackup_proofs` |
| `AsrBatch` | `src/yc-ai/python-tools/asr-batch` (both passes of a run, the bucket, the operations) | `AsrBatch_proofs` |
| `SpeechPage` | `src/yc-ai/yc-scale-2022`: the page `SpeechKitSR.js` and the session of `SpeechKitAsrController.cs` | `SpeechPage_proofs` |
| `StreamClient` | `src/yc-ai/yc-speechkit-hybrid/SpeechKitClient` (the streaming client that session uses) | `StreamClient_proofs` |
| `AudioChannel` | the promise of the streaming client to its session (abstract specification) | `StreamClient_proofs` |
| `MCRouteSwitcher`, `MCSubnetSwitcher`, `MCSnapshotBackup`, `MCAsrBatch`, `MCSpeechPage`, `MCStreamClient` | values of the constants for TLC | |

To check: `tlc -config <run>.cfg <MC module>.tla` for every run of
`PROJECT.json`, `tlapm <module>_proofs.tla` for the proofs.

## 1. Inventory

### Components, their state, operations and interactions

| Component | State it keeps | Operations | Interacts with |
| --- | --- | --- | --- |
| Route switcher v2 (`main.py`) | the config object in a bucket (routers, tables, remembered preferred hops); nothing between runs otherwise | `handler`, `check_router_statuses`, `failover` (thread pool), `put_config` | load balancer (states), VPC (tables, operations), bucket, Terraform (renders the same object), the operator (edits tables) |
| Route switcher v1, checker | side ("active") of each router in a config object | `check_router_statuses`, `failover` (sends messages), `put_config` | load balancer, bucket, message queue |
| Route switcher v1, switcher | none; the route table of each subnet lives in the VPC | `handler`: detach, wait, attach, wait | message queue (at least once, unordered, visibility timeout), VPC |
| Snapshot backup: `SpawnHandler` | none | lists disks, one message per disk | compute API, message queue |
| Snapshot backup: `SnapshotHandler` | none; label `expiration_ts` on a snapshot | create a snapshot for a message | message queue, compute API and its quota of operations |
| Snapshot backup: `DeleteHandler` | none | delete expired snapshots | compute API |
| Batch recognition, Python (`asr-batch`; `vision-ocr` likewise) | status, result and text objects in a bucket | submit new files, poll operations | bucket, SpeechKit / Vision |
| Batch recognition, C# | a file of tasks, appended line by line | submit, reload, poll | SpeechKit |
| Streaming recognition client, C# (hybrid; an older one in streaming-asr) | the gRPC call, the bytes sent, a machine-wide named mutex | `Listener_SpeechKitSend`, `ActiveCall`, `WriteAudio`, `Dispose`, the response reader | the web application's sessions, SpeechKit |
| Speech web application (scale 2022), server | one request per web socket, a processor with a database connection and a flag | `AudioStreaming`: configuration, receive loop, finally; `AsrProcessor`: results to the page and the database | page, streaming client, classifier |
| Browser audio client (scale 2022) | the current recorder, interval and socket, flags, the shown text | `initialize`, `sendAudio`, `timerTick`, `stopRecording` and the events of the socket | user, microphone, server |
| Tracker import and report | watermark = newest update in ClickHouse | paged import, upload | Tracker, ClickHouse |
| Vision batch client, data stream samples, transcoder, demos | local | see `PROJECT.json` | |
| Infrastructure recipes | none that runs here | | |

`PROJECT.json` lists every component with its status and the reason where it is
not modelled, and every hazard at its line.

### Hard behaviours

* **Overlap.** The v1 and v2 timers fire every minute, a run may take ten
  (`execution_timeout = 600`); the queue trigger of v1 and of the backup tool runs
  several handlers at a time.
* **Time of check, time of use.** v2 asks the load balancer once, then reads
  tables, then sends whole tables, then uploads a whole config object.
* **Partial failure.** Requests fail between the steps, accepted operations fail
  later and nobody waits for them, functions time out at any point, a listing
  that breaks off looks like its end.
* **Unordered, repeated delivery** of messages that carry an absolute command
  without a version.
* **Callbacks.** The page's microphone, recorder, interval, refresh timers and
  the closing handshakes of older sockets all act on "the current" session,
  whichever that is when they run.
* **Sharing.** All sessions of a server wait for one named mutex, and a static
  event brings every session's responses to all of them.
* **Time.** Daily creation, TTL and daily deletion must never add up to a disk
  without a snapshot.

### What makes each component correct

* v2: traffic leaves a failed router and comes back after recovery; a table is
  never given an address of another network; routes that are not the switcher's
  are not touched; the remembered preferred hop is not overwritten by the backup;
  the config keeps what Terraform and the operator did.
* v1: a subnet is never left without a route table and without a message that
  repairs it; one failure or recovery leads to the right table; the last recovery
  wins.
* Backup: every task of the day ends in a snapshot in spite of the quota and
  crashes; deletion never takes the last snapshot of a disk; expired ones go.
* Batch recognition: a file marked done has its results; files are not submitted
  over and over; every file ends.
* Page: when no recording is shown nothing records, audio goes only to a server that
  is ready for it and belongs to it, as long as no microphone request is answered during
  a recording; then, too, an idle page is silent, and everything ends.
* Streaming client: across new calls audio is written in order, and no chunk is left
  unwritten but for the mutex; every call that gets audio is read; the mutex is freed.
* Not modelled: an import neither skips nor doubles an issue.

## 2. RouteSwitcher (version 2)

### State and actions

`status` is the load balancer's answer per router (HEALTHY, UNHEALTHY, which
stands for every other word, or ABSENT), `nextHop` the static routes of each
table as functions from prefixes to next hops, `ops` the accepted and not yet carried-out
update of a table, `config` the bucket's object: remembered hops per table
(`routes`), the tables with a `routes` key (`keyed`) and a generation number
(`gen`), which is not in the object: it stands for the input parameters
Terraform rendered. Every invocation slot `i` has
its own copies: `conf`, `snap` (targetStatus), `cursor` (the loop), `patch`
(`all_routeTables`) and `changed` (`config_changed`). `behind` is a history variable that
no action reads: the invocations at work that have not read the object since another
one last saved it.

| Action | Code |
| --- | --- |
| `Start` | `handler`, `get_config` (a failing read returns: stuttering) |
| `GetStatuses`, `GiveUp` | the GET of target states and the early returns, main.py 37-123 |
| `ReadTable` | the whole body of the loop, 127-192: `Switched` (152-171), `Recorded` (172-180), `Pruned` (186-192) |
| `SkipTable` | the three `continue`s |
| `SendTable`, `SendFails` | one thread of the pool, `failover` |
| `PutConfig`, `ReturnsOrRaises` | 207-210 and `put_config` |
| `TimesOut` | `execution_timeout` |
| `ApplyOperation`, `DropOperation`, `SetStatus`, `EditRoute`, `ApplyParameters` | VPC, load balancer, operator, `terraform apply` |

`SendTable` and `SendFails` do not fix an order between tables, as the pool does
not. The VPC runs one operation at a time on a table (`ops[t] = NoTable` in the
guard of `SendTable`); a second request is refused (`SendFails`). The initial
states are those in which the README starts the module: all routers healthy, tables of the
operator's choice, an object without remembered hops.

### Properties

* `HopsStayInSegment`: no next hop ever belongs to another network, however
  stale the copy it came from. It is proved; the runs check it as a part of
  `ImplementsProtected`.
* `OnlyRouterHopsMove`: unless the operator edits, only next hops change, and
  only from router address to router address: no route is lost in the whole-list
  PATCH.
* `ImplementsProtected`: the switcher implements the abstract specification
  `ProtectedTables`, whose state is the tables and the set of tables with an
  operation under way (`busy <- {t \in Table : ops[t] # NoTable}`). Its steps are
  `Accept` (the code's `SendTable`), `Finish` (the VPC's `ApplyOperation` and
  `DropOperation`: routes through routers may move, within the network, and no
  other) and the operator's `Edit`; everything else the switcher does is a
  stuttering step. It is the promise a user of the tables needs and names
  neither invocations nor the config object.
* `PreferredHopKept`: a remembered hop is kept or forgotten, and replaced only by a
  run that was overtaken, i.e. that read the object before another run saved it. Such
  a run can replace a hop, because `put_config` writes the whole object and both may have
  found the prefix unknown and seen different hops in use. The timer (60 s) and
  the timeout (600 s) allow this, so the property does not assume it away: the history variable
  `behind` holds the overtaken invocations, and their saves are the only ones excepted.
* `SettledStays`: a network in which all is well is left alone.
* `FailoverHappens`, `FailbackHappens`: a lasting failure ends on the backup, a
  lasting recovery on the remembered hop.

The last four are checked with two overlapping invocations.

### Runs

| Run | Instance | Shows |
| --- | --- | --- |
| `rs_serial` (`RouteSwitcherSerial.cfg`) | three routers (one only a target), two with an interface in each of two networks, two prefixes, one table, one invocation, operator edits between runs, one `terraform apply` | types, `OnlyRouterHopsMove`, the refinement and `PreferredHopKept` |
| `rs_live` (`RouteSwitcherLive.cfg`) | two routers, one prefix, two overlapping invocations, `FairSpec` | the two liveness properties, `PreferredHopKept` and `SettledStays` under overlap |
| `rs_apply` | as `rs_serial` | **violated** `AppliedParametersStay`, see Findings |

Why these bounds are enough: two prefixes are what `Differ` needs for its
numbers to agree by chance; a hop of another network, a foreign hop and a third
router make every branch of `Switched` and `GetStatuses` possible; tables do not
influence each other but for the shared `conf` and `changed`, and the proofs
cover any number of them. Two overlapping invocations with edits and applies as well are
beyond TLC; the theorems cover them. `MaxApplies` bounds the number of applies.

`Pruned` keeps a peculiarity of the code: forgotten prefixes are looked for only
when two *numbers* differ (main.py:187), so a deletion and an addition between two
runs hide each other and the entry of the deleted prefix stays, although the comment
at main.py:188 announces its deletion. It stays until the numbers differ again;
`PreferredHopKept` allows both outcomes.

### Fairness

`FairSpec` assumes that the timer keeps starting a run and the run goes on
(`WF(Working(i))`; the cron expression fires every minute), that the VPC carries
out accepted operations, and that from some time on nothing fails for a reason
of its own (`<>[][~Fault]_vars`): the code retries only by being started again, so
nothing can be promised while every run fails. Faults before that time are
unlimited.

## 3. SubnetSwitcher (version 1)

### State and actions

`healthy` is the load balancer's view, `active` the side in the bucket,
`attached` the table of each subnet ("none" after the detach), `queue` the
visible copies of each message. A checker has its copy `mine` and the subnets to
notify, `outbox`; a switcher the message `msg` (in flight), its step `wpc` and its
`tries`.

| Action | Code |
| --- | --- |
| `ReadConfig`, `CheckStatuses` | `checker_function/main.py` 15-67 |
| `SendMessage` | one turn of the loop of `failover`, 69-88, in list order |
| `SaveConfig` | `put_config`, after everything was sent |
| `CheckerFails` | anything raises, or the timeout: nothing is saved |
| `Receive` | the trigger, batch size 1; any visible message |
| `OperationDone`, `OperationError` | one PATCH and its operation in `retry_rt_switch_operation`; after `num_tries` errors it goes on as after a success |
| `Delete` | the handler returned |
| `WorkerFails` | an answer without `id` raises `KeyError`, the timeout, or the visibility timeout |
| `RouterChanges` | the load balancer |

Abstractions: the balancer answers for every router (a missing target keeps an
older status or raises in the code); the effect of a PATCH is there when its
handler goes on, which is what `check_operation` waits for. When a handler dies while
polling, the operation may still take effect; the model has this as
`OperationDone` followed by `WorkerFails`.

### Properties

* `DetachedIsHandled`: a subnet without a table has a message, waiting or in
  hands, that will attach one. It needs fewer failed operations than `num_tries`:
  with as many, the loop ends as if it had succeeded and the message is deleted.
* `FailoverReached`, `FailbackReached`: from a calm state (nothing under way for
  the subnet, the sides agree) one lasting change of the router is handled,
  whatever crashes on the way.
* `NoTurningBack`: as soon as everything that is under way for a subnet, and
  everything checkers have already decided to send, leads to the side its router's
  state asks for (`Towards`), it stays so while the state lasts, and the subnet gets no
  other table. The stale copies of overlapping checkers do no harm from then on,
  because a message is only sent for the side the balancer has just reported. It says
  nothing of opposite messages that are under way together: that case is
  `RecoveryEndsOnPrimary`.
* `ImplementsRequests`: checkers, queue and switchers implement the abstract
  specification `RouteRequests`, whose state is the table of each subnet, the
  requests under way (`asked <- Asked`: in the queue or in somebody's hands) and those that
  were carried out and may be forgotten (`served <- Served`: some handler is at its last
  step). Its steps are `Ask` (`SendMessage`), `Detach` and `Attach` (the operations),
  `Forget` (`Delete`) and `Repeat` (a handler dies with the message, which comes
  back). It promises that a request is carried out at least once before it is
  forgotten, that tables are attached on request only, and that the last
  request of a subnet leaves it with a table; it says nothing of copies,
  tries and handlers.
* `RecoveryEndsOnPrimary` (violated, see Findings).

### Runs

| Run | Instance | Shows |
| --- | --- | --- |
| `v1_overlap` (`SubnetSwitcher.cfg`) | one subnet, two overlapping checkers, two switchers, `NumTries` 2, one failed operation | types, `DetachedIsHandled`, `NoTurningBack`, the refinement and both liveness properties, with requests repeated while equal ones wait or are handled, and checkers that die before or after a message or before the save |
| `v1_order` (`SubnetSwitcherOrder.cfg`) | one subnet, two switchers, no failures at all | **violated** `RecoveryEndsOnPrimary` |

A checker sends whatever is waiting or in hands already. `MaxCopies` is where the
copies of equal messages that wait stop being counted: a further one that arrives,
or comes back, then changes nothing. It is 1 in `v1_overlap`, where a command can thus
be in the hands of both switchers and wait at the same time; with 2 the run is of
634,480 states and passes as well, but takes more than five minutes. The properties are
stated per subnet, and subnets share the config's side and the switchers only: for one of
them a checker that dies between two messages is one that dies before or after its
own, so one subnet is enough. `NumTries` is 2 instead of the code's
10, the smallest number with a second try (the proof covers every number);
`MaxErrors` is one below it, the largest for which the code promises anything.

`FairSpec`: the timer fires, the trigger delivers, operations end
(`check_operation` polls until then), and from some time on no invocation fails. Note
that weak fairness of `WorkerStep(w)` per slot is enough: a worker that is idle
while a message is visible is continuously able to take one.

## 4. SnapshotBackup

### State and actions

Time is counted in days, from one run of the creation timer (22:00 by default) to
the next; the deletion timer (23:00) fires in between. `snapshots` is a set of
records: disk, age in days, and `late`, whether the label was made after the
deletion timer's time of day (a task retried for more than an hour). With a TTL of
whole days `now > expiration_ts` holds on the day the age reaches the TTL, and a day
after that for a late label: `Expired` is `age = TTL /\ ~late`, and `Aged` does not
count further than the TTL. `spawn` and `clean` are the day's runs of the two timers, `next` the
iterator, `queue`, `hands` and `step` the messages and the handlers, `creating`
the operations under way.

| Action | Code |
| --- | --- |
| `SpawnStart`, `SpawnDisk`, `SpawnEnd`, `SpawnStops` | `SpawnHandler`; `SpawnStops` is a failed `SendMessage` and a failed listing, at which `Next()` is false as at the end |
| `Receive`, `Create`, `Reject`, `Acknowledge`, `Crash` | `SnapshotHandler` and its trigger |
| `SnapshotReady`, `SnapshotFails` | the operation's end, which the code does not wait for |
| `CleanStart`, `DeleteExpired`, `CleanEnd`, `CleanStops` | `DeleteHandler` |
| `RemoveDisk`, `Retention`, `NextDay` | a disk is deleted, the queue drops old messages, the day ends |

Abstractions: the TTL is a whole number of days, the timers fire at the same time
every day; two snapshots of a disk taken on one day on the same side of the deletion
timer's time count as one, expired ones of a disk are alike; `NextDay` waits until both timers have fired and the day's
tasks are through (they take minutes; a task of yesterday would only help); the quota
counts the tool's own operations; disks are removed, not added.

### Properties and runs

* `CoverageKept`: a disk once backed up is never left without a snapshot, as
  long as fewer than TTL - 1 days in a row go wrong. With a TTL of 7 days that is
  five: after them the last copy is six days old when the deletion timer fires, and
  after one more it would go while the day's new one may still be under way.
* `NoTaskLost`: a task of today is in the queue, in a handler, under way or done.
* `TasksEndInSnapshots`: what the quota refused or a crash interrupted is tried
  until there is a snapshot.
* `ExpiredGo`: expired snapshots do not pile up: a deletion that broke off is made up
  for on a later day, as at most `MaxBadDays` in a row go wrong.

| Run | Instance | Shows |
| --- | --- | --- |
| `sb_kept` | a marked and an unmarked disk, two handlers, TTL 4, two bad days in a row, any two faults a day | types, `CoverageKept` |
| `sb_live` | two disks, TTL 1, quota 1, two handlers, all faults but failed operations, `FairSpec` | `NoTaskLost`, `TasksEndInSnapshots`, `ExpiredGo` |
| `sb_error` | as `sb_live`, with failed operations | **violated** `NoTaskLost` |

The number of days is not bounded. `MaxFaults` bounds faults per day and
`MaxBadDays` bad days in a row; with `TTL - 1` of them `CoverageKept` is false by
design (`TTL = 3` in `sb_kept` shows it). Quota 1 with two handlers is the smallest instance in which
handlers compete.

`FairSpec`: the timers fire daily, functions run, operations end; the queue
offers every message again and again until it is deleted (strong fairness of
`Receive`: a message returned by one handler is not continuously visible).

## 5. AsrBatch

### State and actions

The bucket: `input` (files), `status` (the object under the log prefix: an
operation's id and the done flag), `json` and `text` (whose answer is under the output
prefix). `task` is the state of each operation at the service: "chunks" stands for a
response with chunks, "nothing" for an error or an empty response. A run `r` has
its place `pc`, the rest of the listing `todo` and the operation `op` in hand.

| Action | `main.py` |
| --- | --- |
| `ListInput`, `ListStatuses` | the two listings, 146 and 192; `FirstPage` is all an answer holds |
| `SkipKnown`, `ToSubmit` | `head_object`, 168-174; an exception of any kind counts as "not there" |
| `Submit`, `WriteStatus`, `SubmitFails` | `create_recognition_task`, `write_process_status` |
| `SkipDone`, `ReadStatus`, `Poll` | 213-245 |
| `PutJson`, `PutText`, `PutMark` | the three uploads, 247-287 |
| `CheckFails` | the `continue`s of the second pass |
| `Return`, `Crash` | the end of the run; the timeout (60 s) or an exception nobody catches |

Left out: objects that are no audio files (skipped without an effect, but they
take room in a listing), the language, the URL's expiry, an answer without an id
(a hazard in `PROJECT.json`).

### Properties and runs

* `DoneIsStored`: a status object marked done has its answer, and its text if there
  are chunks.
* `SubmissionsBounded`: operations created are at most files times run slots
  plus faults: overlap costs at most one submission per slot and file, a fault one more.
* `EveryFileEnds`: every uploaded file is finally done, for good, with its results.

| Run | Instance | Shows |
| --- | --- | --- |
| `asr_overlap` (`AsrBatch.cfg`) | one file, two overlapping runs, one fault anywhere | the three properties and types |
| `asr_page` (`AsrBatchPage.cfg`) | two files, a listing of one key, no fault | **violated** `EveryFileEnds` |

Files meet only in the listings, so one file is enough for overlap; the proofs of
`DoneIsStored` and `SubmissionsBounded` cover any number. `MaxOps` is larger than what `SubmissionsBounded`
allows (an assumption of `MCAsrBatch`), so that bound never stops a run.
`FairSpec`: the timer fires, runs go on, operations end; faults are finitely many.

## 6. SpeechPage

### State and actions

One press of the button asks for the microphone; its callback overwrites
`this.recorder`, `this.timer` and `this.ws` in one turn of the event loop. The three are
one *session* here and `cur` is the one the page points to. Everything a callback leaves
behind has a life of its own: `recorder`, `ticking` and `socket` of every session, the
refresh timers `reloads`, and on the network `up`, `down` and the `server`'s request.
Audio on its way is named by the session that recorded it. What is only displayed
(`text`, `tempText`, `emotions`, `stream`, `error`) is left out, and so are the messages
that change nothing else: results of `ResponseToBrowser` and `SentimentAnalysis`
(`AsrProcessor.cs`, 287-350), which may come at any time.

The button starts another request for the microphone as long as `isRecording` is false,
which it is until the first one is answered; the callback then overwrites a recording
that goes on. `overlapped` is a history variable that no action reads: true once a
request was answered during a recording, until the page is loaded again.

| Action | `SpeechKitSR.js` (page), `SpeechKitAsrController.cs` (server) |
| --- | --- |
| `Initialize`, `MicrophoneGranted`, `MicrophoneRefused` | `initialize`, `initializeAudio`, `initializeWS` and their callbacks, 46-48, 106-137 |
| `PressStop` | the button during a recording, 271-275 |
| `StopRecording`, `CleanUp`, `RecorderStopped` | `stopRecording` and the callback of `recorder.stop`, 155-173 |
| `Audio` | `sendAudio`, 120-124 |
| `Second`, `TimerTick`, `RefreshSkipped`, `Refresh` | time; `timerTick`, 139-147; the refresh timer, 165-170 |
| `SocketOpens`, `HandshakeFails`, `Message`, `SocketClosed` | the events of a socket, 50-82; `processText` |
| `ReadConfig`, `Receive` | the configuration and the loop of `AudioStreaming`, 51-81 |
| `StreamingFails`, `Closes` | its `catch`es and `finally`, 84-105 |

`StopRecording` is called by the button, the interval and `onclose` alike, and always
acts on `cur`. A `stopRecording` before any recording would raise in the code; no event
can call it then. The recorder package is not part of the repository: it is
taken to answer a `stop` once it is off, to answer several `stop`s together,
and to deliver audio until it is off. The browser's socket is the standard's: events in order,
nothing but the close event after `close()`, sends after it discarded.

Whose speech a result answers is no matter here. `ChunkRecived` of
`SpeechToTextResponseReader.cs:14` is *static*, and every `AsrProcessor` subscribes to it (142):
each session's processor handles the responses of all sessions, sends them
to its own socket and labels them with its own session (265) until it is disposed
of. With several users at a time each sees the others' text. No document speaks of
several users, so this is a hazard in `PROJECT.json` and no property.

### Properties

* `NothingLeftRunning`: a page that shows no recording has no recorder, interval or
  usable socket; during a recording only the current session runs. Until `overlapped`.
* `RecordingHasSocket`: a recording has its interval (which bounds its length), its
  recorder and, until it is being stopped, its socket.
* `AudioAfterHandshake`: `wsConnected` is true only while the server of the *present*
  socket has read its configuration. Until `overlapped`.
* `OwnAudio`: audio goes over the socket of its own session. Until `overlapped`.
* `SilentWhenIdle`: no audio leaves a page that shows no recording, `overlapped` or not:
  recorders that were overwritten run on, and the handshake of a socket that was
  overwritten may set `wsConnected` after the clean-up, but all of them send over
  `this.ws`, which every clean-up has closed.
* `RecordingEnds`, `IdlePageRefreshes`, `ServerSessionsEnd`: a recording, an idle
  page and a request at the server do not last for ever, and the reload of an idle page
  takes with it whatever was overwritten. `overlapped` or not.

Three of them say "until `overlapped`" because they are false of the code
afterwards: the overwritten recording's recorder and interval run on when the page
shows no recording (nothing can stop them but a reload), its recorder's data go to
the new socket, and the "connect" of the overwritten socket makes the page send before the
new one is ready, which raises in `sendAudio` as long as that is connecting (the recorder
loses that data; `Audio` is no step then). No document of the repository promises otherwise.

That a page idle for *ten seconds* is refreshed is not stated: refresh timers
are never cleared, so after a short second recording the timer of the first may
refresh the page earlier. `reloads` is a set because several of them may run.

### Run

| Run | Instance | Shows |
| --- | --- | --- |
| `page` (`SpeechPage.cfg`) | two sessions, a longest recording of one second, refresh after one second, two requests for the microphone at a time, queues of one, `FairSpec` | all of the above |

Two sessions are a recording and an older one that is not over yet; names are
used again, so any number of recordings follow each other. `MaxSeconds` and
`RefreshDelay` of 1 let recording, limit and refresh meet in every order.
`MaxQueue` bounds audio, not the frames of the protocol.

`MaxRequests = 2` lets a second press come before the first request is answered, and the
second answer at any moment of the recording the first one started, or after it. What was
overwritten keeps its name until the page is loaded again, so in the run no third
recording follows an overlap before that; the theorems are about any number of
sessions and requests.

`FairSpec`: timers run and events are delivered, each handshake, request and
closing comes to an end, the recorder answers its `stop`. Nothing is asked of
the user, who may record for ever, session after session.

## 7. StreamClient

### State and actions

Each session has a client (`SpeechKitSttStreamClient` of yc-speechkit-hybrid, the
project the web application references). `call` is `_call` with what the properties
need to know of it: whether it is alive, was given its options, has a reader, its
first chunk and its bytes. `lock` is the mutex; it is created with a name, so all clients of
the machine share it. `written` is what the transports of the
session's calls have taken, over all of them.

| Action | Code |
| --- | --- |
| `Listen` | `Listener_SpeechKitSend` up to the mutex, 115-122: counts, gives up a full call |
| `Acquire`, `WaitTimesOut` | `WaitOne(5000)`, 124, and in `Dispose`, 175 |
| `OpenCall`, `Configure` | `ActiveCall`, 36-73 |
| `Write` | `WriteAudio`, 152-170 |
| `FirstFails`, `SecondFails` | the retry, 132-147 |
| `CallEnds` | the five minutes of a call, the service, the network |
| `Close`, `Dispose` | the end of `AudioStreaming`'s loop; 173-203 |

A failed write leaves open whether the transport took the chunk, and a completed one
(`WriteAsync(...).Wait()`, 163) says no more than that it did. What is on its way when a
call ends, or is given up without being completed (122), may be lost, and the client
never knows: only the chunk in hand is tried again. No property says that the service
*gets* the audio; it is a hazard in `PROJECT.json`. A chunk of no
bytes stands for the page's close frame, which the controller hands over as well.
The older client in yc-speechkit-streaming-asr starts a reader only for the
session's first call (line 75); this is the mutant `ConfigureOnce`, which violates
`AudioIsAnswered`.

### Properties

* `OneWriter`: one session at a time opens calls, writes or disposes.
* `AudioIsAnswered`: a call with audio has its options and a reader of its own.
* `CallBounded`: a call takes less than `MAX_BYTES_SENT` beyond its first chunk. The
  chunk that fills a call is counted for it, written to the next one, and not counted
  there, because `ActiveCall` resets the counter after the count.
* `InOrder`: through retries and new calls the chunks are written in order; a repetition
  follows right upon the original.
* `NothingSkipped`: in a session that goes on, every chunk was taken by the transport
  of a call or dropped because another session held the mutex.
* `MutexIsFreed`: nobody keeps the mutex.
* `ImplementsChannel`: to each session its client is an `AudioChannel`, an
  abstract specification without mutex, calls, limits or the service's faults. A
  chunk that was offered is passed on, at most twice, or skipped as a whole; when
  the next one is offered nothing of it is to come. `phase` is "pending" from `Listen`
  until the chunk was written or dropped and "over" once the session closes, `offered` is
  `chunk`, `passed` is `written`; opening, configuring and ending calls are stuttering steps.

### Run

| Run | Instance | Shows |
| --- | --- | --- |
| `stream` (`StreamClient.cfg`) | two sessions, three chunks of one or two bytes, a limit of two, `FairSpec` | all of the above |

Two sessions compete for the mutex; three chunks are enough to fill a call, open
another and write a chunk after that; sizes meet the limit exactly, stay below it, or pass
it. Names of clients are used again. `FairSpec`: a wait ends within its five seconds,
and so does a write, whose call has a deadline.

`SpeechPage` and `StreamClient` are two views of one session: to the page the
client is the part of the server that may fail (`StreamingFails`); to the client the page is a source of chunks and a close frame.
They share no variable and are not composed.

## 8. What is proved

All theorems are about `Spec`, for every value of the constants that satisfies
the modules' named assumptions; additional assumptions are in the theorems.

* `RouteSwitcher_proofs`
  * `TypeCorrect`.
  * `SegmentSafe`: `HopsStayInSegment`, for any number of overlapping
    invocations and any edits. A next hop can come from the table, from an
    operation, from a list an invocation is about to send, from the config or
    from an invocation's copy: `SegmentInv` says the same of all five. It needs
    `SegmentAssumption`: a backup interface is in the same network.
  * `RouterHopsOnly`: `OnlyRouterHopsMove`, when the operator does not edit
    during a run. `OnTheWayInv` says that lists and operations under way differ
    from the table only in routes through routers; the relation
    `SameButRouters` is transitive, which is what lets overlapping runs overwrite
    each other without harm.
  * `ProtectedImplemented`: `ImplementsProtected`, when the operator does not
    edit during a run. Step simulation under `TypeOK`, `OnTheWayInv` and
    `SegmentInv`: the two invariants together say that the list an operation
    carries is a function a `Finish` step may choose.
  * `PreferredHopStays`: `PreferredHopKept`, for any number of overlapping invocations.
    A save writes the whole object back, so the copy of an invocation that nobody has
    overtaken has to be tied to what is stored: `RemembersInv` says that the copy
    was read from the object as it still is, unless parameters were applied since; that
    it remembers the same hops but for those it forgot; and that it forgot none in a
    table it has still to read, so that what it forgets it does not learn
    anew, in the same run, from the backup in use. Failures, edits
    and applies at any time and failed uploads are included.
  * `SettledUndisturbed`: `SettledStays`, by a step lemma over all actions
    (`SettledStep`); no further invariant is needed, because `Settled` speaks of lists and
    operations under way and of the copies of the config as well.
  * `SettledForGood` and `LeftForGood` prove the half of the two liveness properties
    that says "for good": while all routers are healthy and nobody edits or
    applies parameters, a settled network keeps its remembered hops; and while a
    router is down and nobody edits, a network that has left its address
    does not return to it. `Left` is the inductive form: no table, list or operation
    goes through the address, and whoever is computing next hops has seen it down.
    Old copies of the config, written back by whoever ends last, may bring
    back a remembered hop, but a hop that is down is never chosen
    (`SwitchedAvoids`). That such a state is *reached* is what TLC checks.
* `SubnetSwitcher_proofs`
  * `TypeCorrect`, with `Holding`: a handler at work has a message.
  * `DetachedHandled`, if `MaxErrors < NumTries`. `DetachedIsHandled` is not
    inductive: a switcher in "ack" holds a message that repairs nothing any more.
    `RepairInv` asks for a waiting message or a handler still before the end of
    its attach, and bounds every handler's failed tries by the errors so far, so that no
    handler gives up.
  * `RequestsImplemented`: `ImplementsRequests`, if `MaxErrors < NumTries`. Step
    simulation; the `Forget` of a subnet's last request rests on `RepairInv`.
  * `NeverTurnsBack`: `NoTurningBack`, for any number of checkers with old
    configs and any order of messages, and `ReachedForGood`, the half
    of `FailoverReached` and `FailbackReached` that says "for good": a subnet with the
    side its router's state asks for, and nothing else under way, keeps it while
    the state lasts, but for moments in which a repeated message takes it
    off to attach it again.
* `SnapshotBackup_proofs`
  * `TypeCorrect`, with `BadDayFits`.
  * `TasksKept`: `NoTaskLost`, if operations that were accepted succeed.
    `TasksHeld` follows a task through queue, handler, operation and snapshot,
    and does not count a handler in "ack", whose operation has to stand for it.
  * `Coverage`: `CoverageKept`, if `MaxBadDays + 1 < TTL`, for every TTL and all
    faults. `Young` says that a disk with any copy has one that is at most a day
    older than the run of bad days before today: a day without a fault lists every
    disk (`Listed`), loses no task (`TasksHeld`) and leaves a fresh copy.
* `AsrBatch_proofs`
  * `TypeCorrect`, with `Holding`: a run beyond the submission holds an operation, and
    what the second pass goes through has a status object.
  * `DoneStored`: `DoneIsStored`, for any number of files, overlapping runs
    and faults. `Stage` says what a run has achieved at each step; it survives
    the steps of other runs because operations only advance and objects are only
    replaced (`Grows`).
  * `FilesKeptApart`: no answer or text of one file is stored with another, and no
    status object names another file's operation (`NoMixUp`, stated in the
    proof module and not a property of a run). `OwnInv` says it of
    the runs too: whatever a run holds or a bucket shows of an operation belongs
    to one file, and a free operation is named nowhere.
  * `SubmissionsCharged`: `SubmissionsBounded`, for any finite number of run slots.
    Every operation is charged to a slot and a file, or to a fault: a slot has
    *spent* (`Spent`) its submission of a file while the status object is to be written,
    and once the file has one, unless it is about to submit it all the same. A step is even,
    buys one operation with a pair not spent before, or costs a fault and at most one pair;
    the spent pairs are at most files times slots (`FS_Product`).

* `SpeechPage_proofs`
  * `TypeCorrect`, with a current session whenever something records or ticks.
  * `RecordingKeepsSocket`: `RecordingHasSocket`, for any number of sessions and
    of requests answered late.
  * `NothingRuns`, `HandshakeFirst` and `AudioStaysOwn`, for any number of requests at a
    time, each until one is answered during a recording. They rest on `RunInv`: without
    such an answer what runs is the current session's, and a page that shows no recording
    does not take a server for ready, so that the callback that replaces the
    current session finds nothing to leave behind. `WireInv` adds what may be on the
    way to the page in each state of a socket and its server ("connect" only from a
    server that has read the configuration), and `SendsOnly` that nothing but
    `sendAudio` of the current socket sends audio.
  * `IdleIsSilent`: `SilentWhenIdle`, without any condition on the user. `SilentInv`: the
    socket the page points to is closing or closed when it shows no recording.
* `StreamClient_proofs`
  * `TypeCorrect`.
  * `OneWriterHolds`: `OneWriter`, for any number of sessions.
  * `AudioAnswered` and `CallsBounded`. `CallBounded` is not inductive: the counter
    of the client and the bytes of the call differ by the first chunk and by the
    chunk in hand. `CallInv` states that relation for each place of the code.
  * `AudioInOrder` and `OnlyDroppedIsSkipped` from `GivenInv`: what was written are
    numbers up to the present chunk, sorted, and every number before the present one
    was written or dropped.
  * `ChannelImplemented`: `ImplementsChannel`. Step simulation with `FreshInv`: a
    chunk that waits or is tried for the first time was not written, one that
    is tried for the second time at most once.

Every invariant, action property and refinement of a passing run is a theorem.
Only model-checked: that something is *reached* at last, in the liveness
properties (fairness and ENABLED are beyond the prover). What those of the two
switchers say of the time after that is proved; for `EveryFileEnds` it is not yet. The
runs that end in a violation refute a statement on one small instance. No recursion is used.

## 9. Findings

1. `rs_apply`: an invocation started before `terraform apply` uploads its old
   copy of the whole object and undoes the new parameters; the README says they
   can be changed while the module runs.
2. `v1_order`: without any failure, two switchers that handle opposite messages
   for a subnet at the same time leave it on the secondary table for good.
3. `sb_error`: an operation that ends in an error is answered with 200, the
   message is deleted, the task is lost for the day; the comment promises another try.
4. `asr_page`: only the first page of a listing is looked at, and finished files stay
   in it: beyond 1000 keys, new files are never submitted.

## 10. Not modelled, and plan

Not modelled within the six programs: token handling, logging, YAML and JSON
formats, the boto and ycsdk clients, IAM roles; in the speech application what
`AsrProcessor` stores, the order of its `async void` handlers, its
in-progress flag and the tracker tasks. Other components are listed with their
reasons in `PROJECT.json`.

Left out on purpose: `wwwroot/lib` (vendored jQuery UI and validation, by far the
most of the repository's JavaScript), the service workers of create-react-app (generated),
the presentational components, and generated gRPC code. They are not programs of this library, and
models of them would say nothing about it. The share of JavaScript that is
modelled is small for that reason; the protocols of the library are in Python, Go,
C# and one React component.

Open, in this order:

1. An abstract specification with the routers' states that promises failover
   and failback to both versions of the switcher.
2. `AsrProcessor`: its handlers of a static event, the flag and the wait of `Dispose`.
3. `BatchTasks`: the C# batch client's task file; `TrackerImport`: the
   watermark of the incremental import; the `vision-ocr` variant of `AsrBatch`.
4. Proofs: the "for good" of `EveryFileEnds`; abstract promises of
   `SnapshotBackup` and `AsrBatch` and that they are kept.
