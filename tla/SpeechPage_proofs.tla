-------------------------- MODULE SpeechPage_proofs --------------------------
(* Theorems about the speech page, for any number of recordings that may   *)
(* be alive at once, any limit and any delay.                              *)
EXTENDS SpeechPage, TLAPS

States == {"connecting", "open", "closing", "closed"}
ToServer == Seq({"config", "close"} \cup Session)
ToPage == Seq({"connect", "close"})

-----------------------------------------------------------------------------
(* Types.                                                                  *)

LEMMA TypeInit == Init => TypeOK
<1> SUFFICES ASSUME Init PROVE TypeOK
  OBVIOUS
<1>1. <<>> \in ToServer /\ <<>> \in ToPage
  BY DEF ToServer, ToPage
<1>2. up \in [Session -> ToServer] /\ down \in [Session -> ToPage]
  BY <1>1 DEF Init
<1>3. /\ cur = Nil /\ requests \in 0..MaxRequests /\ seconds \in 0..MaxSeconds
      /\ reloads \subseteq 0..RefreshDelay
  BY PageAssumption DEF Init
<1>5. isRecording \in BOOLEAN /\ wsConnected \in BOOLEAN /\ overlapped \in BOOLEAN
  BY Zenon DEF Init
<1>4. /\ recorder \in [Session -> {"on", "stopping", "off"}]
      /\ ticking \in [Session -> BOOLEAN] /\ due \subseteq Session
      /\ socket \in [Session -> {"connecting", "open", "closing", "closed"}]
      /\ server \in [Session -> {"none", "accepted", "streaming", "closing", "gone"}]
  BY DEF Init
<1> QED BY <1>2, <1>3, <1>4, <1>5 DEF TypeOK, ToServer, ToPage

LEMMA HeardTyped ==
  ASSUME TypeOK, NEW k \in Session, NEW m \in {"config", "close"} \cup Session
  PROVE  Heard(k, m) \in ToServer
<1>1. up[k] \in ToServer
  BY DEF TypeOK, ToServer
<1>2. Append(up[k], m) \in ToServer
  BY <1>1 DEF ToServer
<1> QED BY <1>1, <1>2 DEF Heard

LEMMA SentTyped ==
  ASSUME TypeOK, NEW k \in Session, NEW m \in {"connect", "close"}
  PROVE  Sent(k, m) \in ToPage
<1>1. down[k] \in ToPage
  BY DEF TypeOK, ToPage
<1>2. Append(down[k], m) \in ToPage
  BY <1>1 DEF ToPage
<1> QED BY <1>1, <1>2 DEF Sent

(* What the clean-up and a call of stopRecording assign.                   *)
LEMMA CleanUpTyped ==
  ASSUME TypeOK, NEW sock \in [Session -> States], NEW ticks \in SUBSET Session,
         CleanUp(sock, ticks)
  PROVE  /\ socket' \in [Session -> States] /\ up' \in [Session -> ToServer]
         /\ ticking' \in [Session -> BOOLEAN] /\ due' \subseteq Session
         /\ isRecording' = FALSE /\ wsConnected' = FALSE
         /\ reloads' \subseteq 0..RefreshDelay
<1>1. up' \in [Session -> ToServer]
  <2>1. up \in [Session -> ToServer]
    BY DEF TypeOK, ToServer
  <2>2. cur \in Session => Heard(cur, "close") \in ToServer
    BY HeardTyped
  <2> QED BY <2>1, <2>2 DEF CleanUp
<1>2. socket' \in [Session -> States] /\ ticking' \in [Session -> BOOLEAN]
  BY DEF TypeOK, CleanUp, States
<1>3. due' \subseteq Session /\ isRecording' = FALSE /\ wsConnected' = FALSE
  BY DEF CleanUp
<1>4. reloads' \subseteq 0..RefreshDelay
  BY PageAssumption DEF TypeOK, CleanUp
<1> QED BY <1>1, <1>2, <1>3, <1>4

LEMMA StopTyped ==
  ASSUME TypeOK, NEW sock \in [Session -> States], NEW ticks \in SUBSET Session,
         StopRecording(sock, ticks)
  PROVE  /\ socket' \in [Session -> States] /\ up' \in [Session -> ToServer]
         /\ ticking' \in [Session -> BOOLEAN] /\ due' \subseteq Session
         /\ isRecording' \in BOOLEAN /\ wsConnected' \in BOOLEAN
         /\ reloads' \subseteq 0..RefreshDelay
         /\ recorder' \in [Session -> {"on", "stopping", "off"}]
<1>1. CASE CleanUp(sock, ticks) /\ UNCHANGED recorder
  BY <1>1, CleanUpTyped DEF TypeOK
<1>2. CASE /\ recorder' = [recorder EXCEPT ![cur] = "stopping"]
           /\ socket' = sock /\ due' = ticks
           /\ UNCHANGED <<up, ticking, isRecording, wsConnected, reloads>>
  BY <1>2 DEF TypeOK, ToServer
<1> QED BY <1>1, <1>2 DEF StopRecording

LEMMA TypeUser ==
  ASSUME TypeOK, Initialize \/ PressStop \/ MicrophoneRefused \/ \E k \in Session : MicrophoneGranted(k)
  PROVE  TypeOK'
<1> USE PageAssumption
<1>1. CASE Initialize
  BY <1>1 DEF TypeOK, Initialize, browser, net
<1>2. CASE PressStop
  BY <1>2, StopTyped DEF TypeOK, PressStop, States, ToServer
<1>3. CASE MicrophoneRefused
  BY <1>3 DEF TypeOK, MicrophoneRefused, browser, net
<1>4. ASSUME NEW k \in Session, MicrophoneGranted(k) PROVE TypeOK'
  BY <1>4 DEF TypeOK, MicrophoneGranted
<1> QED BY <1>1, <1>2, <1>3, <1>4

LEMMA TypeTimers ==
  ASSUME TypeOK, Second \/ RefreshSkipped \/ Refresh \/ \E k \in Session : TimerTick(k)
  PROVE  TypeOK'
<1> USE PageAssumption
<1>1. CASE Second
  <2>1. {n - 1 : n \in reloads} \subseteq 0..RefreshDelay
    <3>1. reloads \subseteq 0..RefreshDelay /\ 0 \notin reloads
      BY <1>1 DEF TypeOK, Second
    <3>2. \A n \in 0..RefreshDelay : n # 0 => n - 1 \in 0..RefreshDelay
      BY DEF PageAssumption
    <3> QED BY <3>1, <3>2
  <2> QED BY <1>1, <2>1 DEF TypeOK, Second, net
<1>2. CASE RefreshSkipped
  BY <1>2 DEF TypeOK, RefreshSkipped, browser, net
<1>3. CASE Refresh
  <2>1. up' \in [Session -> ToServer]
    <3>1. \A k \in Session : Heard(k, "close") \in ToServer /\ up[k] \in ToServer
      BY HeardTyped DEF TypeOK, ToServer
    <3> QED BY <1>3, <3>1 DEF Refresh
  <2>2. <<>> \in ToPage
    BY DEF ToPage
  <2>3. down' \in [Session -> ToPage]
    BY <1>3, <2>2 DEF Refresh
  <2>4. server' \in [Session -> {"none", "accepted", "streaming", "closing", "gone"}]
    BY <1>3 DEF Refresh, TypeOK
  <2>5. /\ cur' = Nil /\ requests' \in 0..MaxRequests /\ seconds' \in 0..MaxSeconds
        /\ reloads' \subseteq 0..RefreshDelay
    BY <1>3 DEF Refresh
  <2>7. isRecording' \in BOOLEAN /\ wsConnected' \in BOOLEAN /\ overlapped' \in BOOLEAN
    BY <1>3, Zenon DEF Refresh
  <2>6. /\ recorder' \in [Session -> {"on", "stopping", "off"}]
        /\ ticking' \in [Session -> BOOLEAN] /\ due' \subseteq Session
        /\ socket' \in [Session -> {"connecting", "open", "closing", "closed"}]
    BY <1>3 DEF Refresh
  <2> QED BY <2>1, <2>3, <2>4, <2>5, <2>6, <2>7 DEF TypeOK, ToServer, ToPage
<1>4. ASSUME NEW k \in Session, TimerTick(k) PROVE TypeOK'
  <2>1. due \ {k} \in SUBSET Session /\ socket \in [Session -> States]
    BY DEF TypeOK, States
  <2>2. CASE StopRecording(socket, due \ {k}) /\ UNCHANGED seconds
    BY <1>4, <2>1, <2>2, StopTyped DEF TypeOK, TimerTick, States, ToServer
  <2>3. CASE /\ seconds < MaxSeconds /\ seconds' = seconds + 1 /\ due' = due \ {k}
             /\ UNCHANGED <<up, recorder, ticking, socket, isRecording, wsConnected, reloads>>
    BY <1>4, <2>3 DEF TypeOK, TimerTick
  <2> QED BY <1>4, <2>2, <2>3 DEF TimerTick
<1> QED BY <1>1, <1>2, <1>3, <1>4

LEMMA TypeSound ==
  ASSUME TypeOK, NEW k \in Session, Audio(k) \/ RecorderStopped(k)
  PROVE  TypeOK'
<1> USE PageAssumption
<1>1. CASE Audio(k)
  <2>1. cur \in Session
    BY <1>1 DEF TypeOK, Audio
  <2>2. Heard(cur, k) \in ToServer
    BY <2>1, HeardTyped
  <2> QED BY <1>1, <2>1, <2>2 DEF TypeOK, Audio, page, browser, ToServer
<1>2. CASE RecorderStopped(k)
  <2>1. due \in SUBSET Session /\ socket \in [Session -> States]
    BY DEF TypeOK, States
  <2> QED BY <1>2, <2>1, CleanUpTyped DEF TypeOK, RecorderStopped, States, ToServer
<1> QED BY <1>1, <1>2

LEMMA TypeReceives ==
  ASSUME TypeOK, NEW k \in Session, PageReceives(k) \/ Connects(k)
  PROVE  TypeOK'
<1>1. CASE Message(k)
  <2>1. Tail(down[k]) \in ToPage
    BY <1>1 DEF TypeOK, Message, ToPage
  <2> QED BY <1>1, <2>1 DEF TypeOK, Message, browser, ToPage
<1>2. CASE SocketClosed(k)
  <2>1. due \in SUBSET Session /\ [socket EXCEPT ![k] = "closed"] \in [Session -> States]
    BY DEF TypeOK, States
  <2>2. <<>> \in ToPage
    BY DEF ToPage
  <2> QED BY <1>2, <2>1, <2>2, StopTyped DEF TypeOK, SocketClosed, States, ToServer, ToPage
<1>3. CASE SocketOpens(k)
  <2>1. <<"config">> \in ToServer
    BY DEF ToServer
  <2> QED BY <1>3, <2>1 DEF TypeOK, SocketOpens, page, ToServer
<1>4. CASE HandshakeFails(k)
  <2>1. <<"close">> \in ToPage
    BY DEF ToPage
  <2> QED BY <1>4, <2>1 DEF TypeOK, HandshakeFails, page, browser, ToPage
<1> QED BY <1>1, <1>2, <1>3, <1>4 DEF PageReceives, Connects

LEMMA TypeServer ==
  ASSUME TypeOK, NEW k \in Session,
         Serves(k) \/ StreamingFails(k)
  PROVE  TypeOK'
<1>1. /\ Sent(k, "connect") \in ToPage /\ Sent(k, "close") \in ToPage
      /\ <<>> \in ToServer
  BY SentTyped DEF ToServer
<1>2. up[k] # <<>> => Tail(up[k]) \in ToServer
  BY DEF TypeOK, ToServer
<1>3. CASE ReadConfig(k)
  <2>1. down' \in [Session -> ToPage] /\ up' \in [Session -> ToServer]
    <3>1. up \in [Session -> ToServer] /\ down \in [Session -> ToPage]
      BY DEF TypeOK, ToServer, ToPage
    <3> QED BY <1>1, <1>2, <1>3, <3>1 DEF ReadConfig
  <2> QED BY <1>3, <2>1 DEF TypeOK, ReadConfig, page, browser, ToPage, ToServer
<1>4. CASE Receive(k)
  BY <1>2, <1>4 DEF TypeOK, Receive, page, browser, ToServer
<1>5. CASE StreamingFails(k)
  BY <1>1, <1>5 DEF TypeOK, StreamingFails, page, browser, ToServer
<1>6. CASE Closes(k)
  BY <1>1, <1>6 DEF TypeOK, Closes, page, browser, ToPage, ToServer
<1> QED BY <1>3, <1>4, <1>5, <1>6 DEF Serves

LEMMA TypeStep == TypeOK /\ [Next]_vars => TypeOK'
<1>1. CASE UNCHANGED vars
  BY <1>1 DEF TypeOK, vars, page, browser, net
<1> QED BY <1>1, TypeUser, TypeTimers, TypeSound, TypeReceives, TypeServer DEF Next

(* The page, the browser and the wire keep their types; the counter of     *)
(* seconds never passes MAX_SECONDS.                                       *)
THEOREM TypeCorrect == Spec => []TypeOK
  BY TypeInit, TypeStep, PTL DEF Spec
-----------------------------------------------------------------------------
(* A recording has its socket, however many requests for the microphone    *)
(* are answered.                                                           *)

LEMMA StopKeepsSocket ==
  ASSUME TypeOK, RecordingHasSocket, NEW sock, NEW ticks,
         StopRecording(sock, ticks), cur' = cur
  PROVE  RecordingHasSocket'
<1>1. CASE recorder[cur] = "off"
  BY <1>1 DEF StopRecording, CleanUp, RecordingHasSocket
<1>2. CASE recorder[cur] # "off"
  <2>1. /\ recorder' = [recorder EXCEPT ![cur] = "stopping"]
        /\ UNCHANGED <<ticking, isRecording>>
    BY <1>2 DEF StopRecording
  <2>2. isRecording => cur \in Session /\ ticking[cur]
    BY DEF TypeOK, RecordingHasSocket
  <2>3. isRecording => recorder'[cur] = "stopping"
    BY <2>1, <2>2 DEF TypeOK
  <2> QED BY <2>1, <2>2, <2>3 DEF RecordingHasSocket
<1> QED BY <1>1, <1>2

LEMMA SocketStep == TypeOK /\ RecordingHasSocket /\ [Next]_vars => RecordingHasSocket'
<1> SUFFICES ASSUME TypeOK, RecordingHasSocket, [Next]_vars PROVE RecordingHasSocket'
  OBVIOUS
<1>1. CASE \/ UNCHANGED vars \/ Initialize \/ MicrophoneRefused \/ Second \/ RefreshSkipped
           \/ \E k \in Session :
                \/ Audio(k) \/ HandshakeFails(k) \/ Message(k)
                \/ Serves(k) \/ StreamingFails(k)
  <2>1. UNCHANGED <<cur, isRecording, ticking, recorder, socket>>
    BY <1>1 DEF vars, page, browser, net, Initialize, MicrophoneRefused, Second, RefreshSkipped,
       Audio, HandshakeFails, Message, Serves, ReadConfig, Receive, StreamingFails, Closes
  <2> QED BY <2>1 DEF RecordingHasSocket
<1>2. CASE PressStop
  BY <1>2, StopKeepsSocket DEF PressStop
<1>3. CASE Refresh
  BY <1>3 DEF Refresh, RecordingHasSocket
<1>4. ASSUME NEW k \in Session, MicrophoneGranted(k) PROVE RecordingHasSocket'
  BY <1>4, PageAssumption DEF MicrophoneGranted, RecordingHasSocket, TypeOK
<1>5. ASSUME NEW k \in Session, RecorderStopped(k) PROVE RecordingHasSocket'
  BY <1>5 DEF RecorderStopped, CleanUp, RecordingHasSocket
<1>6. ASSUME NEW k \in Session, TimerTick(k) PROVE RecordingHasSocket'
  <2>1. CASE StopRecording(socket, due \ {k})
    BY <1>6, <2>1, StopKeepsSocket DEF TimerTick
  <2>2. CASE UNCHANGED <<up, recorder, ticking, socket, isRecording, wsConnected, reloads>>
    BY <1>6, <2>2 DEF TimerTick, RecordingHasSocket
  <2> QED BY <1>6, <2>1, <2>2 DEF TimerTick
<1>7. ASSUME NEW k \in Session, SocketClosed(k) PROVE RecordingHasSocket'
  BY <1>7, StopKeepsSocket DEF SocketClosed
<1>8. ASSUME NEW k \in Session, SocketOpens(k) PROVE RecordingHasSocket'
  BY <1>8 DEF SocketOpens, page, RecordingHasSocket, TypeOK
<1> QED BY <1>1, <1>2, <1>3, <1>4, <1>5, <1>6, <1>7, <1>8 DEF Next, PageReceives, Connects

(* While something is recorded, an interval will end it and a socket       *)
(* carries it or the recording is being stopped: no late close event and   *)
(* no second press of the button leaves a recording without an end.        *)
THEOREM RecordingKeepsSocket == Spec => []RecordingHasSocket
<1>1. Init => RecordingHasSocket
  BY DEF Init, RecordingHasSocket
<1> QED BY <1>1, TypeCorrect, SocketStep, PTL DEF Spec
-----------------------------------------------------------------------------
(* What the page shows is what goes on, as long as no request for the      *)
(* microphone was answered during a recording.                             *)

(* NothingLeftRunning needs that a page which shows no recording does not  *)
(* take a server for ready either.                                         *)
RunInv ==
  /\ NothingLeftRunning
  /\ ~overlapped /\ wsConnected => isRecording

(* The clean-up: the current session's recorder is off by then.            *)
LEMMA CleanUpRuns ==
  ASSUME TypeOK, RunInv, NEW sock \in [Session -> States], NEW ticks, CleanUp(sock, ticks),
         \A k \in Session : sock[k] \in {"connecting", "open"} => sock[k] = socket[k],
         recorder' \in [Session -> {"on", "stopping", "off"}],
         ~overlapped /\ cur \in Session => recorder'[cur] = "off",
         \A k \in Session : recorder'[k] # "off" => recorder[k] # "off",
         UNCHANGED <<cur, overlapped>>
  PROVE  RunInv'
<1>1. ASSUME NEW k \in Session, Running(k)', ~overlapped PROVE FALSE
  <2>1. Running(k)
    BY <1>1 DEF Running, CleanUp, States, TypeOK
  <2>2. k = cur
    BY <1>1, <2>1 DEF RunInv, NothingLeftRunning
  <2>3. ticking'[k] = FALSE /\ recorder'[k] = "off" /\ socket'[k] \in {"closing", "closed"}
    BY <1>1, <2>2 DEF CleanUp, TypeOK
  <2> QED BY <1>1, <2>3 DEF Running
<1> QED BY <1>1 DEF RunInv, NothingLeftRunning, CleanUp

LEMMA StopRuns ==
  ASSUME TypeOK, RunInv, NEW sock \in [Session -> States], NEW ticks, StopRecording(sock, ticks),
         \A k \in Session : sock[k] \in {"connecting", "open"} => sock[k] = socket[k],
         UNCHANGED <<cur, overlapped>>
  PROVE  RunInv'
<1>1. CASE recorder[cur] = "off"
  BY <1>1, CleanUpRuns DEF StopRecording, TypeOK
<1>2. CASE recorder[cur] # "off"
  <2>1. /\ recorder' = [recorder EXCEPT ![cur] = "stopping"] /\ socket' = sock
        /\ UNCHANGED <<ticking, isRecording, wsConnected>>
    BY <1>2 DEF StopRecording
  <2>2. \A k \in Session : Running(k)' => Running(k)
    BY <1>2, <2>1 DEF Running, TypeOK
  <2> QED BY <2>1, <2>2 DEF RunInv, NothingLeftRunning
<1> QED BY <1>1, <1>2

LEMMA RunStep == TypeOK /\ RunInv /\ [Next]_vars => RunInv'
<1> SUFFICES ASSUME TypeOK, RunInv, [Next]_vars PROVE RunInv'
  OBVIOUS
<1>1. socket \in [Session -> States]
  BY DEF TypeOK, States
<1>2. CASE \/ UNCHANGED vars \/ Initialize \/ MicrophoneRefused \/ Second \/ RefreshSkipped
           \/ \E k \in Session :
                Audio(k) \/ HandshakeFails(k) \/ Serves(k) \/ StreamingFails(k)
  <2>1. UNCHANGED <<cur, overlapped, isRecording, wsConnected, ticking, recorder, socket>>
    BY <1>2 DEF vars, page, browser, net, Initialize, MicrophoneRefused, Second, RefreshSkipped,
       Audio, HandshakeFails, Serves, ReadConfig, Receive, StreamingFails, Closes
  <2> QED BY <2>1 DEF RunInv, NothingLeftRunning, Running
<1>3. CASE PressStop
  BY <1>1, <1>3, StopRuns DEF PressStop
<1>4. CASE Refresh
  BY <1>4 DEF Refresh, RunInv, NothingLeftRunning, Running
<1>5. ASSUME NEW k \in Session, MicrophoneGranted(k) PROVE RunInv'
  <2>1. CASE overlapped \/ isRecording
    BY <1>5, <2>1 DEF MicrophoneGranted, RunInv, NothingLeftRunning
  <2>2. CASE ~overlapped /\ ~isRecording
    <3>1. ~wsConnected /\ \A j \in Session : ~Running(j)
      BY <2>2 DEF RunInv, NothingLeftRunning
    <3>2. \A j \in Session : j # k => ~Running(j)'
      BY <1>5, <3>1 DEF MicrophoneGranted, Running, TypeOK
    <3> QED BY <1>5, <3>1, <3>2 DEF MicrophoneGranted, RunInv, NothingLeftRunning
  <2> QED BY <2>1, <2>2
<1>6. ASSUME NEW k \in Session, RecorderStopped(k) PROVE RunInv'
  <2>1. ~overlapped => k = cur
    BY <1>6 DEF RecorderStopped, RunInv, NothingLeftRunning, Running
  <2> QED BY <1>1, <1>6, <2>1, CleanUpRuns DEF RecorderStopped, TypeOK
<1>7. ASSUME NEW k \in Session, TimerTick(k) PROVE RunInv'
  <2>1. CASE StopRecording(socket, due \ {k})
    BY <1>1, <1>7, <2>1, StopRuns DEF TimerTick
  <2>2. CASE UNCHANGED <<up, recorder, ticking, socket, isRecording, wsConnected, reloads>>
    BY <1>7, <2>2 DEF TimerTick, RunInv, NothingLeftRunning, Running
  <2> QED BY <1>7, <2>1, <2>2 DEF TimerTick
<1>8. ASSUME NEW k \in Session, SocketClosed(k) PROVE RunInv'
  <2>1. [socket EXCEPT ![k] = "closed"] \in [Session -> States]
    BY <1>1 DEF States
  <2>2. \A j \in Session : [socket EXCEPT ![k] = "closed"][j] \in {"connecting", "open"}
          => [socket EXCEPT ![k] = "closed"][j] = socket[j]
    BY <1>1
  <2> QED BY <1>8, <2>1, <2>2, StopRuns DEF SocketClosed
<1>9. ASSUME NEW k \in Session, SocketOpens(k) PROVE RunInv'
  <2>1. \A j \in Session : Running(j)' => Running(j)
    BY <1>9 DEF SocketOpens, Running, TypeOK
  <2> QED BY <1>9, <2>1 DEF SocketOpens, page, RunInv, NothingLeftRunning
<1>10. ASSUME NEW k \in Session, Message(k) PROVE RunInv'
  <2>1. ~overlapped /\ socket[k] = "open" => isRecording
    BY DEF RunInv, NothingLeftRunning, Running
  <2> QED BY <1>10, <2>1 DEF Message, browser, RunInv, NothingLeftRunning, Running
<1> QED BY <1>2, <1>3, <1>4, <1>5, <1>6, <1>7, <1>8, <1>9, <1>10
        DEF Next, PageReceives, Connects

LEMMA Runs == Spec => []RunInv
<1>1. Init => RunInv
  BY DEF Init, RunInv, NothingLeftRunning, Running
<1> QED BY <1>1, RunStep, TypeCorrect, PTL DEF Spec

(* A page that shows no recording holds no microphone, interval or socket, *)
(* and during one only the current session does, from every load of the    *)
(* page until a request for the microphone is answered during a recording. *)
THEOREM NothingRuns == Spec => []NothingLeftRunning
<1>1. RunInv => NothingLeftRunning
  BY DEF RunInv
<1> QED BY <1>1, Runs, PTL
-----------------------------------------------------------------------------
(* The wire.                                                               *)

Carries(q, m) == \E n \in DOMAIN q : q[n] = m

LEMMA CarriesAppend ==
  ASSUME NEW S, NEW q \in Seq(S), NEW e, NEW m, Carries(Append(q, e), m)
  PROVE  Carries(q, m) \/ m = e
  BY DEF Carries

LEMMA CarriesTail ==
  ASSUME NEW S, NEW q \in Seq(S), q # <<>>, NEW m, Carries(Tail(q), m)
  PROVE  Carries(q, m)
  BY DEF Carries

LEMMA CarriesFew ==
  ASSUME NEW m
  PROVE  ~Carries(<<>>, m) /\ \A e : Carries(<<e>>, m) => m = e
  BY DEF Carries

LEMMA CarriesHead ==
  ASSUME NEW S, NEW q \in Seq(S), q # <<>>
  PROVE  Carries(q, Head(q))
  BY DEF Carries

(* A socket that is closed has nothing on its way to the page and its      *)
(* handshake is over; "connect" is sent after the configuration was read.  *)
WireInv ==
  \A k \in Session :
    /\ socket[k] = "closed" => down[k] = <<>> /\ server[k] # "none"
    /\ server[k] = "none" => down[k] = <<>>
    /\ Carries(down[k], "connect") => server[k] \notin {"none", "accepted"}

LEMMA WireInit == Init => WireInv
  BY CarriesFew DEF Init, WireInv

(* A clean-up closes no socket for good.                                   *)
LEMMA StopCloses ==
  ASSUME TypeOK, NEW sock \in [Session -> States], NEW ticks,
         CleanUp(sock, ticks) \/ StopRecording(sock, ticks),
         NEW k \in Session, socket'[k] = "closed"
  PROVE  sock[k] = "closed"
  BY DEF CleanUp, StopRecording

LEMMA WireServer ==
  ASSUME TypeOK, WireInv, NEW k \in Session,
         Serves(k) \/ StreamingFails(k)
  PROVE  WireInv'
<1>1. down[k] \in Seq({"connect", "close"}) /\ server[k] \in {"none", "accepted", "streaming", "closing", "gone"}
  BY DEF TypeOK
<1>2. \A m : Carries(Sent(k, m), "connect") => Carries(down[k], "connect") \/ m = "connect"
  BY <1>1, CarriesAppend DEF Sent
<1>3. CASE ReadConfig(k)
  BY <1>2, <1>3 DEF TypeOK, ReadConfig, page, browser, WireInv, Sent
<1>4. CASE Receive(k)
  BY <1>4 DEF TypeOK, Receive, page, browser, WireInv
<1>5. CASE StreamingFails(k)
  BY <1>5 DEF TypeOK, StreamingFails, page, browser, WireInv
<1>6. CASE Closes(k)
  BY <1>2, <1>6 DEF TypeOK, Closes, page, browser, WireInv, Sent
<1> QED BY <1>3, <1>4, <1>5, <1>6 DEF Serves

LEMMA WireStep == TypeOK /\ WireInv /\ [Next]_vars => WireInv'
<1> SUFFICES ASSUME TypeOK, WireInv, [Next]_vars PROVE WireInv'
  OBVIOUS
<1>1. socket \in [Session -> States] /\ \A k \in Session : down[k] \in Seq({"connect", "close"})
  BY DEF TypeOK, States
<1>2. CASE \/ UNCHANGED vars \/ Initialize \/ MicrophoneRefused \/ Second \/ RefreshSkipped
           \/ \E k \in Session : Audio(k)
  BY <1>2 DEF vars, page, browser, net, Initialize, MicrophoneRefused, Second, RefreshSkipped,
     Audio, WireInv
<1>3. ASSUME CleanUp(socket, due) \/ \E ticks : StopRecording(socket, ticks),
             UNCHANGED <<down, server>>
      PROVE  WireInv'
  BY <1>1, <1>3, StopCloses DEF WireInv
<1>4. CASE PressStop \/ \E k \in Session : RecorderStopped(k)
  BY <1>3, <1>4 DEF PressStop, RecorderStopped
<1>5. ASSUME NEW k \in Session, TimerTick(k) PROVE WireInv'
  <2>1. CASE StopRecording(socket, due \ {k})
    BY <1>3, <1>5, <2>1 DEF TimerTick
  <2>2. CASE UNCHANGED <<up, recorder, ticking, socket, isRecording, wsConnected, reloads>>
    BY <1>5, <2>2 DEF TimerTick, WireInv
  <2> QED BY <1>5, <2>1, <2>2 DEF TimerTick
<1>6. CASE Refresh
  BY <1>6, CarriesFew DEF Refresh, WireInv
<1>7. ASSUME NEW k \in Session, MicrophoneGranted(k) PROVE WireInv'
  BY <1>7, CarriesFew DEF MicrophoneGranted, Over, WireInv, TypeOK
<1>8. ASSUME NEW k \in Session, SocketOpens(k) PROVE WireInv'
  BY <1>8, CarriesFew DEF SocketOpens, page, WireInv, TypeOK
<1>9. ASSUME NEW k \in Session, HandshakeFails(k) PROVE WireInv'
  BY <1>9, CarriesFew DEF HandshakeFails, page, browser, WireInv, TypeOK
<1>10. ASSUME NEW k \in Session, Message(k) PROVE WireInv'
  BY <1>1, <1>10, CarriesTail DEF Message, browser, WireInv, TypeOK
<1>11. ASSUME NEW k \in Session, SocketClosed(k) PROVE WireInv'
  <2>1. [socket EXCEPT ![k] = "closed"] \in [Session -> States]
    BY <1>1 DEF States
  <2>2. server[k] # "none" /\ server' = server /\ down' = [down EXCEPT ![k] = <<>>]
    BY <1>11 DEF SocketClosed, WireInv
  <2>3. \A j \in Session : j # k /\ socket'[j] = "closed" => socket[j] = "closed"
    BY <1>1, <1>11, <2>1, StopCloses DEF SocketClosed
  <2> QED BY <2>2, <2>3, CarriesFew DEF WireInv, TypeOK
<1> QED BY <1>2, <1>4, <1>5, <1>6, <1>7, <1>8, <1>9, <1>10, <1>11, WireServer
        DEF Next, PageReceives, Connects

LEMMA Wire == Spec => []WireInv
  BY WireInit, TypeCorrect, WireStep, PTL DEF Spec

LEMMA HandshakeStep ==
  /\ TypeOK /\ RunInv /\ WireInv /\ AudioAfterHandshake /\ [Next]_vars
  => AudioAfterHandshake'
<1> SUFFICES ASSUME TypeOK, RunInv, WireInv, AudioAfterHandshake, [Next]_vars
             PROVE  AudioAfterHandshake'
  OBVIOUS
<1>1. socket \in [Session -> States]
  BY DEF TypeOK, States
<1>2. CASE \/ UNCHANGED vars \/ Initialize \/ MicrophoneRefused \/ Second \/ RefreshSkipped
           \/ \E k \in Session : Audio(k)
  <2>1. UNCHANGED <<cur, overlapped, wsConnected, socket, server>>
    BY <1>2 DEF vars, page, browser, net, Initialize, MicrophoneRefused, Second, RefreshSkipped, Audio
  <2> QED BY <2>1 DEF AudioAfterHandshake
<1>3. ASSUME NEW sock \in [Session -> States], NEW ticks, StopRecording(sock, ticks),
             \A k \in Session : sock[k] = "connecting" => socket[k] = "connecting",
             UNCHANGED <<cur, overlapped, server>>
      PROVE  AudioAfterHandshake'
  BY <1>3 DEF StopRecording, CleanUp, AudioAfterHandshake, TypeOK
<1>4. CASE PressStop
  BY <1>1, <1>3, <1>4 DEF PressStop
<1>5. ASSUME NEW k \in Session, TimerTick(k) PROVE AudioAfterHandshake'
  <2>1. CASE StopRecording(socket, due \ {k})
    BY <1>1, <1>3, <1>5, <2>1 DEF TimerTick
  <2>2. CASE UNCHANGED <<up, recorder, ticking, socket, isRecording, wsConnected, reloads>>
    BY <1>5, <2>2 DEF TimerTick, AudioAfterHandshake
  <2> QED BY <1>5, <2>1, <2>2 DEF TimerTick
<1>6. CASE Refresh \/ \E k \in Session : RecorderStopped(k)
  BY <1>6 DEF Refresh, RecorderStopped, CleanUp, AudioAfterHandshake
<1>7. ASSUME NEW k \in Session, MicrophoneGranted(k) PROVE AudioAfterHandshake'
  <2>1. overlapped' \/ ~wsConnected
    BY <1>7 DEF MicrophoneGranted, RunInv
  <2> QED BY <1>7, <2>1 DEF MicrophoneGranted, AudioAfterHandshake
<1>8. ASSUME NEW k \in Session, SocketOpens(k) PROVE AudioAfterHandshake'
  BY <1>8 DEF SocketOpens, page, AudioAfterHandshake, TypeOK
<1>9. ASSUME NEW k \in Session, HandshakeFails(k) PROVE AudioAfterHandshake'
  BY <1>9 DEF HandshakeFails, page, browser, AudioAfterHandshake, TypeOK
<1>10. ASSUME NEW k \in Session, Message(k) PROVE AudioAfterHandshake'
  <2>1. CASE ~overlapped /\ socket[k] = "open" /\ Head(down[k]) = "connect"
    <3>1. k = cur
      BY <2>1 DEF RunInv, NothingLeftRunning, Running
    <3>2. Carries(down[k], "connect")
      BY <1>10, <2>1, CarriesHead DEF Message, TypeOK
    <3>3. server[k] \notin {"none", "accepted"}
      BY <3>2 DEF WireInv
    <3> QED BY <1>10, <2>1, <3>1, <3>3, PageAssumption
          DEF Message, browser, AudioAfterHandshake
  <2>2. CASE overlapped \/ ~(socket[k] = "open" /\ Head(down[k]) = "connect")
    BY <1>10, <2>2 DEF Message, browser, AudioAfterHandshake
  <2> QED BY <2>1, <2>2
<1>11. ASSUME NEW k \in Session, SocketClosed(k) PROVE AudioAfterHandshake'
  <2>1. /\ [socket EXCEPT ![k] = "closed"] \in [Session -> States]
        /\ \A j \in Session : [socket EXCEPT ![k] = "closed"][j] = "connecting"
                                => socket[j] = "connecting"
    BY <1>1 DEF States
  <2> QED BY <1>3, <1>11, <2>1 DEF SocketClosed
<1>12. ASSUME NEW k \in Session, Serves(k) \/ StreamingFails(k)
       PROVE  AudioAfterHandshake'
  <2>1. UNCHANGED <<cur, overlapped, wsConnected, socket>>
    BY <1>12 DEF Serves, ReadConfig, Receive, StreamingFails, Closes, page, browser
  <2>2. \A j \in Session : server'[j] \in {"none", "accepted"} => server'[j] = server[j]
    BY <1>12 DEF Serves, ReadConfig, Receive, StreamingFails, Closes, TypeOK
  <2>3. cur # Nil => cur \in Session
    BY DEF TypeOK
  <2> QED BY <2>1, <2>2, <2>3 DEF AudioAfterHandshake
<1> QED BY <1>2, <1>4, <1>5, <1>6, <1>7, <1>8, <1>9, <1>10, <1>11, <1>12
        DEF Next, PageReceives, Connects

(* Until a request is answered during a recording: when the page sends     *)
(* audio, the server behind its present socket has read the configuration. *)
THEOREM HandshakeFirst == Spec => []AudioAfterHandshake
<1>1. Init => AudioAfterHandshake
  BY DEF Init, AudioAfterHandshake
<1> QED BY <1>1, HandshakeStep, TypeCorrect, Runs, Wire, PTL DEF Spec

-----------------------------------------------------------------------------
(* The audio.                                                              *)

(* Nothing but one more element makes a queue with one more element.       *)
LEMMA NotAppended ==
  ASSUME NEW S, NEW q \in Seq(S), NEW j \in S, j \notin {"config", "close"}
  PROVE  /\ q # Append(q, j) /\ Append(q, "close") # Append(q, j)
         /\ <<>> # Append(q, j) /\ <<"config">> # Append(q, j)
         /\ q # <<>> => Tail(q) # Append(q, j)
<1>1. Len(Append(q, j)) = Len(q) + 1 /\ Append(q, j)[Len(q) + 1] = j /\ Len(q) \in Nat
  OBVIOUS
<1>2. Append(q, "close")[Len(q) + 1] = "close"
  OBVIOUS
<1>3. q # <<>> => Len(Tail(q)) = Len(q) - 1
  OBVIOUS
<1>4. Len(<<>>) = 0 /\ Len(<<"config">>) = 1 /\ <<"config">>[1] = "config"
  OBVIOUS
<1>5. <<"config">> # Append(q, j)
  <2>1. CASE Len(q) = 0
    BY <1>1, <1>4, <2>1
  <2>2. CASE Len(q) # 0
    BY <1>1, <1>4, <2>2
  <2> QED BY <2>1, <2>2
<1> QED BY <1>1, <1>2, <1>3, <1>4, <1>5

(* Whatever else a clean-up or a call of stopRecording does, it sends a    *)
(* close frame or nothing.                                                 *)
LEMMA StopSends ==
  ASSUME TypeOK, NEW sock, NEW ticks,
         CleanUp(sock, ticks) \/ StopRecording(sock, ticks), NEW k \in Session
  PROVE  up'[k] = up[k] \/ up'[k] = Append(up[k], "close")
  BY DEF CleanUp, StopRecording, Heard, TypeOK

(* Audio leaves in sendAudio only, over the socket the page points to.     *)
LEMMA SendsOnly ==
  ASSUME TypeOK, [Next]_vars, NEW k \in Session, NEW j \in Session, SendsAudio(k, j)
  PROVE  Audio(j) /\ k = cur
<1>1. up \in [Session -> ToServer] /\ j \notin {"config", "close"} /\ up[k] \in ToServer
  BY PageAssumption DEF TypeOK, ToServer
<1>2. /\ up'[k] # up[k] /\ up'[k] # Append(up[k], "close")
      /\ up'[k] # <<>> /\ up'[k] # <<"config">>
      /\ up[k] # <<>> => up'[k] # Tail(up[k])
  <2>1. up[k] \in Seq({"config", "close"} \cup Session) /\ j \in {"config", "close"} \cup Session
    BY <1>1 DEF ToServer
  <2> QED BY <1>1, <2>1, NotAppended DEF SendsAudio
<1>3. ASSUME \/ UNCHANGED vars \/ Initialize \/ MicrophoneRefused \/ Second \/ RefreshSkipped
             \/ \E i \in Session : MicrophoneGranted(i) \/ HandshakeFails(i) \/ Message(i)
      PROVE  FALSE
  BY <1>2, <1>3 DEF vars, page, browser, net, Initialize, MicrophoneRefused, Second,
     RefreshSkipped, MicrophoneGranted, HandshakeFails, Message
<1>4. ASSUME PressStop \/ \E i \in Session : RecorderStopped(i) \/ SocketClosed(i) PROVE FALSE
  BY <1>2, <1>4, StopSends DEF PressStop, RecorderStopped, SocketClosed
<1>5. ASSUME NEW i \in Session, TimerTick(i) PROVE FALSE
  BY <1>2, <1>5, StopSends DEF TimerTick
<1>6. ASSUME Refresh PROVE FALSE
  BY <1>2, <1>6 DEF Refresh, Heard
<1>7. ASSUME NEW i \in Session, SocketOpens(i) \/ Serves(i) \/ StreamingFails(i) PROVE FALSE
  BY <1>1, <1>2, <1>7 DEF SocketOpens, Serves, ReadConfig, Receive, Closes, StreamingFails
<1>8. ASSUME NEW i \in Session, Audio(i) PROVE i = j /\ k = cur
  <2>1. cur \in Session
    BY <1>8 DEF TypeOK, Audio
  <2>2. k = cur /\ up'[k] = Append(up[k], i)
    BY <1>1, <1>2, <1>8, <2>1 DEF Audio, Heard
  <2>3. Append(up[k], i)[Len(up[k]) + 1] = i /\ Append(up[k], j)[Len(up[k]) + 1] = j
    BY <1>1 DEF ToServer
  <2> QED BY <2>2, <2>3 DEF SendsAudio
<1> QED BY <1>3, <1>4, <1>5, <1>6, <1>7, <1>8 DEF Next, PageReceives, Connects

(* Until a request is answered during a recording, audio goes over the     *)
(* socket of the recording it belongs to.                                  *)
THEOREM AudioStaysOwn == Spec => OwnAudio
<1>1. ASSUME TypeOK, RunInv, [Next]_vars, NEW k \in Session, NEW j \in Session,
             SendsAudio(k, j)
      PROVE  overlapped \/ j = k
  <2>1. Audio(j) /\ k = cur
    BY <1>1, SendsOnly
  <2>2. Running(j)
    BY <2>1 DEF Audio, Running
  <2> QED BY <1>1, <2>1, <2>2 DEF RunInv, NothingLeftRunning
<1>2. TypeOK /\ RunInv /\ [Next]_vars
        => [\A k, j \in Session : SendsAudio(k, j) => overlapped \/ j = k]_vars
  BY <1>1
<1> QED BY <1>2, TypeCorrect, Runs, PTL DEF Spec, OwnAudio

(* However many requests were answered during recordings: the socket the   *)
(* page points to is closed when it shows no recording.                    *)
SilentInv == ~isRecording /\ cur # Nil => socket[cur] \in {"closing", "closed"}

LEMMA StopSilences ==
  ASSUME TypeOK, SilentInv, NEW sock \in [Session -> States], NEW ticks,
         CleanUp(sock, ticks) \/ StopRecording(sock, ticks),
         \A k \in Session : sock[k] = socket[k] \/ sock[k] = "closed", cur' = cur
  PROVE  SilentInv'
<1>1. cur # Nil => cur \in Session
  BY DEF TypeOK
<1>2. CASE CleanUp(sock, ticks)
  BY <1>1, <1>2 DEF CleanUp, SilentInv, States
<1>3. CASE socket' = sock /\ isRecording' = isRecording
  BY <1>1, <1>3 DEF SilentInv
<1> QED BY <1>2, <1>3 DEF StopRecording

LEMMA SilentStep == TypeOK /\ SilentInv /\ [Next]_vars => SilentInv'
<1> SUFFICES ASSUME TypeOK, SilentInv, [Next]_vars PROVE SilentInv'
  OBVIOUS
<1>1. socket \in [Session -> States]
  BY DEF TypeOK, States
<1>2. CASE \/ UNCHANGED vars \/ Initialize \/ MicrophoneRefused \/ Second \/ RefreshSkipped
           \/ \E k \in Session :
                \/ Audio(k) \/ HandshakeFails(k) \/ Message(k)
                \/ Serves(k) \/ StreamingFails(k)
  <2>1. UNCHANGED <<cur, isRecording, socket>>
    BY <1>2 DEF vars, page, browser, net, Initialize, MicrophoneRefused, Second, RefreshSkipped,
       Audio, HandshakeFails, Message, Serves, ReadConfig, Receive, StreamingFails, Closes
  <2> QED BY <2>1 DEF SilentInv
<1>3. CASE PressStop \/ \E k \in Session : RecorderStopped(k)
  BY <1>1, <1>3, StopSilences DEF PressStop, RecorderStopped
<1>4. ASSUME NEW k \in Session, TimerTick(k) PROVE SilentInv'
  <2>1. CASE StopRecording(socket, due \ {k})
    BY <1>1, <1>4, <2>1, StopSilences DEF TimerTick
  <2>2. CASE UNCHANGED <<up, recorder, ticking, socket, isRecording, wsConnected, reloads>>
    BY <1>4, <2>2 DEF TimerTick, SilentInv
  <2> QED BY <1>4, <2>1, <2>2 DEF TimerTick
<1>5. ASSUME NEW k \in Session, SocketClosed(k) PROVE SilentInv'
  <2>1. /\ [socket EXCEPT ![k] = "closed"] \in [Session -> States]
        /\ \A j \in Session : LET s == [socket EXCEPT ![k] = "closed"]
                              IN  s[j] = socket[j] \/ s[j] = "closed"
    BY <1>1 DEF States
  <2> QED BY <1>5, <2>1, StopSilences DEF SocketClosed
<1>6. CASE Refresh \/ \E k \in Session : MicrophoneGranted(k)
  BY <1>6 DEF Refresh, MicrophoneGranted, SilentInv
<1>7. ASSUME NEW k \in Session, SocketOpens(k) PROVE SilentInv'
  BY <1>1, <1>7 DEF SocketOpens, page, SilentInv, TypeOK
<1> QED BY <1>2, <1>3, <1>4, <1>5, <1>6, <1>7 DEF Next, PageReceives, Connects

(* No audio leaves a page that shows no recording, whatever recorders and  *)
(* late handshakes the answers to further requests have left behind.       *)
THEOREM IdleIsSilent == Spec => SilentWhenIdle
<1>1. Init => SilentInv
  BY DEF Init, SilentInv
<1>2. ASSUME TypeOK, SilentInv, [Next]_vars, NEW k \in Session, NEW j \in Session,
             SendsAudio(k, j)
      PROVE  isRecording /\ k = cur
  BY <1>2, SendsOnly DEF Audio, SilentInv
<1>3. TypeOK /\ SilentInv /\ [Next]_vars
        => [\A k, j \in Session : SendsAudio(k, j) => isRecording /\ k = cur]_vars
  BY <1>2
<1> QED BY <1>1, <1>3, SilentStep, TypeCorrect, PTL DEF Spec, SilentWhenIdle
=============================================================================
