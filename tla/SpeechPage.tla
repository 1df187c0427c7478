------------------------------ MODULE SpeechPage ------------------------------
(***************************************************************************)
(* The speech page of the scale 2022 application and the controller it     *)
(* talks to: src/yc-ai/yc-scale-2022,                                      *)
(* ClientApp/src/components/SpeechKitSR.js and                             *)
(* Controllers/SpeechKitAsrController.cs.                                  *)
(*                                                                         *)
(* One press of the button asks for the microphone; its callback creates,  *)
(* in one turn of the event loop, a recorder, an interval and a web socket *)
(* and overwrites this.recorder, this.timer and this.ws with them. The     *)
(* three are one session here, and `cur' is the session the page points    *)
(* to. Sessions are told apart because an older one may still have its     *)
(* socket open, its closing handshake under way or its server at work.     *)
(***************************************************************************)
EXTENDS Naturals, Sequences, FiniteSets

CONSTANTS
  Session,       \* identities of recordings, used again when all of one is over
  MaxSeconds,    \* MAX_SECONDS, the longest recording
  RefreshDelay,  \* seconds from the end of a recording to the refresh
  MaxRequests,   \* requests for the microphone waiting for an answer at once
  MaxQueue,      \* bound on what is on its way to the server over one socket
  Nil

ASSUME PageAssumption ==
  /\ MaxSeconds \in Nat /\ RefreshDelay \in Nat \ {0}
  /\ MaxRequests \in Nat \ {0} /\ MaxQueue \in Nat
  /\ Nil \notin Session
  /\ Session \cap {"config", "close"} = {}

VARIABLES
  \* the page; text, tempText, emotions, stream, error, showRecording and sessionId
  \* are only displayed
  cur,          \* this.recorder, this.timer and this.ws
  requests,     \* initRecorder calls the user has not answered
  isRecording, wsConnected, seconds,
  reloads,      \* seconds that remain of each refresh timer; equal ones act as one
  overlapped,   \* history: since it was loaded, an answer came during a recording
  \* the browser: everything that outlives the handler that created it
  recorder,     \* "on", "stopping" (stop called, last data on its way), "off"
  ticking,      \* setInterval called and not cleared
  due,          \* intervals whose tick of this second is to come
  socket,       \* readyState
  \* the network and the server
  up, down,     \* messages on their way; audio is the session that recorded it
  server        \* what AudioStreaming is doing

page == <<cur, requests, isRecording, wsConnected, seconds, reloads, overlapped>>
browser == <<recorder, ticking, due, socket>>
net == <<up, down, server>>
vars == <<page, browser, net>>

Init ==
  /\ cur = Nil /\ requests = 0 /\ isRecording = FALSE /\ wsConnected = FALSE
  /\ seconds = 0 /\ reloads = {} /\ overlapped = FALSE
  /\ recorder = [k \in Session |-> "off"]
  /\ ticking = [k \in Session |-> FALSE] /\ due = {}
  /\ socket = [k \in Session |-> "closed"]
  /\ up = [k \in Session |-> <<>>] /\ down = [k \in Session |-> <<>>]
  /\ server = [k \in Session |-> "gone"]

-----------------------------------------------------------------------------
(* stopRecording. The clean-up is the callback of recorder.stop and acts on *)
(* what the page points to when it runs. The recorder is not part of the    *)
(* repository; it is taken to answer once it is off: a stop of a recorder   *)
(* that is stopping is answered together with the first one, a stop of one  *)
(* that is off at once.                                                     *)

\* What a page sends over an open socket reaches a server that is still there.
Heard(k, m) == IF server[k] = "gone" THEN up[k] ELSE Append(up[k], m)

\* Seeded: clearInterval is forgotten.
CleanUpTicking(sock, ticks) ==
  /\ socket' = [sock EXCEPT ![cur] = IF @ = "closed" THEN @ ELSE "closing"]
  /\ up' = [up EXCEPT ![cur] = IF sock[cur] = "open" THEN Heard(cur, "close") ELSE @]
  /\ isRecording' = FALSE /\ wsConnected' = FALSE
  /\ reloads' = reloads \cup {RefreshDelay}
  /\ due' = ticks
  /\ UNCHANGED ticking

\* Seeded: wsConnected is not reset.
CleanUpConnected(sock, ticks) ==
  /\ socket' = [sock EXCEPT ![cur] = IF @ = "closed" THEN @ ELSE "closing"]
  /\ up' = [up EXCEPT ![cur] = IF sock[cur] = "open" THEN Heard(cur, "close") ELSE @]
  /\ ticking' = [ticking EXCEPT ![cur] = FALSE]
  /\ due' = ticks \ {cur}
  /\ isRecording' = FALSE
  /\ reloads' = reloads \cup {RefreshDelay}
  /\ UNCHANGED wsConnected

\* Seeded: only a socket that is open is closed.
CleanUpOpen(sock, ticks) ==
  /\ socket' = [sock EXCEPT ![cur] = IF @ = "open" THEN "closing" ELSE @]
  /\ up' = [up EXCEPT ![cur] = IF sock[cur] = "open" THEN Heard(cur, "close") ELSE @]
  /\ ticking' = [ticking EXCEPT ![cur] = FALSE]
  /\ due' = ticks \ {cur}
  /\ isRecording' = FALSE /\ wsConnected' = FALSE
  /\ reloads' = reloads \cup {RefreshDelay}

\* The callback, with the sockets in the states `sock' and the ticks `ticks' to come.
CleanUp(sock, ticks) ==
  /\ socket' = [sock EXCEPT ![cur] = IF @ = "closed" THEN @ ELSE "closing"]
  /\ up' = [up EXCEPT ![cur] = IF sock[cur] = "open" THEN Heard(cur, "close") ELSE @]
  /\ ticking' = [ticking EXCEPT ![cur] = FALSE]
  /\ due' = ticks \ {cur}
  /\ isRecording' = FALSE /\ wsConnected' = FALSE
  /\ reloads' = reloads \cup {RefreshDelay}

\* Seeded: the clean-up does not wait for the recorder.
StopRecordingAtOnce(sock, ticks) ==
  /\ CleanUp(sock, ticks)
  /\ recorder' = [recorder EXCEPT ![cur] = IF @ = "off" THEN @ ELSE "stopping"]

\* One call of stopRecording.
StopRecording(sock, ticks) ==
  \/ /\ recorder[cur] = "off"
     /\ CleanUp(sock, ticks)
     /\ UNCHANGED recorder
  \/ /\ recorder[cur] # "off"
     /\ recorder' = [recorder EXCEPT ![cur] = "stopping"]
     /\ socket' = sock /\ due' = ticks
     /\ UNCHANGED <<up, ticking, isRecording, wsConnected, reloads>>

-----------------------------------------------------------------------------
(* The user and the microphone.                                             *)

\* Seeded: a press of the button clears the refresh timers.
InitializeForGood ==
  /\ ~isRecording /\ requests < MaxRequests
  /\ seconds' = 0
  /\ requests' = requests + 1
  /\ reloads' = {}
  /\ UNCHANGED <<cur, overlapped, isRecording, wsConnected, browser, net>>

\* The button while nothing is recorded: initialize up to the request.
Initialize ==
  /\ ~isRecording /\ requests < MaxRequests
  /\ seconds' = 0
  /\ requests' = requests + 1
  /\ UNCHANGED <<cur, overlapped, isRecording, wsConnected, reloads, browser, net>>

\* The button during a recording.
PressStop ==
  /\ isRecording
  /\ StopRecording(socket, due)
  /\ UNCHANGED <<cur, overlapped, requests, seconds, down, server>>

\* Nothing of session k is left anywhere.
Over(k) ==
  /\ k # cur /\ recorder[k] = "off" /\ ~ticking[k]
  /\ socket[k] = "closed" /\ server[k] = "gone"

\* The user allows the recording: the callback of initRecorder. It does not ask
\* whether a recording is under way, whose recorder, interval and socket the page
\* then loses.
MicrophoneGranted(k) ==
  /\ requests > 0 /\ Over(k)
  /\ requests' = requests - 1
  /\ cur' = k /\ overlapped' = (overlapped \/ isRecording)
  /\ recorder' = [recorder EXCEPT ![k] = "on"]
  /\ ticking' = [ticking EXCEPT ![k] = TRUE]
  /\ socket' = [socket EXCEPT ![k] = "connecting"]
  /\ server' = [server EXCEPT ![k] = "none"]
  /\ isRecording' = TRUE
  /\ UNCHANGED <<wsConnected, seconds, reloads, due, up, down>>

\* The user refuses it, or there is no microphone: the error goes to the console.
MicrophoneRefused ==
  /\ requests > 0
  /\ requests' = requests - 1
  /\ UNCHANGED <<cur, overlapped, isRecording, wsConnected, seconds, reloads, browser, net>>

-----------------------------------------------------------------------------
(* The recorder and the timers.                                             *)

\* Recorder k delivers data: sendAudio. A socket that is connecting would
\* throw, one that is closing or closed discards what it is given.
Audio(k) ==
  /\ recorder[k] # "off"
  /\ wsConnected /\ cur # Nil /\ socket[cur] = "open"
  /\ Len(up[cur]) < MaxQueue
  /\ up' = [up EXCEPT ![cur] = Heard(cur, k)]
  /\ UNCHANGED <<page, browser, down, server>>

\* Recorder k is off: the callbacks of its stop.
RecorderStopped(k) ==
  /\ recorder[k] = "stopping"
  /\ recorder' = [recorder EXCEPT ![k] = "off"]
  /\ CleanUp(socket, due)
  /\ UNCHANGED <<cur, overlapped, requests, seconds, down, server>>

\* A second passes; every timer that is due runs before the next one does.
Second ==
  /\ due = {} /\ 0 \notin reloads
  /\ due' = {k \in Session : ticking[k]}
  /\ reloads' = {n - 1 : n \in reloads}
  /\ UNCHANGED <<cur, overlapped, requests, isRecording, wsConnected, seconds,
                 recorder, ticking, socket, net>>

\* Seeded: the limit is tested after it was passed.
TimerTickLate(k) ==
  /\ k \in due
  /\ \/ /\ seconds > MaxSeconds
        /\ StopRecording(socket, due \ {k})
        /\ UNCHANGED seconds
     \/ /\ seconds <= MaxSeconds
        /\ seconds' = seconds + 1
        /\ due' = due \ {k}
        /\ UNCHANGED <<up, recorder, ticking, socket, isRecording, wsConnected, reloads>>
  /\ UNCHANGED <<cur, overlapped, requests, down, server>>

\* Seeded: at the limit the counter stands still and nothing is stopped.
TimerTickOn(k) ==
  /\ k \in due
  /\ due' = due \ {k}
  /\ seconds' = IF seconds >= MaxSeconds THEN seconds ELSE seconds + 1
  /\ UNCHANGED <<cur, overlapped, requests, isRecording, wsConnected, reloads,
                 recorder, ticking, socket, net>>

\* The interval's callback.
TimerTick(k) ==
  /\ k \in due
  /\ \/ /\ seconds >= MaxSeconds
        /\ StopRecording(socket, due \ {k})
        /\ UNCHANGED seconds
     \/ /\ seconds < MaxSeconds
        /\ seconds' = seconds + 1
        /\ due' = due \ {k}
        /\ UNCHANGED <<up, recorder, ticking, socket, isRecording, wsConnected, reloads>>
  /\ UNCHANGED <<cur, overlapped, requests, down, server>>

\* A refresh timer runs during a recording and does nothing.
RefreshSkipped ==
  /\ 0 \in reloads /\ isRecording
  /\ reloads' = reloads \ {0}
  /\ UNCHANGED <<cur, overlapped, requests, isRecording, wsConnected, seconds, browser, net>>

\* It runs otherwise: window.location.reload, and the browser takes down all
\* that belonged to the page.
Refresh ==
  /\ 0 \in reloads /\ ~isRecording
  /\ cur' = Nil /\ requests' = 0 /\ isRecording' = FALSE /\ wsConnected' = FALSE
  /\ seconds' = 0 /\ reloads' = {} /\ overlapped' = FALSE
  /\ recorder' = [k \in Session |-> "off"]
  /\ ticking' = [k \in Session |-> FALSE] /\ due' = {}
  /\ socket' = [k \in Session |-> "closed"]
  /\ up' = [k \in Session |-> IF socket[k] = "open" THEN Heard(k, "close") ELSE up[k]]
  /\ down' = [k \in Session |-> <<>>]
  /\ server' = [k \in Session |-> IF server[k] = "none" THEN "gone" ELSE server[k]]

-----------------------------------------------------------------------------
(* What the page receives. One socket's events come in order; after close() *)
(* the browser delivers no more messages, only the close event.             *)

\* The handshake is done: onopen sends the configuration.
SocketOpens(k) ==
  /\ socket[k] = "connecting" /\ server[k] = "none"
  /\ socket' = [socket EXCEPT ![k] = "open"]
  /\ up' = [up EXCEPT ![k] = <<"config">>]
  /\ server' = [server EXCEPT ![k] = "accepted"]
  /\ UNCHANGED <<page, recorder, ticking, due, down>>

\* It fails, or close() was called before its end.
HandshakeFails(k) ==
  /\ server[k] = "none"
  /\ server' = [server EXCEPT ![k] = "gone"]
  /\ down' = [down EXCEPT ![k] = <<"close">>]
  /\ UNCHANGED <<page, browser, up>>

\* onmessage. Results, of type "data" and "ml", come at any time and are only
\* displayed: such a message changes nothing here, and its turn is left out. The
\* server has no message of type "error".
Message(k) ==
  /\ down[k] # <<>> /\ Head(down[k]) # "close"
  /\ down' = [down EXCEPT ![k] = Tail(@)]
  /\ wsConnected' = (wsConnected \/ (socket[k] = "open" /\ Head(down[k]) = "connect"))
  /\ UNCHANGED <<cur, overlapped, requests, isRecording, seconds, reloads, browser, up, server>>

\* Seeded: onclose is left out.
SocketClosedQuietly(k) ==
  /\ down[k] # <<>> /\ Head(down[k]) = "close"
  /\ down' = [down EXCEPT ![k] = <<>>]
  /\ socket' = [socket EXCEPT ![k] = "closed"]
  /\ UNCHANGED <<page, recorder, ticking, due, up, server>>

\* onclose: it stops the recording, whichever that is by now.
SocketClosed(k) ==
  /\ down[k] # <<>> /\ Head(down[k]) = "close"
  /\ down' = [down EXCEPT ![k] = <<>>]
  /\ StopRecording([socket EXCEPT ![k] = "closed"], due)
  /\ UNCHANGED <<cur, overlapped, requests, seconds, server>>

-----------------------------------------------------------------------------
(* The server's side of a session, AudioStreaming.                          *)

\* What the server sends reaches a page that is still there.
Sent(k, m) == IF socket[k] = "closed" THEN down[k] ELSE Append(down[k], m)

\* The first message is the configuration; the answer confirms the handshake.
\* Anything else cannot be parsed and ends the request.
ReadConfig(k) ==
  /\ server[k] = "accepted" /\ up[k] # <<>>
  /\ \/ /\ Head(up[k]) = "config"
        /\ up' = [up EXCEPT ![k] = Tail(@)]
        /\ down' = [down EXCEPT ![k] = Sent(k, "connect")]
        /\ server' = [server EXCEPT ![k] = "streaming"]
     \/ /\ Head(up[k]) # "config"
        /\ up' = [up EXCEPT ![k] = <<>>]
        /\ down' = [down EXCEPT ![k] = Sent(k, "close")]
        /\ server' = [server EXCEPT ![k] = "gone"]
  /\ UNCHANGED <<page, browser>>

\* Seeded: the loop does not look at the close status.
ReceiveOn(k) ==
  /\ server[k] = "streaming" /\ up[k] # <<>>
  /\ up' = [up EXCEPT ![k] = Tail(@)]
  /\ UNCHANGED <<page, browser, down, server>>

\* One turn of the loop.
Receive(k) ==
  /\ server[k] = "streaming" /\ up[k] # <<>>
  /\ up' = [up EXCEPT ![k] = Tail(@)]
  /\ server' = [server EXCEPT ![k] = IF Head(up[k]) = "close" THEN "closing" ELSE @]
  /\ UNCHANGED <<page, browser, down>>

\* The connection is lost, or Init failed, or the recognition call twice.
StreamingFails(k) ==
  /\ server[k] \in {"accepted", "streaming"}
  /\ server' = [server EXCEPT ![k] = "closing"]
  /\ up' = [up EXCEPT ![k] = <<>>]
  /\ UNCHANGED <<page, browser, down>>

\* The finally block to its end: CloseAsync, or the socket is disposed of.
Closes(k) ==
  /\ server[k] = "closing"
  /\ server' = [server EXCEPT ![k] = "gone"]
  /\ up' = [up EXCEPT ![k] = <<>>]
  /\ down' = [down EXCEPT ![k] = Sent(k, "close")]
  /\ UNCHANGED <<page, browser>>

-----------------------------------------------------------------------------

PageReceives(k) == Message(k) \/ SocketClosed(k)
Connects(k) == SocketOpens(k) \/ HandshakeFails(k)
Serves(k) == ReadConfig(k) \/ Receive(k) \/ Closes(k)

Next ==
  \/ Initialize \/ PressStop \/ MicrophoneRefused
  \/ Second \/ RefreshSkipped \/ Refresh
  \/ \E k \in Session :
       \/ MicrophoneGranted(k) \/ Audio(k) \/ RecorderStopped(k) \/ TimerTick(k)
       \/ PageReceives(k) \/ Connects(k) \/ Serves(k) \/ StreamingFails(k)

Spec == Init /\ [][Next]_vars

\* Timers run and events are delivered, the network and the server answer, the
\* recorder answers its stop. Nothing is asked of the user.
Fairness ==
  /\ WF_vars(Second) /\ WF_vars(RefreshSkipped \/ Refresh)
  /\ \A k \in Session :
       /\ WF_vars(RecorderStopped(k)) /\ WF_vars(TimerTick(k))
       /\ WF_vars(PageReceives(k)) /\ WF_vars(Connects(k) \/ Serves(k))

FairSpec == Spec /\ Fairness

-----------------------------------------------------------------------------

\* The values every variable ranges over.
TypeOK ==
  /\ cur \in Session \cup {Nil} /\ requests \in 0..MaxRequests
  /\ isRecording \in BOOLEAN /\ wsConnected \in BOOLEAN /\ seconds \in 0..MaxSeconds
  /\ reloads \subseteq 0..RefreshDelay /\ overlapped \in BOOLEAN
  /\ recorder \in [Session -> {"on", "stopping", "off"}]
  /\ ticking \in [Session -> BOOLEAN] /\ due \subseteq Session
  /\ socket \in [Session -> {"connecting", "open", "closing", "closed"}]
  /\ up \in [Session -> Seq({"config", "close"} \cup Session)]
  /\ down \in [Session -> Seq({"connect", "close"})]
  /\ server \in [Session -> {"none", "accepted", "streaming", "closing", "gone"}]

\* Session k holds the microphone, ticks or has a socket to speak over.
Running(k) ==
  \/ recorder[k] # "off" \/ ticking[k] \/ socket[k] \in {"connecting", "open"}

\* A page that shows no recording records nothing: no microphone, interval or
\* usable socket of any session is left, whatever late close event, timer or
\* callback came in between; during one, only the current session runs. It holds
\* until a request is answered during a recording, which loses that recording's
\* recorder, interval and socket; a reload makes it true again.
\* (stopRecording and the callbacks that overwrite what it stops)
NothingLeftRunning ==
  ~overlapped => \A k \in Session : Running(k) => isRecording /\ k = cur

\* While the user speaks, there is a socket to carry it and an interval that
\* ends the recording in time; when the socket goes, the recording is being
\* stopped. (onclose, stopRecording)
RecordingHasSocket ==
  isRecording =>
    /\ cur # Nil /\ ticking[cur]
    /\ recorder[cur] \in {"on", "stopping"}
    /\ recorder[cur] = "on" => socket[cur] \in {"connecting", "open"}

\* When the page takes the server for ready, the server of the socket it now
\* holds has read the configuration: audio is never the first message and is
\* never given to a socket that is connecting. It needs that no answer came
\* during a recording: wsConnected does not say whose handshake it was.
\* (sendAudio, wsConnected)
AudioAfterHandshake ==
  ~overlapped /\ wsConnected =>
    /\ cur # Nil /\ socket[cur] # "connecting"
    /\ server[cur] \notin {"none", "accepted"}

\* A step that sends over the socket of k what the recorder of j recorded.
SendsAudio(k, j) == up'[k] = Append(up[k], j)

\* Audio goes over the socket of the recording it belongs to, as long as no answer
\* came during a recording. (the recorder's callback sends to this.ws, whichever
\* that is)
OwnAudio ==
  [][\A k, j \in Session : SendsAudio(k, j) => overlapped \/ j = k]_vars

\* No audio leaves a page that shows no recording, not even that of a recorder
\* the page has lost and can no longer stop, and whichever handshake comes in
\* late: all of them send over this.ws, which every clean-up has closed.
\* (sendAudio, stopRecording)
SilentWhenIdle ==
  [][\A k, j \in Session : SendsAudio(k, j) => isRecording /\ k = cur]_vars

\* A recording ends: by the user, the server, the network or after MAX_SECONDS.
RecordingEnds == isRecording ~> ~isRecording

\* A page left alone after a recording is refreshed ("Refresh page after 10 sec."),
\* and with it goes whatever an answer during a recording has left behind.
IdlePageRefreshes ==
  (cur # Nil /\ ~isRecording)
    ~> (isRecording \/ (cur = Nil /\ \A k \in Session : ~Running(k)))

\* No request of a web socket stays at the server for ever. (AudioStreaming)
ServerSessionsEnd == \A k \in Session : server[k] # "gone" ~> server[k] = "gone"
=============================================================================
