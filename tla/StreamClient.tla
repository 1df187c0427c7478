----------------------------- MODULE StreamClient -----------------------------
(***************************************************************************)
(* The streaming client of the speech web application:                     *)
(* src/yc-ai/yc-speechkit-hybrid/SpeechKitClient/SpeechKitSttStreamClient. *)
(* cs and SpeechToTextResponseReader.cs. Every web socket session has a    *)
(* client of its own, which hands the session's audio, chunk after chunk,  *)
(* to a gRPC call and opens another one when the call has taken its share  *)
(* or is broken. The mutex around it is a named one, "callLock": all       *)
(* clients of the machine wait for each other.                             *)
(***************************************************************************)
EXTENDS Naturals, Sequences, Functions

CONSTANTS
  Client,     \* clients, one per session; a client's name is used again
  NumChunks,  \* bound on the chunks of a session, its last, empty one included
  Sizes,      \* the sizes a chunk may have
  MaxBytes,   \* MAX_BYTES_SENT
  Nil

ASSUME StreamAssumption ==
  /\ NumChunks \in Nat \ {0} /\ MaxBytes \in Nat \ {0}
  /\ Sizes \subseteq Nat \ {0}
  /\ Nil \notin Client

VARIABLES
  lock,      \* who holds the mutex
  pc,        \* "first" and "second" are the two calls of WriteAudio
  call,      \* _call, or Nil
  bytesSent,
  chunk,     \* number of the chunk last given to the client
  size,      \* and its size
  written,   \* what the transports of the session's calls were given, in order
  dropped    \* chunks given up because the mutex was not free in time

vars == <<lock, pc, call, bytesSent, chunk, size, written, dropped>>

NewCall == [alive |-> TRUE, configured |-> FALSE, read |-> FALSE, first |-> 0, bytes |-> 0]

Init ==
  /\ lock = Nil
  /\ pc = [c \in Client |-> "idle"]
  /\ call = [c \in Client |-> Nil]
  /\ bytesSent = [c \in Client |-> 0]
  /\ chunk = [c \in Client |-> 0] /\ size = [c \in Client |-> 0]
  /\ written = [c \in Client |-> <<>>]
  /\ dropped = [c \in Client |-> {}]

-----------------------------------------------------------------------------
(* Listener_SpeechKitSend, up to the mutex.                                 *)

\* The close frame of the page is handed over as a chunk of no bytes; it is the
\* last one.
HungUp(c) == chunk[c] > 0 /\ size[c] = 0

\* Seeded: the limit is tested after it was passed.
ListenLate(c, s) ==
  /\ pc[c] = "idle" /\ ~HungUp(c)
  /\ chunk[c] < IF s = 0 THEN NumChunks ELSE NumChunks - 1
  /\ chunk' = [chunk EXCEPT ![c] = @ + 1]
  /\ size' = [size EXCEPT ![c] = s]
  /\ bytesSent' = [bytesSent EXCEPT ![c] = @ + s]
  /\ call' = [call EXCEPT ![c] = IF bytesSent[c] >= MaxBytes THEN Nil ELSE @]
  /\ pc' = [pc EXCEPT ![c] = "waiting"]
  /\ UNCHANGED <<lock, written, dropped>>

\* The next chunk is counted; a call that would reach the limit is given up,
\* without being completed.
Listen(c, s) ==
  /\ pc[c] = "idle" /\ ~HungUp(c)
  /\ chunk[c] < IF s = 0 THEN NumChunks ELSE NumChunks - 1
  /\ chunk' = [chunk EXCEPT ![c] = @ + 1]
  /\ size' = [size EXCEPT ![c] = s]
  /\ bytesSent' = [bytesSent EXCEPT ![c] = @ + s]
  /\ call' = [call EXCEPT ![c] = IF bytesSent[c] + s >= MaxBytes THEN Nil ELSE @]
  /\ pc' = [pc EXCEPT ![c] = "waiting"]
  /\ UNCHANGED <<lock, written, dropped>>

\* WaitOne returns true, in the listener or in Dispose.
Acquire(c) ==
  /\ pc[c] \in {"waiting", "closing"} /\ lock = Nil
  /\ lock' = c
  /\ pc' = [pc EXCEPT ![c] = IF @ = "waiting" THEN "first" ELSE "disposing"]
  /\ UNCHANGED <<call, bytesSent, chunk, size, written, dropped>>

\* The session is over, its client is forgotten; the name is another's.
Forget(c) ==
  /\ pc' = [pc EXCEPT ![c] = "idle"]
  /\ call' = [call EXCEPT ![c] = Nil]
  /\ bytesSent' = [bytesSent EXCEPT ![c] = 0]
  /\ chunk' = [chunk EXCEPT ![c] = 0] /\ size' = [size EXCEPT ![c] = 0]
  /\ written' = [written EXCEPT ![c] = <<>>]
  /\ dropped' = [dropped EXCEPT ![c] = {}]

\* Seeded: the chunk is written all the same.
WaitTimesOutAnyway(c) ==
  /\ pc[c] = "waiting" /\ lock # Nil
  /\ pc' = [pc EXCEPT ![c] = "first"]
  /\ UNCHANGED <<lock, call, bytesSent, chunk, size, written, dropped>>

\* WaitOne returns false after five seconds: the chunk is dropped.
WaitTimesOut(c) ==
  /\ pc[c] = "waiting" /\ lock # Nil
  /\ pc' = [pc EXCEPT ![c] = "idle"]
  /\ dropped' = [dropped EXCEPT ![c] = @ \cup {chunk[c]}]
  /\ UNCHANGED <<lock, call, bytesSent, chunk, size, written>>

-----------------------------------------------------------------------------
(* WriteAudio and ActiveCall, while the mutex is held.                      *)

Writing(c) == pc[c] \in {"first", "second"}

\* Seeded: the count of the new call starts with the rest of the old one.
OpenCallCarrying(c) ==
  /\ Writing(c) /\ call[c] = Nil
  /\ call' = [call EXCEPT ![c] = NewCall]
  /\ bytesSent' = [bytesSent EXCEPT ![c] = @ - MaxBytes]
  /\ UNCHANGED <<lock, pc, chunk, size, written, dropped>>

\* ActiveCall without a call: a new one, and the count starts again.
OpenCall(c) ==
  /\ Writing(c) /\ call[c] = Nil
  /\ call' = [call EXCEPT ![c] = NewCall]
  /\ bytesSent' = [bytesSent EXCEPT ![c] = 0]
  /\ UNCHANGED <<lock, pc, chunk, size, written, dropped>>

\* Seeded: as in the streaming-asr client, only the session's first call is read.
ConfigureOnce(c) ==
  /\ Writing(c) /\ call[c] # Nil /\ call[c].alive /\ ~call[c].configured
  /\ call' = [call EXCEPT ![c].configured = TRUE, ![c].read = (written[c] = <<>>)]
  /\ UNCHANGED <<lock, pc, bytesSent, chunk, size, written, dropped>>

\* The options are written and the call's reader is started.
Configure(c) ==
  /\ Writing(c) /\ call[c] # Nil /\ call[c].alive /\ ~call[c].configured
  /\ call' = [call EXCEPT ![c].configured = TRUE, ![c].read = TRUE]
  /\ UNCHANGED <<lock, pc, bytesSent, chunk, size, written, dropped>>

\* WriteAsync ends: the transport of the call has taken the chunk, and the mutex is
\* released. The service may never get it: what is on its way when the call ends or
\* is given up uncompleted (Listen, CallEnds) is lost with the call, and nothing
\* here notices.
Write(c) ==
  /\ Writing(c) /\ call[c] # Nil /\ call[c].alive /\ call[c].configured
  /\ written' = [written EXCEPT ![c] = Append(@, chunk[c])]
  /\ call' = [call EXCEPT ![c].bytes = @ + size[c],
                          ![c].first = IF call[c].bytes = 0 THEN size[c] ELSE call[c].first]
  /\ lock' = Nil
  /\ pc' = [pc EXCEPT ![c] = "idle"]
  /\ UNCHANGED <<bytesSent, chunk, size, dropped>>

\* Seeded: the new call is given the session from its start.
FirstFailsOver(c) ==
  /\ pc[c] = "first" /\ call[c] # Nil
  /\ written' = [written EXCEPT ![c] = Append(@, 1)]
  /\ call' = [call EXCEPT ![c] = Nil]
  /\ pc' = [pc EXCEPT ![c] = "second"]
  /\ UNCHANGED <<lock, bytesSent, chunk, size, dropped>>

\* Seeded: tried again until it succeeds.
FirstFailsAgain(c) ==
  /\ pc[c] = "first" /\ call[c] # Nil
  /\ \/ UNCHANGED written
     \/ /\ call[c].alive /\ call[c].configured
        /\ written' = [written EXCEPT ![c] = Append(@, chunk[c])]
  /\ call' = [call EXCEPT ![c] = Nil]
  /\ UNCHANGED <<lock, pc, bytesSent, chunk, size, dropped>>

\* The first failure: the call is given up and the chunk is tried again. The
\* transport may have taken it.
FirstFails(c) ==
  /\ pc[c] = "first" /\ call[c] # Nil
  /\ \/ UNCHANGED written
     \/ /\ call[c].alive /\ call[c].configured
        /\ written' = [written EXCEPT ![c] = Append(@, chunk[c])]
  /\ call' = [call EXCEPT ![c] = Nil]
  /\ pc' = [pc EXCEPT ![c] = "second"]
  /\ UNCHANGED <<lock, bytesSent, chunk, size, dropped>>

\* Seeded: no finally around the second try.
SecondFailsLocked(c) ==
  /\ pc[c] = "second" /\ call[c] # Nil
  /\ call' = [call EXCEPT ![c].alive = FALSE]
  /\ pc' = [pc EXCEPT ![c] = "closing"]
  /\ UNCHANGED <<lock, bytesSent, chunk, size, written, dropped>>

\* Seeded: the second failure is swallowed and the session goes on.
SecondFailsQuietly(c) ==
  /\ pc[c] = "second" /\ call[c] # Nil
  /\ call' = [call EXCEPT ![c].alive = FALSE]
  /\ lock' = Nil
  /\ pc' = [pc EXCEPT ![c] = "idle"]
  /\ UNCHANGED <<bytesSent, chunk, size, written, dropped>>

\* The second one is the caller's: AudioStreaming ends the session.
SecondFails(c) ==
  /\ pc[c] = "second" /\ call[c] # Nil
  /\ \/ UNCHANGED written
     \/ /\ call[c].alive /\ call[c].configured
        /\ written' = [written EXCEPT ![c] = Append(@, chunk[c])]
  /\ call' = [call EXCEPT ![c].alive = FALSE]
  /\ lock' = Nil
  /\ pc' = [pc EXCEPT ![c] = "closing"]
  /\ UNCHANGED <<bytesSent, chunk, size, dropped>>

\* The deadline of a call passes, or the service or the network ends it. What it
\* still had on its way is lost.
CallEnds(c) ==
  /\ call[c] # Nil /\ call[c].alive
  /\ call' = [call EXCEPT ![c].alive = FALSE]
  /\ UNCHANGED <<lock, pc, bytesSent, chunk, size, written, dropped>>

-----------------------------------------------------------------------------
(* The end of a session.                                                    *)

\* The loop of AudioStreaming ends after the close frame.
Close(c) ==
  /\ pc[c] = "idle" /\ HungUp(c)
  /\ pc' = [pc EXCEPT ![c] = "closing"]
  /\ UNCHANGED <<lock, call, bytesSent, chunk, size, written, dropped>>

\* Dispose: with the mutex the call is disposed of, without it the call is left
\* to its deadline.
Dispose(c) ==
  /\ \/ pc[c] = "disposing" /\ lock' = Nil
     \/ pc[c] = "closing" /\ lock # Nil /\ UNCHANGED lock
  /\ Forget(c)

-----------------------------------------------------------------------------

Waits(c) == Acquire(c) \/ WaitTimesOut(c)
Writes(c) == OpenCall(c) \/ Configure(c) \/ Write(c) \/ FirstFails(c) \/ SecondFails(c)

Next ==
  \E c \in Client :
    \/ \E s \in Sizes \cup {0} : Listen(c, s)
    \/ Waits(c) \/ Writes(c) \/ CallEnds(c) \/ Close(c) \/ Dispose(c)

Spec == Init /\ [][Next]_vars

\* A wait ends, within five seconds, and so does a write: a call has a deadline.
FairSpec ==
  Spec /\ \A c \in Client : 
     WF_vars(Waits(c) \/ Dispose(c)) /\ WF_vars(Writes(c))

-----------------------------------------------------------------------------

Call == [alive : BOOLEAN, configured : BOOLEAN, read : BOOLEAN, first : Nat, bytes : Nat]

\* The values every variable ranges over.
TypeOK ==
  /\ lock \in Client \cup {Nil}
  /\ pc \in [Client -> {"idle", "waiting", "first", "second", "closing", "disposing"}]
  /\ call \in [Client -> Call \cup {Nil}]
  /\ bytesSent \in [Client -> Nat]
  /\ chunk \in [Client -> 0..NumChunks] /\ size \in [Client -> Sizes \cup {0}]
  /\ written \in [Client -> Seq(1..NumChunks)]
  /\ dropped \in [Client -> SUBSET (1..NumChunks)]

\* One client at a time, on the whole machine, opens calls, writes or disposes.
\* (callMutex)
OneWriter == \A c \in Client : pc[c] \in {"first", "second", "disposing"} => lock = c

\* Audio is written only to a call that has its options and a reader of its
\* own: no answer to what was sent is left unread, however often calls were
\* replaced. (ActiveCall)
AudioIsAnswered ==
  \A c \in Client : call[c] # Nil =>
    (call[c].bytes > 0 => call[c].configured /\ call[c].read)

\* A call takes less than MAX_BYTES_SENT beyond its first chunk: the first one
\* is written after the count was reset. (bytesSent)
CallBounded ==
  \A c \in Client : call[c] # Nil => call[c].bytes < MaxBytes + call[c].first

\* Across calls the chunks are written in order; a chunk is written a second time
\* only right after itself. (the retry in Listener_SpeechKitSend)
InOrder ==
  \A c \in Client : \A m, n \in DOMAIN written[c] :
    m < n => written[c][m] <= written[c][n]

\* In a session that goes on the client skips no chunk but for the mutex: each was
\* taken by the transport of a call or dropped while another session held the
\* mutex, whatever failed in between. (WriteAudio, the retry)
NothingSkipped ==
  \A c \in Client : \A n \in 1..chunk[c] :
    \/ n \in Range(written[c]) \cup dropped[c]
    \/ n = chunk[c] /\ pc[c] # "idle"

\* How far the session's chunk in hand is.
Phase(c) ==
  CASE pc[c] = "idle" -> "ready"
    [] pc[c] \in {"waiting", "first", "second"} -> "pending"
    [] pc[c] \in {"closing", "disposing"} -> "over"

\* To each session its client is a channel that keeps the order, stammers at
\* most once per chunk and gives up a chunk only as a whole, although sessions
\* wait for each other, calls end at any time, and the transport may or may not
\* have taken what failed. (Listener_SpeechKitSend)
Channel == INSTANCE AudioChannel
  WITH phase <- [c \in Client |-> Phase(c)], offered <- chunk, passed <- written

ImplementsChannel == Channel!Spec

\* Nobody keeps the mutex for ever. (finally)
MutexIsFreed == \A c \in Client : lock = c ~> lock # c
=============================================================================
