------------------------- MODULE StreamClient_proofs -------------------------
(* Theorems about the streaming client, for any number of sessions, chunks *)
(* and chunk sizes, and any limit of a call.                               *)
EXTENDS StreamClient, TLAPS

(* A client that waits or writes has a chunk to write.                     *)
Holding == \A c \in Client : pc[c] = "waiting" \/ Writing(c) => chunk[c] \in 1..NumChunks

TypeInv == TypeOK /\ Holding

(* A step of one client, without CallEnds.                                 *)
Step(c) ==
  \/ \E s \in Sizes \cup {0} : Listen(c, s)
  \/ Waits(c) \/ Writes(c) \/ Close(c) \/ Dispose(c)

(* A call keeps its type when fields of it change.                         *)
LEMMA CallTyped ==
  ASSUME NEW k \in Call
  PROVE  /\ [k EXCEPT !.alive = FALSE] \in Call
         /\ [k EXCEPT !.configured = TRUE, !.read = TRUE] \in Call
         /\ \A m, n \in Nat : [k EXCEPT !.bytes = m, !.first = n] \in Call
  BY DEF Call

LEMMA TypeInit == Init => TypeInv
  BY StreamAssumption DEF Init, TypeInv, TypeOK, Holding, Writing

LEMMA TypeWaits ==
  ASSUME TypeInv, NEW c \in Client, Waits(c) \/ Close(c) \/ Dispose(c) \/ CallEnds(c)
  PROVE  TypeInv'
<1> USE StreamAssumption DEF TypeInv, TypeOK, Holding, Writing
<1>1. CASE Acquire(c)
  BY <1>1 DEF Acquire
<1>2. CASE WaitTimesOut(c)
  BY <1>2 DEF WaitTimesOut
<1>3. CASE Close(c)
  BY <1>3 DEF Close
<1>4. CASE Dispose(c)
  BY <1>4 DEF Dispose, Forget
<1>5. CASE CallEnds(c)
  <2>1. call[c] \in Call /\ call' = [call EXCEPT ![c] = [call[c] EXCEPT !.alive = FALSE]]
    BY <1>5 DEF CallEnds
  <2>2. call' \in [Client -> Call \cup {Nil}]
    BY <2>1, CallTyped
  <2> QED BY <1>5, <2>2 DEF CallEnds
<1> QED BY <1>1, <1>2, <1>3, <1>4, <1>5 DEF Waits

LEMMA TypeListen ==
  ASSUME TypeInv, NEW c \in Client, NEW s \in Sizes \cup {0}, Listen(c, s)
  PROVE  TypeInv'
<1> USE StreamAssumption DEF TypeInv, TypeOK, Holding, Writing
<1>1. chunk[c] \in 0..NumChunks /\ chunk[c] + 1 \in 1..NumChunks /\ s \in Nat
  BY DEF Listen
<1> QED BY <1>1 DEF Listen

LEMMA WrittenTyped ==
  ASSUME TypeInv, NEW c \in Client, Writing(c),
         \/ UNCHANGED written
         \/ written' = [written EXCEPT ![c] = Append(@, chunk[c])]
  PROVE  written' \in [Client -> Seq(1..NumChunks)]
<1>1. written[c] \in Seq(1..NumChunks) /\ chunk[c] \in 1..NumChunks
  BY DEF TypeInv, TypeOK, Holding
<1>2. Append(written[c], chunk[c]) \in Seq(1..NumChunks)
  BY <1>1
<1> QED BY <1>2 DEF TypeInv, TypeOK

LEMMA TypeWrites ==
  ASSUME TypeInv, NEW c \in Client, Writes(c)
  PROVE  TypeInv'
<1> USE StreamAssumption DEF TypeInv, TypeOK, Holding, Writing
<1>1. CASE OpenCall(c)
  BY <1>1 DEF OpenCall, NewCall, Call
<1>2. CASE Configure(c)
  <2>1. /\ call[c] \in Call
        /\ call' = [call EXCEPT ![c] = [call[c] EXCEPT !.configured = TRUE, !.read = TRUE]]
    BY <1>2 DEF Configure
  <2>2. call' \in [Client -> Call \cup {Nil}]
    BY <2>1, CallTyped
  <2> QED BY <1>2, <2>2 DEF Configure
<1>3. CASE Write(c)
  <2> DEFINE m == call[c].bytes + size[c]
             n == IF call[c].bytes = 0 THEN size[c] ELSE call[c].first
  <2>1. written' \in [Client -> Seq(1..NumChunks)]
    BY <1>3, WrittenTyped DEF Write
  <2>2. call[c] \in Call /\ size[c] \in Nat
    BY <1>3 DEF Write
  <2>3. m \in Nat /\ n \in Nat
    BY <2>2 DEF Call
  <2>4. /\ call' = [call EXCEPT ![c].bytes = m, ![c].first = n]
        /\ written' = [written EXCEPT ![c] = Append(@, chunk[c])]
        /\ lock' = Nil /\ pc' = [pc EXCEPT ![c] = "idle"]
        /\ UNCHANGED <<bytesSent, chunk, size, dropped>>
    BY <1>3 DEF Write
  <2> HIDE DEF m, n
  <2>5. call' = [call EXCEPT ![c] = [call[c] EXCEPT !.bytes = m, !.first = n]]
    BY <2>4
  <2>6. call' \in [Client -> Call \cup {Nil}]
    BY <2>2, <2>3, <2>5, CallTyped
  <2> QED BY <2>1, <2>4, <2>6
<1>4. CASE FirstFails(c)
  <2>1. written' \in [Client -> Seq(1..NumChunks)]
    BY <1>4, WrittenTyped DEF FirstFails
  <2> QED BY <1>4, <2>1 DEF FirstFails
<1>5. CASE SecondFails(c)
  <2>3. written' \in [Client -> Seq(1..NumChunks)]
    BY <1>5, WrittenTyped DEF SecondFails
  <2>1. call[c] \in Call /\ call' = [call EXCEPT ![c] = [call[c] EXCEPT !.alive = FALSE]]
    BY <1>5 DEF SecondFails
  <2>2. call' \in [Client -> Call \cup {Nil}]
    BY <2>1, CallTyped
  <2> QED BY <1>5, <2>2, <2>3 DEF SecondFails
<1> QED BY <1>1, <1>2, <1>3, <1>4, <1>5 DEF Writes

LEMMA TypeStep == TypeInv /\ [Next]_vars => TypeInv'
<1>1. ASSUME TypeInv, NEW c \in Client, Step(c) \/ CallEnds(c) PROVE TypeInv'
  BY <1>1, TypeWaits, TypeListen, TypeWrites DEF Step
<1>2. ASSUME TypeInv, UNCHANGED vars PROVE TypeInv'
  BY <1>2 DEF TypeInv, TypeOK, Holding, Writing, vars
<1> QED BY <1>1, <1>2 DEF Next, Step

(* Every variable keeps its type: counters within their bounds, calls as   *)
(* ActiveCall makes them.                                                  *)
THEOREM TypeCorrect == Spec => []TypeOK
<1>1. TypeInv => TypeOK
  BY DEF TypeInv
<1> QED BY <1>1, TypeInit, TypeStep, PTL DEF Spec

LEMMA Typed == Spec => []TypeInv
  BY TypeInit, TypeStep, PTL DEF Spec

-----------------------------------------------------------------------------
(* The mutex.                                                              *)

LEMMA OneWriterStep == TypeInv /\ OneWriter /\ [Next]_vars => OneWriter'
<1> USE DEF TypeInv, TypeOK, OneWriter
<1>1. ASSUME TypeInv, OneWriter, NEW c \in Client, Waits(c) \/ Close(c) \/ Dispose(c)
      PROVE  OneWriter'
  BY <1>1, StreamAssumption DEF Waits, Acquire, WaitTimesOut, Close, Dispose, Forget
<1>2. ASSUME TypeInv, OneWriter, NEW c \in Client, Writes(c)
      PROVE  OneWriter'
  BY <1>2, StreamAssumption
     DEF Writes, Writing, OpenCall, Configure, Write, FirstFails, SecondFails
<1>3. ASSUME OneWriter, NEW c \in Client,
             CallEnds(c) \/ \E s \in Sizes \cup {0} : Listen(c, s), TypeInv
      PROVE  OneWriter'
  BY <1>3 DEF CallEnds, Listen
<1>4. ASSUME OneWriter, UNCHANGED vars PROVE OneWriter'
  BY <1>4 DEF vars
<1> QED BY <1>1, <1>2, <1>3, <1>4 DEF Next

(* The named mutex lets one client at a time open calls, write or dispose. *)
THEOREM OneWriterHolds == Spec => []OneWriter
<1>1. Init => OneWriter
  BY DEF Init, OneWriter
<1> QED BY <1>1, Typed, OneWriterStep, PTL DEF Spec

-----------------------------------------------------------------------------
(* What a call holds.                                                      *)

(* The call of client c has a reader if it was given the options, and      *)
(* bytesSent counts what it was given after its first chunk; the chunk in  *)
(* hand is counted when the client starts to wait for the mutex.           *)
Counted(c) ==
  call[c] # Nil =>
    /\ call[c].configured => call[c].read
    /\ call[c].bytes > 0 => call[c].configured
    /\ bytesSent[c] < MaxBytes
    /\ call[c].bytes <= call[c].first + bytesSent[c]
    /\ pc[c] = "waiting" \/ Writing(c) =>
         call[c].bytes = 0 \/ call[c].bytes + size[c] <= call[c].first + bytesSent[c]

CallInv == \A c \in Client : Counted(c)

LEMMA CallerTyped ==
  ASSUME TypeInv, NEW c \in Client
  PROVE  /\ size[c] \in Nat /\ bytesSent[c] \in Nat /\ chunk[c] \in 0..NumChunks
         /\ call[c] # Nil => call[c] \in Call
<1>1. Sizes \cup {0} \subseteq Nat
  BY StreamAssumption
<1>2. size[c] \in Sizes \cup {0}
  BY DEF TypeInv, TypeOK
<1>3. bytesSent[c] \in Nat /\ chunk[c] \in 0..NumChunks /\ call[c] \in Call \cup {Nil}
  BY DEF TypeInv, TypeOK
<1> QED BY <1>1, <1>2, <1>3

LEMMA CallWrites ==
  ASSUME TypeInv, CallInv, NEW c \in Client, Writes(c)
  PROVE  Counted(c)'
<1> USE StreamAssumption DEF TypeInv, TypeOK, CallInv, Counted, Writing
<1>1. size[c] \in Nat /\ bytesSent[c] \in Nat /\ (call[c] # Nil => call[c] \in Call)
  BY CallerTyped
<1>2. CASE OpenCall(c)
  <2>1. call'[c] = NewCall /\ bytesSent'[c] = 0
    BY <1>2 DEF OpenCall
  <2> QED BY <1>2, <2>1 DEF NewCall
<1>3. CASE Configure(c)
  BY <1>1, <1>3 DEF Configure, Call
<1>4. CASE Write(c)
  <2>1. call[c] \in Call /\ bytesSent' = bytesSent /\ pc'[c] = "idle"
    BY <1>1, <1>4 DEF Write
  <2>2. call'[c] = [call[c] EXCEPT !.bytes = @ + size[c],
                      !.first = IF call[c].bytes = 0 THEN size[c] ELSE @]
    BY <1>4 DEF Write
  <2>3. /\ call'[c].bytes = call[c].bytes + size[c]
        /\ call'[c].first = IF call[c].bytes = 0 THEN size[c] ELSE call[c].first
        /\ call'[c].configured = call[c].configured /\ call'[c].read = call[c].read
    BY <2>1, <2>2 DEF Call
  <2>4. /\ call[c].configured /\ Counted(c) /\ call[c] # Nil
        /\ Writing(c)
    BY <1>4 DEF Write
  <2>5. call[c].bytes \in Nat /\ call[c].first \in Nat
    BY <2>1 DEF Call
  <2> QED BY <1>1, <2>1, <2>3, <2>4, <2>5
<1>5. CASE FirstFails(c)
  BY <1>5 DEF FirstFails
<1>6. CASE SecondFails(c)
  BY <1>1, <1>6 DEF SecondFails, Call
<1> QED BY <1>2, <1>3, <1>4, <1>5, <1>6 DEF Writes

LEMMA CallRests ==
  ASSUME TypeInv, CallInv, NEW c \in Client,
         \/ \E s \in Sizes \cup {0} : Listen(c, s)
         \/ Waits(c) \/ Close(c) \/ Dispose(c) \/ CallEnds(c)
  PROVE  Counted(c)'
<1> USE StreamAssumption DEF TypeInv, TypeOK, CallInv, Counted, Writing
<1>1. bytesSent[c] \in Nat /\ (call[c] # Nil => call[c] \in Call)
  OBVIOUS
<1>2. ASSUME NEW s \in Sizes \cup {0}, Listen(c, s) PROVE Counted(c)'
  <2>1. s \in Nat /\ bytesSent'[c] = bytesSent[c] + s /\ pc[c] = "idle" /\ size'[c] = s
    BY <1>2 DEF Listen
  <2>2. call'[c] # Nil => call'[c] = call[c] /\ bytesSent[c] + s < MaxBytes
    BY <1>1, <1>2 DEF Listen
  <2>3. call[c] # Nil => call[c].bytes \in Nat /\ call[c].first \in Nat
    BY <1>1 DEF Call
  <2>4. Counted(c) /\ bytesSent[c] \in Nat /\ MaxBytes \in Nat
    OBVIOUS
  <2> HIDE StreamAssumption DEF TypeInv, TypeOK, CallInv, Writing
  <2> QED BY <2>1, <2>2, <2>3, <2>4
<1>3. CASE Waits(c)
  BY <1>3 DEF Waits, Acquire, WaitTimesOut
<1>4. CASE Close(c) \/ Dispose(c)
  BY <1>4 DEF Close, Dispose, Forget
<1>5. CASE CallEnds(c)
  BY <1>1, <1>5 DEF CallEnds, Call
<1> QED BY <1>2, <1>3, <1>4, <1>5

(* A step of one client leaves what the others hold.                       *)
LEMMA Others ==
  ASSUME TypeInv, NEW c \in Client, Step(c) \/ CallEnds(c), NEW d \in Client, d # c
  PROVE  /\ pc'[d] = pc[d] /\ call'[d] = call[d] /\ bytesSent'[d] = bytesSent[d]
         /\ chunk'[d] = chunk[d] /\ size'[d] = size[d]
         /\ written'[d] = written[d] /\ dropped'[d] = dropped[d]
<1> USE DEF TypeInv, TypeOK
<1>1. CASE CallEnds(c) \/ \E s \in Sizes \cup {0} : Listen(c, s)
  BY <1>1 DEF CallEnds, Listen
<1>2. CASE Waits(c) \/ Close(c) \/ Dispose(c)
  BY <1>2 DEF Waits, Acquire, WaitTimesOut, Close, Dispose, Forget
<1>3. CASE Writes(c)
  BY <1>3 DEF Writes, OpenCall, Configure, Write, FirstFails, SecondFails
<1> QED BY <1>1, <1>2, <1>3 DEF Step

LEMMA CallStep == TypeInv /\ CallInv /\ [Next]_vars => CallInv'
<1>1. ASSUME TypeInv, CallInv, NEW c \in Client, Step(c) \/ CallEnds(c) PROVE CallInv'
  <2>1. Counted(c)'
    BY <1>1, CallWrites, CallRests DEF Step
  <2>2. ASSUME NEW d \in Client, d # c PROVE Counted(d)'
    BY <1>1, <2>2, Others DEF CallInv, Counted, Writing
  <2> QED BY <2>1, <2>2 DEF CallInv
<1>2. ASSUME CallInv, UNCHANGED vars PROVE CallInv'
  BY <1>2 DEF CallInv, Counted, Writing, vars
<1> QED BY <1>1, <1>2 DEF Next, Step

LEMMA CallsCounted == Spec => []CallInv
<1>1. Init => CallInv
  BY DEF Init, CallInv, Counted
<1> QED BY <1>1, Typed, CallStep, PTL DEF Spec

(* However often a call was replaced, audio goes to one that has its       *)
(* options and a reader.                                                   *)
THEOREM AudioAnswered == Spec => []AudioIsAnswered
<1>1. CallInv => AudioIsAnswered
  BY DEF CallInv, Counted, AudioIsAnswered
<1> QED BY <1>1, CallsCounted, PTL

(* No call takes MAX_BYTES_SENT beyond its first chunk, whatever sizes     *)
(* chunks have and whichever of them were dropped or written twice.        *)
THEOREM CallsBounded == Spec => []CallBounded
<1>1. TypeInv /\ CallInv => CallBounded
  <2> SUFFICES ASSUME TypeInv, CallInv, NEW c \in Client, call[c] # Nil
               PROVE  call[c].bytes < MaxBytes + call[c].first
    BY DEF CallBounded
  <2>1. call[c] \in Call /\ bytesSent[c] \in Nat /\ MaxBytes \in Nat
    BY StreamAssumption DEF TypeInv, TypeOK
  <2> QED BY <2>1 DEF CallInv, Counted, Call
<1> QED BY <1>1, Typed, CallsCounted, PTL

-----------------------------------------------------------------------------
(* What was written.                                                       *)

(* Everything written so far is in order, was offered before, and is all   *)
(* there is but for what was dropped and the chunk in hand.                *)
Given(c) ==
  /\ \A n \in DOMAIN written[c] : written[c][n] <= chunk[c]
  /\ \A m, n \in DOMAIN written[c] : m < n => written[c][m] <= written[c][n]
  /\ \A n \in 1..chunk[c] :
       \/ n \in Range(written[c]) \cup dropped[c]
       \/ n = chunk[c] /\ pc[c] # "idle"

GivenInv == \A c \in Client : Given(c)

LEMMA SeqAppend ==
  ASSUME NEW S, NEW q \in Seq(S), NEW e
  PROVE  /\ Len(Append(q, e)) = Len(q) + 1 /\ Len(q) \in Nat
         /\ DOMAIN Append(q, e) = 1..Len(q) + 1 /\ DOMAIN q = 1..Len(q)
         /\ Append(q, e)[Len(q) + 1] = e
         /\ \A n \in DOMAIN q : Append(q, e)[n] = q[n] /\ q[n] \in S
  OBVIOUS

LEMMA UpTo == \A m \in Nat : \A n \in 1..m + 1 : n \in 1..m \/ n = m + 1
  OBVIOUS

(* The chunk in hand is written once more.                                 *)
LEMMA GivenAppend ==
  ASSUME TypeInv, NEW c \in Client, Given(c), chunk[c] \in 1..NumChunks,
         NEW r, r = Append(written[c], chunk[c])
  PROVE  /\ \A n \in DOMAIN r : r[n] <= chunk[c]
         /\ \A m, n \in DOMAIN r : m < n => r[m] <= r[n]
         /\ Range(written[c]) \cup {chunk[c]} \subseteq Range(r)
<1>1. written[c] \in Seq(1..NumChunks)
  BY DEF TypeInv, TypeOK
<1>2. /\ Len(r) = Len(written[c]) + 1 /\ Len(written[c]) \in Nat
      /\ DOMAIN r = 1..Len(r) /\ DOMAIN written[c] = 1..Len(written[c])
      /\ r[Len(r)] = chunk[c]
      /\ \A n \in DOMAIN written[c] : r[n] = written[c][n] /\ written[c][n] \in 1..NumChunks
  <2>1. r = Append(written[c], chunk[c])
    OBVIOUS
  <2>2. Len(r) = Len(written[c]) + 1
    BY <1>1, <2>1, SeqAppend
  <2>3. /\ Len(written[c]) \in Nat /\ DOMAIN written[c] = 1..Len(written[c])
        /\ DOMAIN r = 1..Len(r) /\ r[Len(r)] = chunk[c]
    BY <1>1, <2>1, <2>2, SeqAppend
  <2>4. ASSUME NEW n \in DOMAIN written[c]
        PROVE  r[n] = written[c][n] /\ written[c][n] \in 1..NumChunks
    <3>1. n \in 1..Len(written[c])
      BY <2>3
    <3>2. written[c][n] \in 1..NumChunks
      BY <1>1, <3>1, StreamAssumption
    <3> QED BY <1>1, <2>1, <3>1, <3>2
  <2> QED BY <2>2, <2>3, <2>4
<1>3. \A n \in DOMAIN r : n \in DOMAIN written[c] \/ n = Len(r)
  BY <1>2
<1>4. \A n \in DOMAIN r : r[n] <= chunk[c]
  BY <1>2, <1>3, StreamAssumption DEF Given
<1>5. \A m, n \in DOMAIN r : m < n => r[m] <= r[n]
  BY <1>2, <1>3, <1>4 DEF Given
<1>6. Range(written[c]) \cup {chunk[c]} \subseteq Range(r)
  BY <1>2 DEF Range
<1> QED BY <1>4, <1>5, <1>6

LEMMA GivenOwn ==
  ASSUME TypeInv, GivenInv, NEW c \in Client, Step(c) \/ CallEnds(c)
  PROVE  Given(c)'
<1> USE StreamAssumption DEF TypeInv, TypeOK, GivenInv
<1>1. Given(c) /\ chunk[c] \in 0..NumChunks
  OBVIOUS
<1>2. ASSUME NEW s \in Sizes \cup {0}, Listen(c, s) PROVE Given(c)'
  <2>1. /\ chunk'[c] = chunk[c] + 1 /\ pc[c] = "idle" /\ pc'[c] = "waiting"
        /\ written' = written /\ dropped' = dropped
    BY <1>2 DEF Listen
  <2>2. \A n \in DOMAIN written[c] : written[c][n] \in 1..NumChunks
    OBVIOUS
  <2>3. \A n \in 1..chunk[c] + 1 : n \in 1..chunk[c] \/ n = chunk[c] + 1
    BY <1>1, UpTo, CallerTyped, StreamAssumption
  <2>4. \A n \in DOMAIN written[c] : written[c][n] <= chunk[c] + 1
    BY <1>1, <2>2 DEF Given
  <2>5. \A n \in 1..chunk[c] : n \in Range(written[c]) \cup dropped[c]
    BY <1>1, <2>1 DEF Given
  <2> QED BY <1>1, <2>1, <2>3, <2>4, <2>5 DEF Given
<1>3. CASE Acquire(c) \/ Close(c) \/ CallEnds(c) \/ OpenCall(c) \/ Configure(c)
  BY <1>1, <1>3 DEF Given, Acquire, Close, CallEnds, OpenCall, Configure, Writing
<1>4. CASE WaitTimesOut(c)
  BY <1>1, <1>4 DEF Given, WaitTimesOut
<1>5. CASE Dispose(c)
  BY <1>5 DEF Given, Dispose, Forget
<1>6. CASE Write(c)
  <2>1. /\ written'[c] = Append(written[c], chunk[c])
        /\ chunk' = chunk /\ dropped' = dropped /\ chunk[c] \in 1..NumChunks
    BY <1>6 DEF Write, Holding
  <2> QED BY <1>1, <2>1, GivenAppend DEF Given
<1>7. CASE FirstFails(c) \/ SecondFails(c)
  <2>1. /\ written'[c] = written[c] \/ written'[c] = Append(written[c], chunk[c])
        /\ pc'[c] # "idle" /\ pc[c] # "idle"
        /\ chunk' = chunk /\ dropped' = dropped /\ chunk[c] \in 1..NumChunks
    BY <1>7 DEF FirstFails, SecondFails, Holding, Writing
  <2>2. CASE written'[c] = written[c]
    BY <1>1, <2>1, <2>2 DEF Given
  <2>3. CASE written'[c] = Append(written[c], chunk[c])
    BY <1>1, <2>1, <2>3, GivenAppend DEF Given
  <2> QED BY <2>1, <2>2, <2>3
<1> QED BY <1>2, <1>3, <1>4, <1>5, <1>6, <1>7 DEF Step, Waits, Writes

LEMMA GivenStep == TypeInv /\ GivenInv /\ [Next]_vars => GivenInv'
<1>1. ASSUME TypeInv, GivenInv, NEW c \in Client, Step(c) \/ CallEnds(c) PROVE GivenInv'
  <2>1. ASSUME NEW d \in Client, d # c PROVE Given(d)'
    BY <1>1, <2>1, Others DEF GivenInv, Given
  <2> QED BY <1>1, <2>1, GivenOwn DEF GivenInv
<1>2. ASSUME GivenInv, UNCHANGED vars PROVE GivenInv'
  BY <1>2 DEF GivenInv, Given, vars
<1> QED BY <1>1, <1>2 DEF Next, Step

LEMMA GivenAlways == Spec => []GivenInv
<1>1. Init => GivenInv
  BY DEF Init, GivenInv, Given
<1> QED BY <1>1, Typed, GivenStep, PTL DEF Spec

(* Retries and new calls keep the order in which the audio is written.     *)
THEOREM AudioInOrder == Spec => []InOrder
<1>1. GivenInv => InOrder
  BY DEF GivenInv, Given, InOrder
<1> QED BY <1>1, GivenAlways, PTL

(* While a session goes on no chunk is skipped but for the mutex's         *)
(* time-out: every other one was taken by the transport of some call.      *)
THEOREM OnlyDroppedIsSkipped == Spec => []NothingSkipped
<1>1. GivenInv => NothingSkipped
  BY DEF GivenInv, Given, NothingSkipped
<1> QED BY <1>1, GivenAlways, PTL

-----------------------------------------------------------------------------
(* A session sees an AudioChannel.                                         *)

(* A chunk that waits or is tried for the first time was not written; one  *)
(* that is tried again was written at most once.                           *)
Fresh(c) ==
  /\ pc[c] \in {"waiting", "first"} => ~Channel!Passed(c)
  /\ pc[c] = "second" => ~Channel!PassedTwice(c)

FreshInv == \A c \in Client : Fresh(c)

(* What was not written before is written once.                            *)
LEMMA PassedOnce ==
  ASSUME TypeInv, NEW c \in Client, ~Channel!Passed(c),
         UNCHANGED chunk, written'[c] = Append(written[c], chunk[c])
  PROVE  ~Channel!PassedTwice(c)'
<1>1. written[c] \in Seq(1..NumChunks)
  BY DEF TypeInv, TypeOK
<1>2. /\ DOMAIN written[c] = 1..Len(written[c]) /\ Len(written[c]) \in Nat
      /\ DOMAIN written'[c] = 1..Len(written[c]) + 1
  BY <1>1, SeqAppend
<1>3. \A n \in DOMAIN written[c] : written'[c][n] = written[c][n] /\ written[c][n] # chunk[c]
  <2>1. ASSUME NEW n \in DOMAIN written[c]
        PROVE  written'[c][n] = written[c][n] /\ written[c][n] # chunk[c]
    BY <1>1, SeqAppend DEF Channel!Passed
  <2> QED BY <2>1
<1>4. \A n \in DOMAIN written'[c] : written'[c][n] = chunk'[c] => n = Len(written[c]) + 1
  BY <1>2, <1>3
<1> QED BY <1>4 DEF Channel!PassedTwice

LEMMA FreshOwn ==
  ASSUME TypeInv, GivenInv, FreshInv, NEW c \in Client, Step(c) \/ CallEnds(c)
  PROVE  Fresh(c)'
<1>1. Fresh(c) /\ Given(c)
  BY DEF FreshInv, GivenInv
<1>2. ASSUME NEW s \in Sizes \cup {0}, Listen(c, s) PROVE Fresh(c)'
  <2>1. chunk'[c] = chunk[c] + 1 /\ pc'[c] = "waiting" /\ written' = written
    BY <1>2 DEF Listen, TypeInv, TypeOK
  <2>2. chunk[c] \in Nat /\ \A n \in DOMAIN written[c] : written[c][n] \in Nat
    BY CallerTyped, StreamAssumption DEF TypeInv, TypeOK
  <2>3. \A n \in DOMAIN written[c] : written[c][n] # chunk[c] + 1
    BY <1>1, <2>2 DEF Given
  <2> QED BY <2>1, <2>3 DEF Fresh, Channel!Passed
<1>3. CASE Acquire(c) \/ CallEnds(c) \/ OpenCall(c) \/ Configure(c)
  BY <1>1, <1>3 DEF Fresh, Channel!Passed, Channel!PassedTwice, Acquire, CallEnds, OpenCall,
                    Configure, TypeInv, TypeOK
<1>4. CASE WaitTimesOut(c) \/ Write(c) \/ SecondFails(c) \/ Close(c) \/ Dispose(c)
  BY <1>4 DEF Fresh, WaitTimesOut, Write, SecondFails, Close, Dispose, Forget, TypeInv, TypeOK
<1>5. CASE FirstFails(c)
  <2>1. pc[c] = "first" /\ pc'[c] = "second" /\ chunk' = chunk
    BY <1>5 DEF FirstFails, TypeInv, TypeOK
  <2>2. written' = written \/ written'[c] = Append(written[c], chunk[c])
    BY <1>5 DEF FirstFails, TypeInv, TypeOK
  <2>3. CASE written' = written
    BY <1>1, <2>1, <2>3 DEF Fresh, Channel!Passed, Channel!PassedTwice
  <2>4. CASE written'[c] = Append(written[c], chunk[c])
    BY <1>1, <2>1, <2>4, PassedOnce DEF Fresh
  <2> QED BY <2>2, <2>3, <2>4
<1> QED BY <1>2, <1>3, <1>4, <1>5 DEF Step, Waits, Writes

LEMMA FreshStep == TypeInv /\ GivenInv /\ FreshInv /\ [Next]_vars => FreshInv'
<1>1. ASSUME TypeInv, GivenInv, FreshInv, NEW c \in Client, Step(c) \/ CallEnds(c)
      PROVE  FreshInv'
  <2>1. ASSUME NEW d \in Client, d # c PROVE Fresh(d)'
    BY <1>1, <2>1, Others DEF FreshInv, Fresh, Channel!Passed, Channel!PassedTwice
  <2> QED BY <1>1, <2>1, FreshOwn DEF FreshInv
<1>2. ASSUME FreshInv, UNCHANGED vars PROVE FreshInv'
  BY <1>2 DEF FreshInv, Fresh, Channel!Passed, Channel!PassedTwice, vars
<1> QED BY <1>1, <1>2 DEF Next, Step

(* The phases of the sessions, as one of them moves.                       *)
phases == [c \in Client |-> Phase(c)]

LEMMA PhaseMoves ==
  ASSUME NEW c \in Client, TypeInv, NEW q, pc' = [pc EXCEPT ![c] = q]
  PROVE  phases' = [phases EXCEPT ![c] = Phase(c)']
<1>1. \A d \in Client : pc'[d] = IF d = c THEN q ELSE pc[d]
  BY DEF TypeInv, TypeOK
<1>2. \A d \in Client : d # c => Phase(d)' = Phase(d)
  BY <1>1 DEF Phase
<1> QED BY <1>2 DEF phases

(* What a step of a client is to its channel.                              *)
LEMMA ChannelStep ==
  ASSUME TypeInv, FreshInv, NEW c \in Client, Step(c) \/ CallEnds(c)
  PROVE  \/ Channel!Offer(c) \/ Channel!Pass(c) \/ Channel!Skip(c)
         \/ Channel!End(c) \/ Channel!Leave(c)
         \/ UNCHANGED <<phases, chunk, written>>
<1> USE DEF phases
<1>0. Fresh(c) /\ phases[c] = Phase(c)
  BY DEF FreshInv
<1>1. ASSUME NEW s \in Sizes \cup {0}, Listen(c, s) PROVE Channel!Offer(c)
  <2>1. pc[c] = "idle" /\ pc' = [pc EXCEPT ![c] = "waiting"] /\ pc'[c] = "waiting"
    BY <1>1 DEF Listen, TypeInv, TypeOK
  <2>2. phases' = [phases EXCEPT ![c] = "pending"]
    BY <2>1, PhaseMoves DEF Phase
  <2> QED BY <1>0, <1>1, <2>1, <2>2 DEF Listen, Phase, Channel!Offer
<1>2. CASE Acquire(c) \/ OpenCall(c) \/ Configure(c) \/ CallEnds(c)
  <2>1. UNCHANGED <<chunk, written>>
    BY <1>2 DEF Acquire, OpenCall, Configure, CallEnds
  <2>2. \A d \in Client : Phase(d)' = Phase(d)
    BY <1>2 DEF Acquire, OpenCall, Configure, CallEnds, Phase, TypeInv, TypeOK
  <2> QED BY <2>1, <2>2
<1>3. CASE WaitTimesOut(c)
  <2>1. pc[c] = "waiting" /\ pc' = [pc EXCEPT ![c] = "idle"] /\ pc'[c] = "idle"
    BY <1>3 DEF WaitTimesOut, TypeInv, TypeOK
  <2>2. phases' = [phases EXCEPT ![c] = "ready"]
    BY <2>1, PhaseMoves DEF Phase
  <2> QED BY <1>0, <1>3, <2>1, <2>2 DEF WaitTimesOut, Phase, Fresh, Channel!Skip
<1>4. CASE Close(c)
  <2>1. pc[c] = "idle" /\ pc' = [pc EXCEPT ![c] = "closing"] /\ pc'[c] = "closing"
    BY <1>4 DEF Close, TypeInv, TypeOK
  <2>2. phases' = [phases EXCEPT ![c] = "over"]
    BY <2>1, PhaseMoves DEF Phase
  <2> QED BY <1>0, <1>4, <2>1, <2>2 DEF Close, Phase, Channel!End
<1>5. CASE Dispose(c)
  <2>1. /\ pc[c] \in {"closing", "disposing"} /\ pc' = [pc EXCEPT ![c] = "idle"]
        /\ pc'[c] = "idle"
    BY <1>5 DEF Dispose, Forget, TypeInv, TypeOK
  <2>2. phases' = [phases EXCEPT ![c] = "ready"]
    BY <2>1, PhaseMoves DEF Phase
  <2> QED BY <1>0, <1>5, <2>1, <2>2 DEF Dispose, Forget, Phase, Channel!Leave
<1>6. CASE Write(c) \/ FirstFails(c) \/ SecondFails(c)
  <2>1. /\ Writing(c) /\ UNCHANGED chunk
        /\ \/ pc' = [pc EXCEPT ![c] = "idle"] /\ Write(c)
           \/ pc' = [pc EXCEPT ![c] = "second"]
           \/ pc' = [pc EXCEPT ![c] = "closing"]
    BY <1>6 DEF Write, FirstFails, SecondFails, Writing
  <2>2. Phase(c) = "pending" /\ ~Channel!PassedTwice(c)
    BY <1>0, <2>1 DEF Phase, Writing, Fresh, Channel!Passed, Channel!PassedTwice
  <2>3. \E p \in {"ready", "pending", "over"} : phases' = [phases EXCEPT ![c] = p]
    <3>1. Phase(c)' \in {"ready", "pending", "over"}
      BY <2>1 DEF Phase, TypeInv, TypeOK
    <3> QED BY <2>1, <3>1, PhaseMoves
  <2>4. CASE written' = [written EXCEPT ![c] = Append(@, chunk[c])]
    BY <1>0, <2>1, <2>2, <2>3, <2>4 DEF Channel!Pass
  <2>5. CASE UNCHANGED written /\ ~Write(c)
    <3>1. phases' = [phases EXCEPT ![c] = "pending"] \/ phases' = [phases EXCEPT ![c] = "over"]
      BY <2>1, <2>5, PhaseMoves DEF Phase, TypeInv, TypeOK
    <3>2. phases[c] = "pending"
      BY <1>0, <2>2
    <3> QED BY <2>1, <2>5, <3>1, <3>2 DEF Channel!End
  <2> QED BY <1>6, <2>4, <2>5 DEF Write, FirstFails, SecondFails
<1> QED BY <1>1, <1>2, <1>3, <1>4, <1>5, <1>6 DEF Step, Waits, Writes

(* However sessions wait for each other and calls end, are replaced or are *)
(* tried again, each session's audio is carried as by an AudioChannel.     *)
THEOREM ChannelImplemented == Spec => ImplementsChannel
<1>1. Init => Channel!Init
  BY DEF Init, Channel!Init, Phase
<1>2. TypeInv /\ FreshInv /\ [Next]_vars => [Channel!Next]_Channel!vars
  <2>1. UNCHANGED vars => UNCHANGED <<phases, chunk, written>>
    BY DEF vars, phases, Phase
  <2> QED BY <2>1, ChannelStep DEF Next, Step, Channel!Next, Channel!vars, phases
<1>3. Init => FreshInv
  BY DEF Init, FreshInv, Fresh
<1>4. TypeInv /\ GivenInv /\ FreshInv /\ [Next]_vars => FreshInv'
  BY FreshStep
<1> QED
  BY <1>1, <1>2, <1>3, <1>4, Typed, GivenAlways, PTL
  DEF Spec, Channel!Spec, ImplementsChannel
=============================================================================
