----------------------- MODULE BehaviorStreamsProofs -----------------------
(***************************************************************************)
(* Proofs about BehaviorStreams, for any number of sockets, streams,        *)
(* signals and events, and any length of the queue and of a batch.          *)
(*                                                                          *)
(* The invariant has one part for each concern: the two registries          *)
(* (Registry), the entry of the registered stream (NeverStuck, Sorted),     *)
(* the keepalive timers (Timers), the telemetry buffer                      *)
(* (BufferedIsScheduled) and the shutdown (Flushing).  A flush goes to      *)
(* whichever stream is registered, so the entry needs the registries; the   *)
(* other parts need no more than the types.                                 *)
(***************************************************************************)
EXTENDS BehaviorStreams, TLAPS

Registry ==
  /\ \A c, d \in connection : c = d
  /\ \A c \in connection : socket[c] = "open"
  /\ \A c \in registered : c \in connection /\ stream[c] \in {"open", "full"}

Sorted ==
  /\ written <= sent
  /\ \A i \in 1 .. Len(queue) : written < queue[i] /\ queue[i] <= sent
  /\ \A i, j \in 1 .. Len(queue) : i < j => queue[i] < queue[j]

Timers ==
  (\A k \in Signal : Stops(k, "none")) =>
    \A c \in Socket : ping[c] = TRUE => c \in connection

Flushing ==
  \A k \in Signal :
    /\ shutdown[k].before <= sent
    /\ ~Stops(k, "none") => \A n \in buffer : n > shutdown[k].before
    /\ Stops(k, "disconnected") => \A n \in UNION batches : n > shutdown[k].before

IInv ==
  /\ TypeOK /\ Registry /\ NeverStuck /\ Sorted
  /\ Timers /\ BufferedIsScheduled /\ Flushing

-----------------------------------------------------------------------------
(* What the parts of the handlers do, whoever calls them.                   *)

LEMMA FreshEntryType ==
  ASSUME FreshEntry
  PROVE  draining' \in BOOLEAN /\ queue' \in Seq(Nat) /\ written' \in Nat
<1>1. << >> \in Seq(Nat)
  OBVIOUS
<1>2. queue' \in Seq(Nat)
  BY <1>1 DEF FreshEntry
<1>3. draining' \in BOOLEAN
  BY DEF FreshEntry
<1>4. written' \in Nat
  BY DEF FreshEntry
<1> QED
  BY <1>2, <1>3, <1>4

LEMMA CloseStreamType ==
  ASSUME TypeOK, CloseStream
  PROVE  /\ stream' \in [Socket -> {"none", "open", "full", "ending", "failed", "over"}]
         /\ registered' = {} /\ draining' = FALSE /\ queue' = << >> /\ written' = 0
BY DEF TypeOK, CloseStream, Unregister, FreshEntry

LEMMA OpenType ==
  ASSUME TypeOK, NEW c \in Socket, Open(c)
  PROVE  /\ stream' \in [Socket -> {"none", "open", "full", "ending", "failed", "over"}]
         /\ registered' \in SUBSET Socket
         /\ draining' \in BOOLEAN /\ queue' \in Seq(Nat) /\ written' \in Nat
<1>1. CASE UNCHANGED streams
  BY <1>1 DEF TypeOK, streams, entry
<1>2. CASE stream' = [stream EXCEPT ![c] = "open"] /\ registered' = {c} /\ FreshEntry
  <2>1. stream' \in [Socket -> {"none", "open", "full", "ending", "failed", "over"}]
    BY <1>2 DEF TypeOK
  <2>2. draining' \in BOOLEAN /\ queue' \in Seq(Nat) /\ written' \in Nat
    BY <1>2, FreshEntryType
  <2>3. registered' \in SUBSET Socket
    BY <1>2
  <2> QED
    BY <2>1, <2>2, <2>3
<1> QED
  BY <1>1, <1>2 DEF Open

(* A flush keeps the queue sorted, and leaves it draining if anything is    *)
(* left in it.                                                              *)
LEMMA FlushEntry ==
  ASSUME TypeOK, Sorted, NEW e \in Socket,
         NEW drained \in [Socket -> {"none", "open", "full", "ending", "failed", "over"}],
         drained[e] \in {"open", "full"},
         Flush(e, drained), UNCHANGED sent
  PROVE  /\ stream' \in [Socket -> {"none", "open", "full", "ending", "failed", "over"}]
         /\ stream'[e] \in {"open", "full"}
         /\ \A c \in Socket : c # e => stream'[c] = drained[c]
         /\ draining' \in BOOLEAN /\ queue' \in Seq(Nat) /\ written' \in Nat
         /\ queue' # << >> => draining' = TRUE
         /\ draining' = TRUE => stream'[e] = "full"
         /\ Sorted'
<1>1. PICK k \in 0 .. Len(queue), blocked \in BOOLEAN :
        /\ k < Len(queue) => blocked
        /\ written' = IF k = 0 THEN written ELSE queue[k]
        /\ queue' = SubSeq(queue, k + 1, Len(queue))
        /\ draining' = blocked
        /\ stream' = IF blocked THEN [drained EXCEPT ![e] = "full"] ELSE drained
  BY DEF Flush
<1>2. queue \in Seq(Nat) /\ Len(queue) \in Nat /\ written \in Nat
      /\ \A i \in 1 .. Len(queue) : queue[i] \in Nat
  BY DEF TypeOK
<1>3. /\ queue' \in Seq(Nat)
      /\ Len(queue') = Len(queue) - k
      /\ \A i \in 1 .. Len(queue') : queue'[i] = queue[i + k]
  BY <1>1, <1>2
<1>4. written' \in Nat
  BY <1>1, <1>2
<1>5. queue' # << >> => draining' = TRUE
  BY <1>1, <1>2, <1>3
<1>6. Sorted'
  <2>1. written' <= sent'
    BY <1>1, <1>2 DEF Sorted
  <2>2. ASSUME NEW i \in 1 .. Len(queue')
        PROVE  written' < queue'[i] /\ queue'[i] <= sent'
    <3>1. i + k \in 1 .. Len(queue) /\ queue'[i] = queue[i + k]
      BY <1>2, <1>3
    <3>2. k = 0 \/ (k \in 1 .. Len(queue) /\ k < i + k)
      BY <1>2
    <3> QED
      BY <1>1, <3>1, <3>2 DEF Sorted
  <2>3. ASSUME NEW i \in 1 .. Len(queue'), NEW j \in 1 .. Len(queue'), i < j
        PROVE  queue'[i] < queue'[j]
    <3>1. /\ i + k \in 1 .. Len(queue) /\ j + k \in 1 .. Len(queue) /\ i + k < j + k
          /\ queue'[i] = queue[i + k] /\ queue'[j] = queue[j + k]
      BY <1>2, <1>3, <2>3
    <3> QED
      BY <3>1 DEF Sorted
  <2> QED
    BY <2>1, <2>2, <2>3 DEF Sorted
<1> QED
  BY <1>1, <1>3, <1>4, <1>5, <1>6

(* A write goes to the end of the queue, or past an empty one. *)
LEMMA WriteEntry ==
  ASSUME TypeOK, Registry, NeverStuck, Sorted, sent' = sent + 1, Write(sent')
  PROVE  /\ stream' \in [Socket -> {"none", "open", "full", "ending", "failed", "over"}]
         /\ \A c \in Socket : stream[c] \in {"open", "full"} => stream'[c] \in {"open", "full"}
         /\ registered' = registered
         /\ draining' \in BOOLEAN /\ queue' \in Seq(Nat) /\ written' \in Nat
         /\ NeverStuck' /\ Sorted'
<1>1. /\ queue \in Seq(Nat) /\ Len(queue) \in Nat /\ written \in Nat /\ sent \in Nat
      /\ draining \in BOOLEAN /\ registered \in SUBSET Socket
      /\ stream \in [Socket -> {"none", "open", "full", "ending", "failed", "over"}]
      /\ \A i \in 1 .. Len(queue) : queue[i] \in Nat
      /\ \A c, d \in registered : c = d
  BY DEF TypeOK, Registry
<1>2. CASE UNCHANGED streams
  <2>1. Sorted'
    BY <1>1, <1>2 DEF streams, entry, Sorted
  <2>2. NeverStuck'
    BY <1>2 DEF streams, entry, NeverStuck
  <2> QED
    BY <1>1, <1>2, <2>1, <2>2 DEF streams, entry
<1>3. ASSUME NEW e \in registered, draining = TRUE, Enqueue(sent'), UNCHANGED registered
      PROVE  /\ queue' \in Seq(Nat) /\ UNCHANGED <<stream, draining, written>>
             /\ NeverStuck' /\ Sorted'
  <2> DEFINE q == Append(queue, sent')
  <2>1. /\ q \in Seq(Nat) /\ Len(q) = Len(queue) + 1
        /\ \A i \in 1 .. Len(queue) : q[i] = queue[i]
        /\ q[Len(queue) + 1] = sent'
    BY <1>1
  <2>2. /\ \A i \in 1 .. Len(q) : written < q[i] /\ q[i] <= sent'
        /\ \A i, j \in 1 .. Len(q) : i < j => q[i] < q[j]
    BY <1>1, <2>1 DEF Sorted
  <2>3. CASE queue' = q
    BY <1>1, <1>3, <2>1, <2>2, <2>3 DEF Enqueue, NeverStuck, Sorted
  <2>4. CASE queue' = Tail(q)
    <3> HIDE DEF q
    <3>1. /\ Tail(q) \in Seq(Nat) /\ Len(Tail(q)) = Len(queue)
          /\ \A i \in 1 .. Len(queue) : Tail(q)[i] = q[i + 1]
      BY <1>1, <2>1
    <3>2. Sorted'
      <4>1. written' = written /\ written' <= sent'
        BY <1>1, <1>3 DEF Enqueue, Sorted
      <4>2. ASSUME NEW i \in 1 .. Len(queue')
            PROVE  written' < queue'[i] /\ queue'[i] <= sent'
        <5>1. i + 1 \in 1 .. Len(q) /\ queue'[i] = q[i + 1]
          BY <1>1, <2>1, <2>4, <3>1
        <5> QED
          BY <2>2, <4>1, <5>1
      <4>3. ASSUME NEW i \in 1 .. Len(queue'), NEW j \in 1 .. Len(queue'), i < j
            PROVE  queue'[i] < queue'[j]
        <5>1. /\ i + 1 \in 1 .. Len(q) /\ j + 1 \in 1 .. Len(q) /\ i + 1 < j + 1
              /\ queue'[i] = q[i + 1] /\ queue'[j] = q[j + 1]
          BY <1>1, <2>1, <2>4, <3>1, <4>3
        <5> QED
          BY <2>2, <5>1
      <4> QED
        BY <4>1, <4>2, <4>3 DEF Sorted
    <3> QED
      BY <1>3, <2>4, <3>1, <3>2 DEF Enqueue, NeverStuck
  <2> QED
    BY <1>3, <2>3, <2>4 DEF Enqueue
<1>4. ASSUME NEW e \in registered, draining # TRUE, WriteTo(e, sent'), UNCHANGED registered
      PROVE  /\ stream' \in [Socket -> {"none", "open", "full", "ending", "failed", "over"}]
             /\ \A c \in Socket : stream[c] \in {"open", "full"} => stream'[c] \in {"open", "full"}
             /\ draining' \in BOOLEAN /\ queue' = queue /\ written' \in Nat
             /\ NeverStuck' /\ Sorted'
  <2>1. PICK blocked \in BOOLEAN :
          /\ stream[e] = "full" => blocked
          /\ written' = sent'
          /\ draining' = blocked
          /\ stream' = IF blocked THEN [stream EXCEPT ![e] = "full"] ELSE stream
    BY <1>4 DEF WriteTo
  <2>2. queue' = queue /\ queue = << >>
    BY <1>1, <1>4 DEF WriteTo, NeverStuck
  <2>3. stream' \in [Socket -> {"none", "open", "full", "ending", "failed", "over"}]
    BY <1>1, <2>1
  <2>4. \A c \in Socket : stream[c] \in {"open", "full"} => stream'[c] \in {"open", "full"}
    BY <1>1, <1>4, <2>1
  <2>5. NeverStuck'
    BY <1>1, <1>4, <2>1, <2>2 DEF NeverStuck
  <2>6. Sorted'
    BY <1>1, <2>1, <2>2 DEF Sorted
  <2> QED
    BY <1>1, <2>1, <2>2, <2>3, <2>4, <2>5, <2>6
<1>5. \/ UNCHANGED streams
      \/ /\ UNCHANGED registered
         /\ \E e \in registered : IF draining THEN Enqueue(sent') ELSE WriteTo(e, sent')
  BY DEF Write
<1>6. CASE /\ UNCHANGED registered
           /\ \E e \in registered : IF draining THEN Enqueue(sent') ELSE WriteTo(e, sent')
  <2>1. PICK e \in registered : IF draining THEN Enqueue(sent') ELSE WriteTo(e, sent')
    BY <1>6
  <2>2. CASE draining = TRUE
    BY <1>1, <1>3, <1>6, <2>1, <2>2
  <2>3. CASE draining # TRUE
    BY <1>1, <1>4, <1>6, <2>1, <2>3
  <2> QED
    BY <2>2, <2>3
<1> QED
  BY <1>2, <1>5, <1>6

(* No operation of Telemetry leaves events in the buffer without a timer.   *)
LEMMA TelemetryStep ==
  ASSUME Store!TelemetryTypeOK, BufferedIsScheduled,
         \/ \E n \in Nat : Store!BufferEvent(n)
         \/ Store!FlushNow
         \/ Store!Answered
         \/ UNCHANGED telemetry
  PROVE  Store!TelemetryTypeOK' /\ BufferedIsScheduled'
<1>1. ASSUME NEW n \in Nat, Store!BufferEvent(n)
      PROVE  Store!TelemetryTypeOK' /\ BufferedIsScheduled'
  <2> DEFINE S == buffer \union {n}
  <2>1. \/ timer' = FALSE /\ Store!FlushBuffer(S)
        \/ timer' = TRUE /\ buffer' = S /\ UNCHANGED batches
    BY <1>1 DEF Store!BufferEvent
  <2>2. S \in SUBSET Nat
    BY DEF Store!TelemetryTypeOK
  <2> HIDE DEF S
  <2> QED
    BY <2>1, <2>2 DEF Store!FlushBuffer, Store!TelemetryTypeOK, BufferedIsScheduled
<1>2. CASE Store!FlushNow
  BY <1>2 DEF Store!FlushNow, Store!FlushBuffer, Store!TelemetryTypeOK, BufferedIsScheduled
<1>3. CASE Store!Answered
  BY <1>3 DEF Store!Answered, Store!TelemetryTypeOK, BufferedIsScheduled
<1>4. CASE UNCHANGED telemetry
  BY <1>4 DEF telemetry, Store!TelemetryTypeOK, BufferedIsScheduled
<1> QED
  BY <1>1, <1>2, <1>3, <1>4

LEMMA DrainEntry ==
  ASSUME TypeOK, Registry, NeverStuck, Sorted, NEW c \in Socket, Drain(c)
  PROVE  /\ stream' \in [Socket -> {"none", "open", "full", "ending", "failed", "over"}]
         /\ \A d \in Socket : stream[d] \in {"open", "full"} => stream'[d] \in {"open", "full"}
         /\ registered' = registered
         /\ draining' \in BOOLEAN /\ queue' \in Seq(Nat) /\ written' \in Nat
         /\ NeverStuck' /\ Sorted'
<1> DEFINE drained == [stream EXCEPT ![c] = "open"]
<1>1. /\ drained \in [Socket -> {"none", "open", "full", "ending", "failed", "over"}]
      /\ \A d \in Socket : stream[d] \in {"open", "full"} => drained[d] \in {"open", "full"}
  BY DEF TypeOK
<1>2. registered' = registered /\ UNCHANGED sent /\ registered \subseteq Socket
  BY DEF Drain, TypeOK
<1>3. CASE registered = {}
  <2>1. stream' = drained /\ UNCHANGED entry
    BY <1>3 DEF Drain
  <2>2. NeverStuck'
    BY <1>2, <1>3 DEF NeverStuck
  <2>3. Sorted'
    BY <1>2, <2>1 DEF entry, Sorted
  <2>4. draining' \in BOOLEAN /\ queue' \in Seq(Nat) /\ written' \in Nat
    BY <2>1 DEF entry, TypeOK
  <2> QED
    BY <1>1, <1>2, <2>1, <2>2, <2>3, <2>4
<1>4. CASE registered # {}
  <2>1. PICK e \in registered : Flush(e, drained)
    BY <1>4 DEF Drain
  <2>2. e \in Socket /\ drained[e] \in {"open", "full"} /\ \A d \in registered : d = e
    BY <1>1, <1>2 DEF Registry
  <2> HIDE DEF drained
  <2>3. /\ stream' \in [Socket -> {"none", "open", "full", "ending", "failed", "over"}]
        /\ stream'[e] \in {"open", "full"}
        /\ \A d \in Socket : d # e => stream'[d] = drained[d]
        /\ draining' \in BOOLEAN /\ queue' \in Seq(Nat) /\ written' \in Nat
        /\ queue' # << >> => draining' = TRUE
        /\ draining' = TRUE => stream'[e] = "full"
        /\ Sorted'
    BY <1>1, <1>2, <2>1, <2>2, FlushEntry
  <2>4. NeverStuck'
    BY <1>2, <2>2, <2>3 DEF NeverStuck
  <2> QED
    BY <1>1, <1>2, <2>3, <2>4
<1> QED
  BY <1>3, <1>4

-----------------------------------------------------------------------------
LEMMA TypeStep ==
  ASSUME TypeOK, Registry, NeverStuck, Sorted, BufferedIsScheduled, [Next]_vars
  PROVE  TypeOK'
<1> DEFINE StreamTypes ==
             /\ stream \in [Socket -> {"none", "open", "full", "ending", "failed", "over"}]
             /\ registered \in SUBSET Socket
             /\ draining \in BOOLEAN /\ queue \in Seq(Nat) /\ written \in Nat
           SocketTypes ==
             /\ socket \in [Socket -> {"none", "verifying", "refused", "open", "errored",
                                       "terminated", "closed"}]
             /\ connection \in SUBSET Socket
             /\ ping \in [Socket -> BOOLEAN]
           ProcessTypes ==
             /\ shutdown \in [Signal -> [stage : Stage, awaits : SUBSET Nat, before : Nat]]
             /\ exit \in {"no", "clean", "forced"}
<1>0. /\ SocketTypes /\ StreamTypes /\ sent \in Nat /\ Store!TelemetryTypeOK /\ ProcessTypes
      /\ SocketTypes' /\ StreamTypes' /\ sent' \in Nat /\ Store!TelemetryTypeOK' /\ ProcessTypes'
           => TypeOK'
  BY DEF TypeOK
<1>1. UNCHANGED sockets => SocketTypes'
  BY <1>0 DEF sockets
<1>2. UNCHANGED streams => StreamTypes'
  BY <1>0 DEF streams, entry
<1>3. UNCHANGED telemetry => Store!TelemetryTypeOK'
  BY <1>0 DEF telemetry, Store!TelemetryTypeOK
<1>4. UNCHANGED process => ProcessTypes'
  BY <1>0 DEF process
<1>5. CloseStream => StreamTypes'
  <2> SUFFICES ASSUME CloseStream
               PROVE  StreamTypes'
    OBVIOUS
  <2>1. FreshEntry /\ registered' = {}
    BY DEF CloseStream, Unregister
  <2> QED
    BY <2>1, FreshEntryType, CloseStreamType
<1>6. CleanUp => connection' \in SUBSET Socket /\ ping' \in [Socket -> BOOLEAN]
  BY <1>0 DEF CleanUp
<1>7. ASSUME NEW k \in Signal, NEW stage \in Stage, Advance(k, stage)
      PROVE  shutdown' \in [Signal -> [stage : Stage, awaits : SUBSET Nat, before : Nat]]
  BY <1>0, <1>7 DEF Advance
<1>8. ASSUME NEW c \in Socket, Upgrade(c)
      PROVE  TypeOK'
  <2>1. SocketTypes'
    BY <1>0, <1>8 DEF Upgrade
  <2> QED
    BY <1>0, <1>2, <1>3, <1>4, <1>8, <2>1 DEF Upgrade
<1>9. ASSUME NEW c \in Socket, Refuse(c)
      PROVE  TypeOK'
  <2>1. SocketTypes'
    BY <1>0, <1>9 DEF Refuse
  <2> QED
    BY <1>0, <1>2, <1>3, <1>4, <1>9, <2>1 DEF Refuse
<1>10. ASSUME NEW c \in Socket, Connect(c)
       PROVE  TypeOK'
  <2>1. SocketTypes'
    BY <1>0, <1>10 DEF Connect
  <2>2. StreamTypes'
    BY <1>10, OpenType DEF Connect
  <2> QED
    BY <1>0, <1>3, <1>4, <1>10, <2>1, <2>2 DEF Connect
<1>11. ASSUME NEW c \in Socket, SocketFails(c)
       PROVE  TypeOK'
  <2>1. SocketTypes'
    BY <1>0, <1>6, <1>11 DEF SocketFails
  <2>2. CloseStream
    BY <1>11 DEF SocketFails, CleanUp
  <2> QED
    BY <1>0, <1>3, <1>4, <1>5, <1>11, <2>1, <2>2 DEF SocketFails
<1>12. ASSUME NEW c \in Socket, SocketCloses(c)
       PROVE  TypeOK'
  <2>1. SocketTypes'
    BY <1>0, <1>6, <1>12 DEF SocketCloses
  <2>2. CloseStream
    BY <1>12 DEF SocketCloses, CleanUp
  <2> QED
    BY <1>0, <1>3, <1>4, <1>5, <1>12, <2>1, <2>2 DEF SocketCloses
<1>13. ASSUME NEW c \in Socket, StreamEnds(c) \/ StreamFails(c)
       PROVE  TypeOK'
  <2>1. FreshEntry /\ registered' = {}
    BY <1>13 DEF StreamEnds, StreamFails, Unregister
  <2>2. stream' \in [Socket -> {"none", "open", "full", "ending", "failed", "over"}]
    BY <1>0, <1>13 DEF StreamEnds, StreamFails
  <2>3. StreamTypes'
    BY <2>1, <2>2, FreshEntryType
  <2> QED
    BY <1>0, <1>1, <1>3, <1>4, <1>13, <2>3 DEF StreamEnds, StreamFails
<1>14. ASSUME NEW c \in Socket, Drain(c)
       PROVE  TypeOK'
  <2>1. StreamTypes'
    BY <1>0, <1>14, DrainEntry
  <2> QED
    BY <1>0, <1>1, <1>3, <1>4, <1>14, <2>1 DEF Drain
<1>15. ASSUME NEW c \in Socket, Message(c)
       PROVE  TypeOK'
  <2>1. sent' = sent + 1 /\ sent' \in Nat
    BY <1>0, <1>15 DEF Message
  <2>2. StreamTypes'
    BY <1>0, <1>15, <2>1, WriteEntry DEF Message
  <2>3. Store!TelemetryTypeOK'
    BY <1>0, <1>15, <2>1, TelemetryStep DEF Message
  <2> QED
    BY <1>0, <1>1, <1>4, <1>15, <2>1, <2>2, <2>3 DEF Message
<1>16. CASE Background
  <2>1. Store!FlushNow \/ Store!Answered
    BY <1>16 DEF Background, Store!TimerFires
  <2>2. Store!TelemetryTypeOK'
    BY <1>0, <2>1, TelemetryStep
  <2> QED
    BY <1>0, <1>1, <1>2, <1>4, <1>16, <2>2 DEF Background
<1>17. ASSUME NEW k \in Signal, Shutdown(k)
       PROVE  TypeOK'
  <2>1. SocketTypes'
    BY <1>0, <1>17 DEF Shutdown
  <2>2. Store!TelemetryTypeOK'
    BY <1>0, <1>17, TelemetryStep DEF Shutdown
  <2>3. ProcessTypes'
    <3>1. [stage |-> "flushing", awaits |-> buffer, before |-> sent]
            \in [stage : Stage, awaits : SUBSET Nat, before : Nat]
      BY <1>0 DEF Stage, Store!TelemetryTypeOK
    <3> QED
      BY <1>0, <1>17, <3>1 DEF Shutdown
  <2> QED
    BY <1>0, <1>5, <1>17, <2>1, <2>2, <2>3 DEF Shutdown
<1>18. ASSUME NEW k \in Signal, Flushed(k) \/ Disconnect(k)
       PROVE  TypeOK'
  <2>1. ProcessTypes'
    BY <1>0, <1>7, <1>18 DEF Flushed, Disconnect, Stage
  <2> QED
    BY <1>0, <1>1, <1>2, <1>3, <1>18, <2>1 DEF Flushed, Disconnect
<1>19. ASSUME NEW k \in Signal, Exit(k) \/ ForceExit(k)
       PROVE  TypeOK'
  BY <1>0, <1>1, <1>2, <1>3, <1>19 DEF Exit, ForceExit
<1>20. CASE UNCHANGED vars
  BY <1>0, <1>1, <1>2, <1>3, <1>4, <1>20 DEF vars
<1> QED
  BY <1>8, <1>9, <1>10, <1>11, <1>12, <1>13, <1>14, <1>15, <1>16, <1>17, <1>18, <1>19, <1>20
  DEF Next, Connection, Stream, Stop

-----------------------------------------------------------------------------
LEMMA RegistryStep ==
  ASSUME TypeOK, Registry, NeverStuck, Sorted, [Next]_vars
  PROVE  Registry'
<1>1. ASSUME NEW c \in Socket, Upgrade(c) \/ Refuse(c)
      PROVE  Registry'
  BY <1>1 DEF Upgrade, Refuse, At, Registry, streams, TypeOK
<1>2. ASSUME NEW c \in Socket, Connect(c)
      PROVE  Registry'
  <2>1. registered = {}
    BY <1>2 DEF Connect, Registry
  <2>2. connection' = {c} /\ socket'[c] = "open"
    BY <1>2 DEF Connect, TypeOK
  <2>3. registered' = {} \/ (registered' = {c} /\ stream'[c] = "open")
    BY <1>2, <2>1 DEF Connect, Open, streams, TypeOK
  <2> QED
    BY <2>2, <2>3 DEF Registry
<1>3. ASSUME NEW c \in Socket, SocketFails(c) \/ SocketCloses(c)
      PROVE  Registry'
  <2>1. connection' = {} /\ registered' = {}
    BY <1>3 DEF SocketFails, SocketCloses, CleanUp, CloseStream, Unregister
  <2> QED
    BY <2>1 DEF Registry
<1>4. ASSUME NEW c \in Socket, StreamEnds(c) \/ StreamFails(c)
      PROVE  Registry'
  <2>1. registered' = {} /\ UNCHANGED <<socket, connection>>
    BY <1>4 DEF StreamEnds, StreamFails, Unregister, sockets
  <2> QED
    BY <2>1 DEF Registry
<1>5. ASSUME NEW c \in Socket, Drain(c)
      PROVE  Registry'
  <2>1. UNCHANGED <<socket, connection>>
    BY <1>5 DEF Drain, sockets
  <2>2. /\ registered' = registered
        /\ \A d \in Socket : stream[d] \in {"open", "full"} => stream'[d] \in {"open", "full"}
    BY <1>5, DrainEntry
  <2> QED
    BY <2>1, <2>2 DEF Registry, TypeOK
<1>6. ASSUME NEW c \in Socket, Message(c)
      PROVE  Registry'
  <2>1. UNCHANGED <<socket, connection>> /\ sent' = sent + 1
    BY <1>6 DEF Message, sockets
  <2>2. /\ registered' = registered
        /\ \A d \in Socket : stream[d] \in {"open", "full"} => stream'[d] \in {"open", "full"}
    BY <1>6, <2>1, WriteEntry DEF Message
  <2> QED
    BY <2>1, <2>2 DEF Registry, TypeOK
<1>7. ASSUME NEW k \in Signal, Shutdown(k)
      PROVE  Registry'
  <2>1. connection' = {} /\ registered' = {}
    BY <1>7 DEF Shutdown, CloseStream, Unregister
  <2> QED
    BY <2>1 DEF Registry
<1>8. CASE UNCHANGED <<sockets, streams>>
  BY <1>8 DEF sockets, streams, Registry
<1> QED
  BY <1>1, <1>2, <1>3, <1>4, <1>5, <1>6, <1>7, <1>8
  DEF Next, vars, Connection, Stream, Stop, Background, Flushed, Disconnect, Exit, ForceExit

LEMMA EntryStep ==
  ASSUME TypeOK, Registry, NeverStuck, Sorted, [Next]_vars
  PROVE  NeverStuck' /\ Sorted'
<1>0. sent \in Nat
  BY DEF TypeOK
<1>1. ASSUME FreshEntry, UNCHANGED sent
      PROVE  NeverStuck' /\ Sorted'
  <2>1. queue' = << >> /\ draining' = FALSE /\ written' = 0
    BY <1>1 DEF FreshEntry
  <2> QED
    BY <1>0, <1>1, <2>1 DEF NeverStuck, Sorted
<1>2. CASE UNCHANGED <<streams, sent>>
  BY <1>2 DEF streams, entry, NeverStuck, Sorted
<1>3. ASSUME NEW c \in Socket, Drain(c)
      PROVE  NeverStuck' /\ Sorted'
  BY <1>3, DrainEntry
<1>4. ASSUME NEW c \in Socket, Message(c)
      PROVE  NeverStuck' /\ Sorted'
  BY <1>4, WriteEntry DEF Message
<1>5. ASSUME NEW c \in Socket, Connect(c)
      PROVE  NeverStuck' /\ Sorted'
  BY <1>1, <1>2, <1>5 DEF Connect, Open
<1>6. ASSUME NEW c \in Socket, SocketFails(c) \/ SocketCloses(c) \/ StreamEnds(c) \/ StreamFails(c)
      PROVE  NeverStuck' /\ Sorted'
  BY <1>1, <1>6
  DEF SocketFails, SocketCloses, StreamEnds, StreamFails, CleanUp, CloseStream, Unregister
<1>7. ASSUME NEW k \in Signal, Shutdown(k)
      PROVE  NeverStuck' /\ Sorted'
  BY <1>1, <1>7 DEF Shutdown, CloseStream, Unregister
<1> QED
  BY <1>2, <1>3, <1>4, <1>5, <1>6, <1>7
  DEF Next, vars, Connection, Stream, Stop, Background, Upgrade, Refuse, Flushed, Disconnect,
      Exit, ForceExit

LEMMA BufferStep ==
  ASSUME TypeOK, BufferedIsScheduled, [Next]_vars
  PROVE  BufferedIsScheduled'
<1>1. Store!TelemetryTypeOK /\ sent \in Nat
  BY DEF TypeOK
<1>2. ASSUME NEW c \in Socket, Message(c)
      PROVE  BufferedIsScheduled'
  <2>1. Store!BufferEvent(sent') /\ sent' \in Nat
    BY <1>1, <1>2 DEF Message
  <2> QED
    BY <1>1, <2>1, TelemetryStep
<1>3. CASE Background
  BY <1>1, <1>3, TelemetryStep DEF Background, Store!TimerFires
<1>4. ASSUME NEW k \in Signal, Shutdown(k)
      PROVE  BufferedIsScheduled'
  BY <1>1, <1>4, TelemetryStep DEF Shutdown
<1>5. CASE UNCHANGED telemetry
  BY <1>1, <1>5, TelemetryStep
<1> QED
  BY <1>2, <1>3, <1>4, <1>5
  DEF Next, vars, Connection, Stream, Stop, Upgrade, Refuse, Connect, SocketFails, SocketCloses,
      StreamEnds, StreamFails, Drain, Flushed, Disconnect, Exit, ForceExit

LEMMA TimersStep ==
  ASSUME TypeOK, Timers, [Next]_vars
  PROVE  Timers'
<1>0. /\ ping \in [Socket -> BOOLEAN] /\ connection \in SUBSET Socket
      /\ shutdown \in [Signal -> [stage : Stage, awaits : SUBSET Nat, before : Nat]]
  BY DEF TypeOK
<1>1. ASSUME UNCHANGED <<connection, ping, shutdown>>
      PROVE  Timers'
  BY <1>1 DEF Timers, Stops
<1>2. ASSUME NEW c \in Socket, Connect(c)
      PROVE  Timers'
  <2>1. /\ connection = {} /\ connection' = {c}
        /\ ping' = [ping EXCEPT ![c] = TRUE] /\ shutdown' = shutdown
    BY <1>2 DEF Connect, process
  <2> QED
    BY <1>0, <2>1 DEF Timers, Stops
<1>3. ASSUME CleanUp, UNCHANGED shutdown
      PROVE  Timers'
  <2>1. /\ connection' = {} /\ shutdown' = shutdown
        /\ ping' = [c \in Socket |-> IF c \in connection THEN FALSE ELSE ping[c]]
    BY <1>3 DEF CleanUp
  <2> QED
    BY <1>0, <2>1 DEF Timers, Stops
<1>4. ASSUME NEW k \in Signal, ~Stops(k, "none")'
      PROVE  Timers'
  BY <1>4 DEF Timers
<1>5. ASSUME NEW k \in Signal, Shutdown(k)
      PROVE  ~Stops(k, "none")'
  BY <1>0, <1>5 DEF Shutdown, Stops
<1>6. ASSUME NEW k \in Signal, Flushed(k) \/ Disconnect(k)
      PROVE  ~Stops(k, "none")'
  BY <1>0, <1>6 DEF Flushed, Disconnect, Advance, Stops
<1> QED
  BY <1>1, <1>2, <1>3, <1>4, <1>5, <1>6
  DEF Next, vars, Connection, Stream, Stop, Upgrade, Refuse, SocketFails, SocketCloses,
      StreamEnds, StreamFails, Drain, Message, Background, Exit, ForceExit, sockets, process

(* Nothing gets into the buffer but the event that came in, and nothing is  *)
(* on its way to the database that was not in the buffer.                   *)
LEMMA TelemetryMoves ==
  ASSUME NEW n,
         \/ Store!BufferEvent(n)
         \/ Store!FlushNow
         \/ Store!Answered
         \/ UNCHANGED telemetry
  PROVE  /\ buffer' \subseteq buffer \union {n}
         /\ (UNION batches') \subseteq (UNION batches) \union buffer \union {n}
<1>1. CASE Store!BufferEvent(n)
  BY <1>1 DEF Store!BufferEvent, Store!FlushBuffer
<1>2. CASE Store!FlushNow
  BY <1>2 DEF Store!FlushNow, Store!FlushBuffer
<1>3. CASE Store!Answered
  BY <1>3 DEF Store!Answered
<1>4. CASE UNCHANGED telemetry
  BY <1>4 DEF telemetry
<1> QED
  BY <1>1, <1>2, <1>3, <1>4

LEMMA FlushingStep ==
  ASSUME TypeOK, Flushing, [Next]_vars
  PROVE  Flushing'
<1>0. /\ sent \in Nat
      /\ shutdown \in [Signal -> [stage : Stage, awaits : SUBSET Nat, before : Nat]]
  BY DEF TypeOK
<1>1. ASSUME sent' \in {sent, sent + 1}, UNCHANGED shutdown,
             /\ buffer' \subseteq buffer \union {sent + 1}
             /\ (UNION batches') \subseteq (UNION batches) \union buffer \union {sent + 1}
      PROVE  Flushing'
  <2> SUFFICES ASSUME NEW k \in Signal
               PROVE  /\ shutdown[k].before <= sent'
                      /\ shutdown[k].stage # "none" =>
                           \A n \in buffer' : n > shutdown[k].before
                      /\ shutdown[k].stage = "disconnected" =>
                           \A n \in UNION batches' : n > shutdown[k].before
    BY <1>1 DEF Flushing, Stops
  <2>1. shutdown[k].before \in Nat /\ shutdown[k].before <= sent
    BY <1>0 DEF Flushing
  <2>2. shutdown[k].before <= sent' /\ sent + 1 > shutdown[k].before
    BY <1>0, <1>1, <2>1
  <2>3. ASSUME shutdown[k].stage # "none", NEW n \in buffer'
        PROVE  n > shutdown[k].before
    BY <1>1, <2>2, <2>3 DEF Flushing, Stops
  <2>4. ASSUME shutdown[k].stage = "disconnected", NEW n \in UNION batches'
        PROVE  n > shutdown[k].before
    <3>1. (n \in UNION batches) \/ n \in buffer \/ n = sent + 1
      BY <1>1
    <3> QED
      BY <2>2, <2>4, <3>1 DEF Flushing, Stops
  <2> QED
    BY <2>2, <2>3, <2>4
<1>2. CASE UNCHANGED <<sent, telemetry, shutdown>>
  BY <1>1, <1>2 DEF telemetry
<1>3. ASSUME NEW c \in Socket, Message(c)
      PROVE  Flushing'
  <2>1. sent' = sent + 1 /\ UNCHANGED shutdown /\ Store!BufferEvent(sent + 1)
    BY <1>3 DEF Message, process
  <2> QED
    BY <1>1, <2>1, TelemetryMoves
<1>4. CASE Background
  <2>1. UNCHANGED <<sent, shutdown>> /\ (Store!FlushNow \/ Store!Answered)
    BY <1>4 DEF Background, process, Store!TimerFires
  <2>2. /\ buffer' \subseteq buffer \union {sent + 1}
        /\ (UNION batches') \subseteq (UNION batches) \union buffer \union {sent + 1}
    BY <2>1, TelemetryMoves
  <2> QED
    BY <1>1, <2>1, <2>2
<1>5. ASSUME NEW k \in Signal, Shutdown(k)
      PROVE  Flushing'
  <2>1. /\ sent' = sent /\ shutdown[k].stage = "none"
        /\ shutdown' = [shutdown EXCEPT ![k] =
                          [stage |-> "flushing", awaits |-> buffer, before |-> sent]]
        /\ buffer' = {} /\ Store!FlushNow
    BY <1>5 DEF Shutdown, Stops, Store!FlushNow, Store!FlushBuffer
  <2>2. (UNION batches') \subseteq (UNION batches) \union buffer
    BY <2>1 DEF Store!FlushNow, Store!FlushBuffer
  <2>3. /\ shutdown'[k].stage = "flushing" /\ shutdown'[k].before = sent
        /\ \A j \in Signal : j # k => shutdown'[j] = shutdown[j]
    BY <1>0, <2>1
  <2>4. ASSUME NEW j \in Signal, j # k, shutdown[j].stage = "disconnected", NEW n \in UNION batches'
        PROVE  n > shutdown[j].before
    BY <2>2, <2>4 DEF Flushing, Stops
  <2>5. ASSUME NEW j \in Signal
        PROVE  shutdown'[j].before <= sent'
    BY <1>0, <2>1, <2>3 DEF Flushing
  <2> QED
    BY <2>1, <2>3, <2>4, <2>5 DEF Flushing, Stops
<1>6. ASSUME NEW k \in Signal, Flushed(k) \/ Disconnect(k)
      PROVE  Flushing'
  <2>1. /\ UNCHANGED <<sent, telemetry>> /\ shutdown[k].stage # "none"
        /\ \/ Advance(k, "closing")
           \/ Advance(k, "disconnected") /\ batches = {}
    BY <1>6 DEF Flushed, Disconnect, Stops
  <2>2. \A j \in Signal : shutdown'[j].before = shutdown[j].before
    BY <1>0, <2>1 DEF Advance
  <2>3. \A j \in Signal : j # k => shutdown'[j].stage = shutdown[j].stage
    BY <1>0, <2>1 DEF Advance
  <2>4. shutdown'[k].stage = "disconnected" => batches = {}
    BY <1>0, <2>1 DEF Advance
  <2> QED
    BY <2>1, <2>2, <2>3, <2>4 DEF Flushing, Stops, telemetry
<1> QED
  BY <1>2, <1>3, <1>4, <1>5, <1>6
  DEF Next, vars, Connection, Stream, Stop, Upgrade, Refuse, Connect, SocketFails, SocketCloses,
      StreamEnds, StreamFails, Drain, Exit, ForceExit, process

-----------------------------------------------------------------------------
LEMMA InitInv == Init => IInv
<1> SUFFICES ASSUME Init
             PROVE  IInv
  OBVIOUS
<1>1. << >> \in Seq(Nat)
  OBVIOUS
<1>2. TypeOK
  BY <1>1 DEF Init, TypeOK, Stage, Store!TelemetryInit, Store!TelemetryTypeOK
<1>3. Registry /\ NeverStuck /\ Timers
  BY DEF Init, Registry, NeverStuck, Timers
<1>4. Sorted
  BY DEF Init, Sorted
<1>5. BufferedIsScheduled /\ Flushing
  BY DEF Init, Store!TelemetryInit, BufferedIsScheduled, Flushing, Stops
<1> QED
  BY <1>2, <1>3, <1>4, <1>5 DEF IInv

(* All parts of the invariant hold in every state of the pipeline. *)
THEOREM Inductive == Spec => []IInv
<1>1. Init => IInv
  BY InitInv
<1>2. IInv /\ [Next]_vars => IInv'
  BY TypeStep, RegistryStep, EntryStep, BufferStep, TimersStep, FlushingStep DEF IInv
<1> QED
  BY <1>1, <1>2, PTL DEF Spec

(* The variables keep their types, whichever callback comes next. *)
THEOREM StreamsTypeCorrect == Spec => []TypeOK
<1>1. IInv => TypeOK
  BY DEF IInv
<1> QED
  BY <1>1, Inductive, PTL

(* wsServer.ts and behaviorClient.ts: although callbacks of earlier sockets *)
(* and streams delete by session id, what is registered is alive.           *)
THEOREM RegistriesLive == Spec => []RegistryIsLive
<1>1. IInv => RegistryIsLive
  BY DEF IInv, Registry, RegistryIsLive
<1> QED
  BY <1>1, Inductive, PTL

(* behaviorClient.ts: a queue of any length that holds events waits for a   *)
(* 'drain' that is still owed.                                              *)
THEOREM BackpressureNeverStuck == Spec => []NeverStuck
<1>1. IInv => NeverStuck
  BY DEF IInv
<1> QED
  BY <1>1, Inductive, PTL

(* behaviorClient.ts: the service never sees an event after a later one of  *)
(* the same stream.                                                         *)
THEOREM EventsInOrder == Spec => []InOrder
<1>1. ASSUME TypeOK, Sorted
      PROVE  InOrder
  <2> DEFINE events == <<written>> \o queue
  <2>1. queue \in Seq(Nat) /\ written \in Nat
    BY <1>1 DEF TypeOK
  <2>2. /\ Len(events) = Len(queue) + 1 /\ Len(queue) \in Nat
        /\ events[1] = written
        /\ \A i \in 2 .. Len(events) : events[i] = queue[i - 1]
    BY <2>1
  <2> HIDE DEF events
  <2>3. ASSUME NEW i \in 1 .. Len(events), NEW j \in 1 .. Len(events), i < j
        PROVE  events[i] < events[j]
    <3>1. j \in 2 .. Len(events) /\ j - 1 \in 1 .. Len(queue) /\ events[j] = queue[j - 1]
      BY <2>2, <2>3
    <3>2. CASE i = 1
      BY <1>1, <2>2, <3>1, <3>2 DEF Sorted
    <3>3. CASE i # 1
      <4>1. i - 1 \in 1 .. Len(queue) /\ events[i] = queue[i - 1] /\ i - 1 < j - 1
        BY <2>2, <2>3, <3>3
      <4> QED
        BY <1>1, <3>1, <4>1 DEF Sorted
    <3> QED
      BY <3>2, <3>3
  <2> QED
    BY <2>3 DEF InOrder, events
<1>2. IInv => InOrder
  BY <1>1 DEF IInv
<1> QED
  BY <1>2, Inductive, PTL

(* telemetry.service.ts: no event waits in the buffer without a timer, for  *)
(* any size of a batch.                                                     *)
THEOREM TelemetryScheduled == Spec => []BufferedIsScheduled
<1>1. IInv => BufferedIsScheduled
  BY DEF IInv
<1> QED
  BY <1>1, Inductive, PTL

(* wsServer.ts: until the process is told to stop, every keepalive timer    *)
(* belongs to an open socket.                                               *)
THEOREM TimersCleared == Spec => []NoZombieTimers
<1>1. ASSUME TypeOK, Registry, Timers
      PROVE  NoZombieTimers
  <2> SUFFICES ASSUME \A k \in Signal : Stops(k, "none"), NEW c \in Socket, ping[c] = TRUE
               PROVE  socket[c] = "open"
    BY DEF NoZombieTimers
  <2> QED
    BY <1>1 DEF Registry, Timers
<1>2. IInv => NoZombieTimers
  BY <1>1 DEF IInv
<1> QED
  BY <1>2, Inductive, PTL

(* Both: timers and what they serve come and go together.                   *)
THEOREM TimersAreMatched == Spec => []TimersMatch
<1>1. BufferedIsScheduled /\ NoZombieTimers => TimersMatch
  BY DEF TimersMatch
<1> QED
  BY <1>1, TelemetryScheduled, TimersCleared, PTL

(* index.ts: whoever stopped the process first, a clean exit has answers    *)
(* for all that came in before the signal whose shutdown it completes.      *)
THEOREM CleanShutdown == Spec => []ShutdownFlushes
<1>1. ASSUME TypeOK, Flushing
      PROVE  ShutdownFlushes
  <2> SUFFICES ASSUME NEW k \in Signal, Stops(k, "disconnected"),
                      NEW n \in buffer \union (UNION batches)
               PROVE  n > shutdown[k].before
    BY DEF ShutdownFlushes
  <2> QED
    BY <1>1 DEF Flushing, Stops
<1>2. IInv => ShutdownFlushes
  BY <1>1 DEF IInv
<1> QED
  BY <1>2, Inductive, PTL
=============================================================================
