-------------------------- MODULE BehaviorStreams --------------------------
(***************************************************************************)
(* The behaviour pipeline of one session in one backend process: WebSocket  *)
(* upgrades, the registry of sockets (wsServer.ts), the registry of gRPC    *)
(* streams with their backpressure queues (behaviorClient.ts), the buffer   *)
(* of Telemetry, and the shutdown of the process (index.ts).                *)
(*                                                                          *)
(* Both registries are keyed by the session id, and every callback looks up *)
(* the session, not the socket or the stream it was made for.  A session    *)
(* has many sockets one after the other; each has at most one stream, which *)
(* goes by the socket's name.  Events are numbered as they come in.         *)
(*                                                                          *)
(* Callbacks run to completion, so an action is one callback.               *)
(***************************************************************************)
EXTENDS Naturals, Sequences

CONSTANTS
  Socket,           \* the connection attempts of the session
  Signal,           \* what makes the process shut down
  MaxQueue,         \* the length of the backpressure queue: 500
  BatchSize,        \* BATCH_SIZE of Telemetry
  MaxSent           \* bound on the number of events

ASSUME BoundsAssumption == MaxQueue \in Nat \ {0} /\ BatchSize \in Nat \ {0}

VARIABLES
  socket,           \* where each connection attempt is
  connection,       \* _connections and _contexts: the registered socket, if any
  ping,             \* whether the keepalive interval of the socket is running
  stream,           \* the gRPC stream of the socket; a full one owes a 'drain'
  registered,       \* _streams: the registered stream, if any
  draining,         \* draining, in the entry of _streams
  queue,            \* pendingQueue, in the entry of _streams
  written,          \* the last event written to the registered stream (history)
  sent,             \* how many events have come in
  buffer, timer, batches,     \* see Telemetry
  shutdown,         \* the shutdown that each signal started
  exit              \* whether the process has exited

Store == INSTANCE Telemetry WITH Event <- Nat

sockets == <<socket, connection, ping>>
entry == <<draining, queue, written>>
streams == <<stream, registered, entry>>
telemetry == <<buffer, timer, batches>>
process == <<shutdown, exit>>
vars == <<sockets, streams, sent, telemetry, process>>

-----------------------------------------------------------------------------
Stage == {"none", "flushing", "closing", "disconnected"}

TypeOK ==
  /\ socket \in [Socket -> {"none", "verifying", "refused", "open", "errored",
                            "terminated", "closed"}]
  /\ connection \in SUBSET Socket
  /\ ping \in [Socket -> BOOLEAN]
  /\ stream \in [Socket -> {"none", "open", "full", "ending", "failed", "over"}]
  /\ registered \in SUBSET Socket
  /\ draining \in BOOLEAN
  /\ queue \in Seq(Nat)
  /\ written \in Nat
  /\ sent \in Nat
  /\ Store!TelemetryTypeOK
  /\ shutdown \in [Signal -> [stage : Stage, awaits : SUBSET Nat, before : Nat]]
  /\ exit \in {"no", "clean", "forced"}

Init ==
  /\ socket = [c \in Socket |-> "none"]
  /\ connection = {}
  /\ ping = [c \in Socket |-> FALSE]
  /\ stream = [c \in Socket |-> "none"]
  /\ registered = {}
  /\ draining = FALSE /\ queue = << >> /\ written = 0
  /\ sent = 0
  /\ Store!TelemetryInit
  /\ shutdown = [k \in Signal |-> [stage |-> "none", awaits |-> {}, before |-> 0]]
  /\ exit = "no"

At(c, states) == socket[c] \in states
Stops(k, stage) == shutdown[k].stage = stage
Listening == \A k \in Signal : shutdown[k].stage \in {"none", "flushing"}

-----------------------------------------------------------------------------
(* Connections                                                              *)

(* 'upgrade', up to the await of verifyAccessToken. *)
Upgrade(c) ==
  /\ At(c, {"none"}) /\ Listening
  /\ socket' = [socket EXCEPT ![c] = "verifying"]
  /\ UNCHANGED <<connection, ping, streams, sent, telemetry, process>>

Refuse(c) ==
  /\ At(c, {"verifying"})
  /\ socket' = [socket EXCEPT ![c] = "refused"]
  /\ UNCHANGED <<connection, ping, streams, sent, telemetry, process>>

(* The entry of a stream that is not in the registry is never looked at     *)
(* again: what was queued in it is lost.                                    *)
FreshEntry == draining' = FALSE /\ queue' = << >> /\ written' = 0

(* open: skipped if the session has a stream; without effect if the circuit *)
(* breaker rejects it or there is no gRPC client.                           *)
Open(c) ==
  IF registered # {} THEN UNCHANGED streams
  ELSE \/ /\ stream' = [stream EXCEPT ![c] = "open"]
          /\ registered' = {c}
          /\ FreshEntry
       \/ UNCHANGED streams

(* The token is valid and the session has no connection: 'connection'. *)
Connect(c) ==
  /\ At(c, {"verifying"}) /\ connection = {}
  /\ socket' = [socket EXCEPT ![c] = "open"]
  /\ connection' = {c}
  /\ ping' = [ping EXCEPT ![c] = TRUE]
  /\ Open(c)
  /\ UNCHANGED <<sent, telemetry, process>>

(* _streams.delete *)
Unregister == registered' = {} /\ FreshEntry

(* close *)
CloseStream ==
  /\ stream' = [c \in Socket |-> IF c \in registered THEN "ending" ELSE stream[c]]
  /\ Unregister

\* Mutant: the context is deleted before its timer is looked up.
DeleteFirst ==
  /\ connection' = {}
  /\ UNCHANGED ping
  /\ CloseStream

(* cleanup *)
CleanUp ==
  /\ ping' = [c \in Socket |-> IF c \in connection THEN FALSE ELSE ping[c]]
  /\ connection' = {}
  /\ CloseStream

SocketFails(c) ==
  /\ At(c, {"open"})
  /\ socket' = [socket EXCEPT ![c] = "errored"]
  /\ CleanUp
  /\ UNCHANGED <<sent, telemetry, process>>

(* 'close', which also follows an 'error' and a terminate. *)
SocketCloses(c) ==
  /\ At(c, {"open", "errored", "terminated"})
  /\ socket' = [socket EXCEPT ![c] = "closed"]
  /\ CleanUp
  /\ UNCHANGED <<sent, telemetry, process>>

-----------------------------------------------------------------------------
(* Streams                                                                  *)

\* Mutant: a stream that the service ended is left to the socket's cleanup.
StreamEndsQuietly(c) ==
  /\ stream[c] \in {"open", "full", "ending", "failed"}
  /\ stream' = [stream EXCEPT ![c] = "over"]
  /\ UNCHANGED <<registered, entry, sockets, sent, telemetry, process>>

(* 'end': from the service, or because close was called. *)
StreamEnds(c) ==
  /\ stream[c] \in {"open", "full", "ending", "failed"}
  /\ stream' = [stream EXCEPT ![c] = "over"]
  /\ Unregister
  /\ UNCHANGED <<sockets, sent, telemetry, process>>

(* 'error', which an 'end' follows. *)
StreamFails(c) ==
  /\ stream[c] \in {"open", "full", "ending"}
  /\ stream' = [stream EXCEPT ![c] = "failed"]
  /\ Unregister
  /\ UNCHANGED <<sockets, sent, telemetry, process>>

(* _flushPendingQueue, once draining is reset: k events are written, up to  *)
(* the first whose write says that the stream is full.  A stream that is    *)
(* full already says so at once.                                            *)
Flush(e, drained) ==
  \E k \in 0 .. Len(queue), blocked \in BOOLEAN :
    /\ blocked => k > 0
    /\ k < Len(queue) => blocked
    /\ drained[e] = "full" /\ k > 0 => k = 1 /\ blocked
    /\ written' = IF k = 0 THEN written ELSE queue[k]
    /\ queue' = SubSeq(queue, k + 1, Len(queue))
    /\ draining' = blocked
    /\ stream' = IF blocked THEN [drained EXCEPT ![e] = "full"] ELSE drained

\* Mutant: nothing to flush, nothing to do.
DrainIfQueued(c) ==
  /\ stream[c] = "full"
  /\ LET drained == [stream EXCEPT ![c] = "open"] IN
       IF queue = << >> THEN stream' = drained /\ UNCHANGED entry
                        ELSE \E e \in registered : Flush(e, drained)
  /\ UNCHANGED <<registered, sockets, sent, telemetry, process>>

\* Mutant: the queue waits for the next event.
DrainOnly(c) ==
  /\ stream[c] = "full"
  /\ stream' = [stream EXCEPT ![c] = "open"]
  /\ draining' = FALSE
  /\ UNCHANGED <<queue, written, registered, sockets, sent, telemetry, process>>

(* 'drain': stream c takes events again; the handler goes to whichever      *)
(* stream the session has now.  An ended stream does not drain any more.    *)
Drain(c) ==
  /\ stream[c] = "full"
  /\ LET drained == [stream EXCEPT ![c] = "open"] IN
       IF registered = {} THEN stream' = drained /\ UNCHANGED entry
                          ELSE \E e \in registered : Flush(e, drained)
  /\ UNCHANGED <<registered, sockets, sent, telemetry, process>>

Enqueue(n) ==
  LET q == Append(queue, n) IN
  /\ queue' = IF Len(q) > MaxQueue THEN Tail(q) ELSE q
  /\ UNCHANGED <<stream, draining, written>>

WriteTo(e, n) ==
  \E blocked \in BOOLEAN :
    /\ stream[e] = "full" => blocked
    /\ written' = n
    /\ draining' = blocked
    /\ stream' = IF blocked THEN [stream EXCEPT ![e] = "full"] ELSE stream
    /\ UNCHANGED queue

(* write: to the session's stream, if it has one. *)
Write(n) ==
  IF registered = {} THEN UNCHANGED streams
  ELSE /\ \E e \in registered : IF draining THEN Enqueue(n) ELSE WriteTo(e, n)
       /\ UNCHANGED registered

(* handleBehaviorEvent: the real-time path, then the historical one. *)
Message(c) ==
  /\ At(c, {"open"}) /\ sent < MaxSent
  /\ sent' = sent + 1
  /\ Write(sent')
  /\ Store!BufferEvent(sent')
  /\ UNCHANGED <<sockets, process>>

-----------------------------------------------------------------------------
(* The process                                                              *)

Background ==
  /\ Store!TimerFires \/ Store!Answered
  /\ UNCHANGED <<sockets, streams, sent, process>>

(* closeAllConnections and closeAll, then the flush up to its await.  The    *)
(* sockets are terminated and their 'close' events follow; their timers are *)
(* forgotten.                                                               *)
Shutdown(k) ==
  /\ Stops(k, "none")
  /\ socket' = [c \in Socket |-> IF c \in connection THEN "terminated" ELSE socket[c]]
  /\ connection' = {}
  /\ CloseStream
  /\ Store!FlushNow
  /\ shutdown' = [shutdown EXCEPT ![k] =
                    [stage |-> "flushing", awaits |-> buffer, before |-> sent]]
  /\ UNCHANGED <<ping, sent, exit>>

Advance(k, stage) == shutdown' = [shutdown EXCEPT ![k].stage = stage]

\* Mutant: the flush is not awaited, nor is the pool.
FlushedAnyway(k) ==
  /\ Stops(k, "flushing")
  /\ Advance(k, "disconnected")
  /\ UNCHANGED <<sockets, streams, sent, telemetry, exit>>

(* flush has returned: server.close, and the timer of the forced exit. *)
Flushed(k) ==
  /\ Stops(k, "flushing")
  /\ shutdown[k].awaits \notin batches
  /\ Advance(k, "closing")
  /\ UNCHANGED <<sockets, streams, sent, telemetry, exit>>

(* server.close calls back when every connection has ended; the telemetry   *)
(* pool ends when its clients are back.                                     *)
Disconnect(k) ==
  /\ Stops(k, "closing")
  /\ \A c \in Socket : At(c, {"none", "refused", "closed"})
  /\ batches = {}
  /\ Advance(k, "disconnected")
  /\ UNCHANGED <<sockets, streams, sent, telemetry, exit>>

Exit(k) ==
  /\ Stops(k, "disconnected")
  /\ exit' = "clean"
  /\ UNCHANGED <<sockets, streams, sent, telemetry, shutdown>>

ForceExit(k) ==
  /\ shutdown[k].stage \in {"closing", "disconnected"}
  /\ exit' = "forced"
  /\ UNCHANGED <<sockets, streams, sent, telemetry, shutdown>>

Connection(c) == Upgrade(c) \/ Refuse(c) \/ Connect(c) \/ SocketFails(c) \/ SocketCloses(c)
Stream(c) == StreamEnds(c) \/ StreamFails(c) \/ Drain(c)
Stop(k) == Shutdown(k) \/ Flushed(k) \/ Disconnect(k) \/ Exit(k) \/ ForceExit(k)

Next ==
  /\ exit = "no"
  /\ \/ \E c \in Socket : Connection(c) \/ Stream(c) \/ Message(c)
     \/ Background
     \/ \E k \in Signal : Stop(k)

Spec == Init /\ [][Next]_vars

-----------------------------------------------------------------------------
(* The registries belong together, although late events of earlier sockets  *)
(* and streams delete from them by session id: the registered socket is     *)
(* open, and the registered stream is a live one, of that socket.           *)
RegistryIsLive ==
  /\ \A c \in connection : socket[c] = "open"
  /\ \A c \in registered : c \in connection /\ stream[c] \in {"open", "full"}

(* Backpressure: an event is queued only behind a stream that owes a        *)
(* 'drain', whichever stream's 'drain' came last.  Otherwise the queue      *)
(* would never be flushed again.                                            *)
NeverStuck ==
  \A c \in registered :
    /\ queue # << >> => draining
    /\ draining => stream[c] = "full"

(* A stream gets the events in the order in which they came in, across the  *)
(* queue, its overflow, and the 'drain' of another stream.                  *)
InOrder ==
  LET events == <<written>> \o queue IN
  \A i, j \in 1 .. Len(events) : i < j => events[i] < events[j]

(* scheduleFlush: what is buffered has a timer that will write it. *)
BufferedIsScheduled == buffer # {} => timer

(* "The ping interval for this connection is cleared (no zombie timers)"    *)
(* (wsServer.ts).  While the process runs, a keepalive timer belongs to an  *)
(* open socket, although cleanup looks it up by session id.                 *)
NoZombieTimers ==
  (\A k \in Signal : Stops(k, "none")) =>
    \A c \in Socket : ping[c] => socket[c] = "open"

(* No timer is missing and none is left over. *)
TimersMatch == BufferedIsScheduled /\ NoZombieTimers

(* "Flush any buffered telemetry to TimescaleDB" (index.ts): a clean exit    *)
(* leaves nothing behind that came in before the shutdown, also if a flush  *)
(* was on its way when it began.                                            *)
ShutdownFlushes ==
  \A k \in Signal :
    exit = "clean" /\ Stops(k, "disconnected") =>
      \A n \in buffer \union UNION batches : n > shutdown[k].before

(* "Call behaviorGrpcClient.close(sessionId)" on 'close' or 'error', "this   *)
(* triggers cleanup of the Python-side SlidingWindow" (wsServer.ts): no      *)
(* stream outlives its socket.                                              *)
StreamsEnd ==
  \A c \in Socket : socket[c] = "closed" => stream[c] \notin {"open", "full"}
=============================================================================
