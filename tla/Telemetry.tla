----------------------------- MODULE Telemetry -----------------------------
(***************************************************************************)
(* The write path to TimescaleDB, telemetry.service.ts: events collect in a *)
(* buffer, which is written in one INSERT when it is full, when the timer   *)
(* fires, or at shutdown.  A failed INSERT drops its batch.                 *)
(*                                                                          *)
(* Only the operations; BehaviorStreams says who calls them when.           *)
(***************************************************************************)
EXTENDS Naturals, FiniteSets

CONSTANTS
  Event,            \* what clients send, every one another
  BatchSize         \* BATCH_SIZE

VARIABLES
  buffer,           \* _buffer
  timer,            \* whether _flushTimer is set
  batches           \* INSERTs on their way

TelemetryTypeOK ==
  /\ buffer \in SUBSET Event
  /\ timer \in BOOLEAN
  /\ batches \in SUBSET (SUBSET Event)

TelemetryInit ==
  /\ buffer = {}
  /\ timer = FALSE
  /\ batches = {}

(* flushBuffer, up to its await, with events S in the buffer. *)
FlushBuffer(S) ==
  /\ buffer' = {}
  /\ batches' = batches \union ({S} \ {{}})

\* Mutant: a timer is armed only when no INSERT is on its way.
BufferEventBusy(e) ==
  LET S == buffer \union {e} IN
  IF Cardinality(S) >= BatchSize
  THEN timer' = FALSE /\ FlushBuffer(S)
  ELSE timer' = (timer \/ batches = {}) /\ buffer' = S /\ UNCHANGED batches

(* bufferEvent, with scheduleFlush *)
BufferEvent(e) ==
  LET S == buffer \union {e} IN
  IF Cardinality(S) >= BatchSize
  THEN timer' = FALSE /\ FlushBuffer(S)
  ELSE timer' = TRUE /\ buffer' = S /\ UNCHANGED batches

(* flush, up to its await *)
FlushNow ==
  /\ timer' = FALSE
  /\ FlushBuffer(buffer)

TimerFires == timer /\ FlushNow

(* pool.query answers; if it failed the batch is dropped. *)
Answered ==
  /\ \E b \in batches : batches' = batches \ {b}
  /\ UNCHANGED <<buffer, timer>>
=============================================================================
