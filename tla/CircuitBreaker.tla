--------------------------- MODULE CircuitBreaker ---------------------------
(***************************************************************************)
(* CircuitBreaker.call() of grpc/circuitBreaker.ts: the three-state breaker *)
(* in front of the ML service.  A call reads and writes the breaker once    *)
(* when it is made and once when it settles; other calls are made and       *)
(* settle in between, and the circuit may have changed state by then.       *)
(***************************************************************************)
EXTENDS Naturals

CONSTANTS
  Call,             \* the calls made through the breaker, each made once
  OpenThreshold     \* GRPC_CIRCUIT_OPEN_THRESHOLD

ASSUME OpenThresholdAssumption == OpenThreshold \in Nat \ {0}

VARIABLES
  state,            \* _state
  failureCount,     \* _failureCount
  elapsed,          \* whether Date.now() - _lastFailureTime >= _resetMs
  halfOpenProbing,  \* _halfOpenProbing
  call              \* call[c]: what became of call c

breakerVars == <<state, failureCount, elapsed, halfOpenProbing, call>>

Running == {"admitted", "probe"}
Settled == {"returned", "failed", "rejected"}

BreakerTypeOK ==
  /\ state \in {"CLOSED", "OPEN", "HALF_OPEN"}
  /\ failureCount \in Nat
  /\ elapsed \in BOOLEAN
  /\ halfOpenProbing \in BOOLEAN
  /\ call \in [Call -> {"new"} \union Running \union Settled]

(* _lastFailureTime starts at 0, the epoch. *)
BreakerInit ==
  /\ state = "CLOSED"
  /\ failureCount = 0
  /\ elapsed = TRUE
  /\ halfOpenProbing = FALSE
  /\ call = [c \in Call |-> "new"]

-----------------------------------------------------------------------------
(* The state check at the head of call().                                   *)

Becomes(c, status) == call' = [call EXCEPT ![c] = status]

(* OPEN turns HALF_OPEN when somebody calls after _resetMs, not by itself. *)
HalfOpen == state = "HALF_OPEN" \/ (state = "OPEN" /\ elapsed)

Admit(c) ==
  /\ call[c] = "new"
  /\ state = "CLOSED"
  /\ Becomes(c, "admitted")
  /\ UNCHANGED <<state, failureCount, elapsed, halfOpenProbing>>

RejectOpen(c) ==
  /\ call[c] = "new"
  /\ state = "OPEN"
  /\ ~elapsed
  /\ Becomes(c, "rejected")
  /\ UNCHANGED <<state, failureCount, elapsed, halfOpenProbing>>

\* Mutant: the flag is not looked at.
ProbeAgain(c) ==
  /\ call[c] = "new"
  /\ HalfOpen
  /\ state' = "HALF_OPEN"
  /\ halfOpenProbing' = TRUE
  /\ Becomes(c, "probe")
  /\ UNCHANGED <<failureCount, elapsed>>

Probe(c) ==
  /\ call[c] = "new"
  /\ HalfOpen
  /\ ~halfOpenProbing
  /\ state' = "HALF_OPEN"
  /\ halfOpenProbing' = TRUE
  /\ Becomes(c, "probe")
  /\ UNCHANGED <<failureCount, elapsed>>

RejectProbing(c) ==
  /\ call[c] = "new"
  /\ HalfOpen
  /\ halfOpenProbing
  /\ state' = "HALF_OPEN"
  /\ Becomes(c, "rejected")
  /\ UNCHANGED <<failureCount, elapsed, halfOpenProbing>>

-----------------------------------------------------------------------------
(* The call settles: _onSuccess or _onFailure, then the finally block, in   *)
(* whatever state the other calls have brought the circuit to.              *)

FinallyBlock ==
  halfOpenProbing' = IF state' = "HALF_OPEN" THEN FALSE ELSE halfOpenProbing

(* fn resolves before its timer. *)
Succeed(c) ==
  /\ call[c] \in Running
  /\ failureCount' = 0
  /\ state' = "CLOSED"
  /\ FinallyBlock
  /\ Becomes(c, "returned")
  /\ UNCHANGED elapsed

\* Mutant: > for >=.
OnFailurePastThreshold(c) ==
  /\ failureCount' = failureCount + 1
  /\ elapsed' = FALSE
  /\ state' = IF state = "HALF_OPEN" \/ failureCount + 1 > OpenThreshold
              THEN "OPEN" ELSE state
  /\ FinallyBlock
  /\ Becomes(c, "failed")

(* _onFailure: a failure that arrives when the circuit is already OPEN      *)
(* still counts, and restarts the reset timer.                              *)
OnFailure(c) ==
  /\ failureCount' = failureCount + 1
  /\ elapsed' = FALSE
  /\ state' = IF state = "HALF_OPEN" \/ failureCount + 1 >= OpenThreshold
              THEN "OPEN" ELSE state
  /\ FinallyBlock
  /\ Becomes(c, "failed")

(* fn rejects before its timer. *)
Fail(c) == call[c] \in Running /\ OnFailure(c)

\* Mutant: only the probe is timed.
TimeOutProbe(c) == call[c] = "probe" /\ OnFailure(c)

(* _withTimeout: _timeoutMs pass first, and what fn answers later is lost. *)
TimeOut(c) == call[c] \in Running /\ OnFailure(c)

(* _resetMs pass since the last failure. *)
ResetPeriodPasses ==
  /\ ~elapsed
  /\ elapsed' = TRUE
  /\ UNCHANGED <<state, failureCount, halfOpenProbing, call>>

-----------------------------------------------------------------------------
Make(c) == Admit(c) \/ RejectOpen(c) \/ Probe(c) \/ RejectProbing(c)

Settle(c) == Succeed(c) \/ Fail(c) \/ TimeOut(c)

BreakerNext ==
  \/ \E c \in Call : Make(c) \/ Settle(c)
  \/ ResetPeriodPasses

BreakerSpec == BreakerInit /\ [][BreakerNext]_breakerVars

(* setTimeout fires: fairness of the timer alone, none of the ML service.   *)
LiveSpec == BreakerSpec /\ \A c \in Call : WF_breakerVars(TimeOut(c))

-----------------------------------------------------------------------------
(* The circuit is not CLOSED exactly while at least OpenThreshold failures  *)
(* have been counted since the last success, however calls that were made   *)
(* in one state settle in another (_onSuccess, _onFailure).                 *)
TripsOnThreshold == state # "CLOSED" <=> failureCount >= OpenThreshold

(* "One test call is allowed through" (header, HALF_OPEN): no two probes    *)
(* ever run at once, although calls admitted before the circuit tripped     *)
(* settle while a probe runs, and close or re-open the circuit under it.    *)
OneProbeAtATime ==
  \A b, c \in Call : call[b] = "probe" /\ call[c] = "probe" => b = c

(* Nobody waits for the ML service for ever: a call that got through        *)
(* settles, even when fn never does (_withTimeout).                         *)
CallsSettle == \A c \in Call : call[c] \in Running ~> call[c] \in Settled

(* "HALF_OPEN (probing): one test call is allowed through.  If it succeeds, *)
(* CLOSED.  If it fails, back to OPEN" (header): while the circuit is       *)
(* HALF_OPEN there is a test call on its way to decide it.                  *)
HalfOpenIsProbing ==
  state = "HALF_OPEN" => \E c \in Call : call[c] = "probe"
=============================================================================
