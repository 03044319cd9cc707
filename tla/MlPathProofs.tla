---------------------------- MODULE MlPathProofs ----------------------------
(***************************************************************************)
(* Proofs about the two ends of the call to the ML service: CircuitBreaker, *)
(* for any number of calls and any threshold, and SlidingWindows, for any   *)
(* streams, sessions, windows and workers.                                  *)
(***************************************************************************)
EXTENDS CircuitBreaker, SlidingWindows, TLAPS

(* The flag is raised as long as a probe runs: this is what keeps a second  *)
(* one out, and it needs the finally block to leave the flag alone unless   *)
(* the circuit is HALF_OPEN, which after a settled call it never is.        *)
ProbeRaisesFlag == \A c \in Call : call[c] = "probe" => halfOpenProbing

BreakerInv == BreakerTypeOK /\ TripsOnThreshold /\ OneProbeAtATime /\ ProbeRaisesFlag

LEMMA BreakerInitInv == BreakerInit => BreakerInv
<1> SUFFICES ASSUME BreakerInit PROVE BreakerInv
  OBVIOUS
<1>1. BreakerTypeOK
  BY DEF BreakerInit, BreakerTypeOK, Running, Settled
<1>2. TripsOnThreshold
  BY OpenThresholdAssumption DEF BreakerInit, TripsOnThreshold
<1>3. OneProbeAtATime /\ ProbeRaisesFlag
  BY DEF BreakerInit, OneProbeAtATime, ProbeRaisesFlag
<1> QED
  BY <1>1, <1>2, <1>3 DEF BreakerInv

(* The finally block never finds the circuit HALF_OPEN: the handlers of     *)
(* success and failure have both just left that state.                      *)
LEMMA FinallyLeavesFlag ==
  ASSUME FinallyBlock, state' # "HALF_OPEN"
  PROVE  halfOpenProbing' = halfOpenProbing
BY DEF FinallyBlock

(* A failure keeps the count and the state in agreement. *)
LEMMA FailureInv ==
  ASSUME BreakerInv, NEW c \in Call, call[c] \in Running, OnFailure(c)
  PROVE  BreakerInv'
<1>1. /\ state' = IF state = "HALF_OPEN" \/ failureCount + 1 >= OpenThreshold
                  THEN "OPEN" ELSE state
      /\ failureCount' = failureCount + 1
      /\ elapsed' = FALSE
      /\ call' = [call EXCEPT ![c] = "failed"]
  BY DEF OnFailure, Becomes
<1>2. state' \in {"CLOSED", "OPEN"}
  BY <1>1 DEF BreakerInv, BreakerTypeOK
<1>3. halfOpenProbing' = halfOpenProbing
  BY <1>2, FinallyLeavesFlag DEF OnFailure
<1>4. BreakerTypeOK'
  <2>1. halfOpenProbing' \in BOOLEAN /\ elapsed' \in BOOLEAN
    BY <1>1, <1>3 DEF BreakerInv, BreakerTypeOK
  <2> QED
    BY <1>1, <1>2, <2>1 DEF BreakerInv, BreakerTypeOK, Running, Settled
<1>5. TripsOnThreshold'
  BY <1>1, OpenThresholdAssumption DEF BreakerInv, BreakerTypeOK, TripsOnThreshold
<1>6. OneProbeAtATime' /\ ProbeRaisesFlag'
  BY <1>1, <1>3 DEF BreakerInv, BreakerTypeOK, OneProbeAtATime, ProbeRaisesFlag
<1> QED
  BY <1>4, <1>5, <1>6 DEF BreakerInv

(* A success closes the circuit and clears the count, wherever it was. *)
LEMMA SuccessInv ==
  ASSUME BreakerInv, NEW c \in Call, Succeed(c)
  PROVE  BreakerInv'
<1>1. /\ state' = "CLOSED"
      /\ failureCount' = 0
      /\ elapsed' = elapsed
      /\ call' = [call EXCEPT ![c] = "returned"]
  BY DEF Succeed, Becomes
<1>2. halfOpenProbing' = halfOpenProbing
  BY <1>1, FinallyLeavesFlag DEF Succeed
<1>3. BreakerTypeOK'
  BY <1>1, <1>2 DEF BreakerInv, BreakerTypeOK, Running, Settled
<1>4. TripsOnThreshold'
  BY <1>1, OpenThresholdAssumption DEF TripsOnThreshold
<1>5. OneProbeAtATime' /\ ProbeRaisesFlag'
  BY <1>1, <1>2 DEF BreakerInv, BreakerTypeOK, OneProbeAtATime, ProbeRaisesFlag
<1> QED
  BY <1>3, <1>4, <1>5 DEF BreakerInv

LEMMA BreakerNextInv == BreakerInv /\ [BreakerNext]_breakerVars => BreakerInv'
<1> SUFFICES ASSUME BreakerInv, [BreakerNext]_breakerVars PROVE BreakerInv'
  OBVIOUS
<1> USE OpenThresholdAssumption
<1>1. ASSUME NEW c \in Call, Admit(c) PROVE BreakerInv'
  BY <1>1 DEF BreakerInv, Admit, Becomes, BreakerTypeOK, TripsOnThreshold, OneProbeAtATime,
              ProbeRaisesFlag, Running, Settled
<1>2. ASSUME NEW c \in Call, RejectOpen(c) PROVE BreakerInv'
  BY <1>2 DEF BreakerInv, RejectOpen, Becomes, BreakerTypeOK, TripsOnThreshold, OneProbeAtATime,
              ProbeRaisesFlag, Running, Settled
<1>3. ASSUME NEW c \in Call, Probe(c) PROVE BreakerInv'
  <2>1. BreakerTypeOK' /\ TripsOnThreshold'
    BY <1>3 DEF BreakerInv, Probe, HalfOpen, Becomes, BreakerTypeOK, TripsOnThreshold, Running, Settled
  <2>2. \A b \in Call : call[b] # "probe"
    BY <1>3 DEF BreakerInv, Probe, ProbeRaisesFlag
  <2>3. OneProbeAtATime' /\ ProbeRaisesFlag'
    BY <1>3, <2>2 DEF BreakerInv, Probe, Becomes, BreakerTypeOK, OneProbeAtATime, ProbeRaisesFlag
  <2> QED
    BY <2>1, <2>3 DEF BreakerInv
<1>4. ASSUME NEW c \in Call, RejectProbing(c) PROVE BreakerInv'
  BY <1>4 DEF BreakerInv, RejectProbing, HalfOpen, Becomes, BreakerTypeOK, TripsOnThreshold,
              OneProbeAtATime, ProbeRaisesFlag, Running, Settled
<1>5. ASSUME NEW c \in Call, Succeed(c) PROVE BreakerInv'
  BY <1>5, SuccessInv
<1>6. ASSUME NEW c \in Call, Fail(c) \/ TimeOut(c) PROVE BreakerInv'
  BY <1>6, FailureInv DEF Fail, TimeOut
<1>7. CASE ResetPeriodPasses
  BY <1>7 DEF BreakerInv, ResetPeriodPasses, BreakerTypeOK, TripsOnThreshold, OneProbeAtATime, ProbeRaisesFlag
<1>8. CASE UNCHANGED breakerVars
  BY <1>8 DEF BreakerInv, breakerVars, BreakerTypeOK, TripsOnThreshold, OneProbeAtATime, ProbeRaisesFlag
<1> QED
  BY <1>1, <1>2, <1>3, <1>4, <1>5, <1>6, <1>7, <1>8 DEF BreakerNext, Make, Settle

LEMMA BreakerInvariance == BreakerSpec => []BreakerInv
BY BreakerInitInv, BreakerNextInv, PTL DEF BreakerSpec

(* The breaker's fields keep their types: the failure counter in particular *)
(* never goes below zero.                                                   *)
THEOREM BreakerTypeCorrect == BreakerSpec => []BreakerTypeOK
BY BreakerInvariance, PTL DEF BreakerInv

(* The circuit is tripped exactly while the threshold is met, whatever the  *)
(* order in which concurrent calls settle (_onSuccess, _onFailure).         *)
THEOREM TripsExactly == BreakerSpec => []TripsOnThreshold
BY BreakerInvariance, PTL DEF BreakerInv

(* Never two test calls at once (call(), the _halfOpenProbing check).       *)
THEOREM OneProbe == BreakerSpec => []OneProbeAtATime
BY BreakerInvariance, PTL DEF BreakerInv

-----------------------------------------------------------------------------
(* The sliding windows.  NothingLeaks is inductive by itself: an entry is   *)
(* created by a thread on its way into the loop, and a thread leaves only   *)
(* through evict and forget.  UndisturbedUnlessShared needs to know who can *)
(* touch a window: its registry entry (Registered) and the threads that     *)
(* hold it (Holders), all of one session, and two served streams of a       *)
(* session share it (Sharing).                                              *)

Sharing ==
  \A t, u \in Stream :
    (t # u /\ SessionOf[t] = SessionOf[u] /\ pc[t] \in Served /\ pc[u] \in Served)
      => t \in shared

Registered ==
  /\ \A s \in Session : windows[s] \notin closed
  /\ \A r, s \in Session : windows[r] = windows[s] /\ windows[r] # NoWindow => r = s

Holders ==
  /\ \A t \in Stream : window[t] # NoWindow => pc[t] \in Served \ Cleaning
  /\ \A t \in Stream : pc[t] \in {"push", "infer", "score", "reset"} => window[t] # NoWindow
  /\ \A t, u \in Stream :
       window[t] = window[u] /\ window[t] # NoWindow => SessionOf[t] = SessionOf[u]
  /\ \A t \in Stream, s \in Session :
       window[t] = windows[s] /\ window[t] # NoWindow => SessionOf[t] = s

IInv ==
  /\ TypeOK /\ NothingLeaks /\ Sharing /\ Registered /\ Holders
  /\ UndisturbedUnlessShared

LEMMA InitInv == Init => IInv
<1> SUFFICES ASSUME Init PROVE IInv
  OBVIOUS
<1> USE SessionOfAssumption, NoWindowAssumption, WindowSizeAssumption, BoundsAssumption
<1>1. TypeOK
  BY DEF Init, TypeOK
<1>2. NothingLeaks /\ Sharing
  BY DEF Init, NothingLeaks, Sharing, Served, InLoop, Cleaning
<1>3. Registered /\ Holders /\ UndisturbedUnlessShared
  BY DEF Init, Registered, Holders, UndisturbedUnlessShared, Served, InLoop, Cleaning, At
<1> QED
  BY <1>1, <1>2, <1>3 DEF IInv

(* A thread that only moves on, within the loop or towards its end, and     *)
(* changes neither a window nor the registry.                               *)
LEMMA MoveInv ==
  ASSUME IInv, NEW t \in Stream, NEW step, GoTo(t, step),
         \/ pc[t] = "queued" /\ step = "first"
         \/ pc[t] = "first" /\ step = "done"
         \/ pc[t] = "infer" /\ step = "score" /\ length[window[t]] = WindowSize,
         UNCHANGED <<window, heap, windows, ema, orphans, gone, counters, history>>
  PROVE  IInv'
<1> USE SessionOfAssumption, NoWindowAssumption DEF IInv, heap, counters, history
<1>1. TypeOK'
  BY DEF TypeOK, GoTo, Served, InLoop, Cleaning
<1>2. NothingLeaks'
  BY DEF TypeOK, NothingLeaks, GoTo, Served, InLoop, Cleaning
<1>3. Sharing'
  BY DEF TypeOK, Sharing, GoTo, Served, InLoop, Cleaning
<1>4. Registered'
  BY DEF Registered
<1>5. Holders'
  BY DEF TypeOK, Holders, GoTo, Served, InLoop, Cleaning
<1>6. UndisturbedUnlessShared'
  BY DEF TypeOK, UndisturbedUnlessShared, GoTo, InLoop, At
<1> QED
  BY <1>1, <1>2, <1>3, <1>4, <1>5, <1>6

LEMMA AcceptInv == ASSUME IInv, NEW t \in Stream, Accept(t) PROVE IInv'
BY MoveInv DEF Accept, At

(* A thread that leaves the loop keeps no window and still cleans up. *)
LEMMA LeaveLoopInv ==
  ASSUME IInv, NEW t \in Stream, LeaveLoop(t), pc[t] \in InLoop \union {"first"},
         ema' = ema \/ ema' = ema \union {SessionOf[t]},
         UNCHANGED <<heap, windows, orphans, gone, reaps, reaped, dropped>>,
         shared \subseteq shared', shared' \subseteq Stream, Sharing'
  PROVE  IInv'
<1> USE SessionOfAssumption, NoWindowAssumption, BoundsAssumption DEF IInv, LeaveLoop, GoTo, heap
<1>1. TypeOK'
  <2>0. 0 \in 0..MaxEvents
    OBVIOUS
  <2>1. events' \in [Stream -> 0..MaxEvents]
    BY <2>0 DEF TypeOK
  <2>2. ema' \subseteq Session
    <3>1. SessionOf[t] \in Session /\ ema \subseteq Session
      BY DEF TypeOK
    <3>2. ema' \subseteq ema \union {SessionOf[t]}
      OBVIOUS
    <3> QED
      BY <3>1, <3>2
  <2>3. window' \in [Stream -> Window \union {NoWindow}]
    BY DEF TypeOK
  <2> QED
    BY <2>1, <2>2, <2>3 DEF TypeOK, Served, InLoop, Cleaning
<1>2. NothingLeaks'
  BY DEF TypeOK, NothingLeaks, Served, InLoop, Cleaning
<1>3. Registered' /\ Holders'
  BY DEF TypeOK, Registered, Holders, Served, InLoop, Cleaning
<1>4. UndisturbedUnlessShared'
  BY DEF TypeOK, UndisturbedUnlessShared, InLoop, At
<1> QED
  BY <1>1, <1>2, <1>3, <1>4

(* Within the loop it shares its session with no one it did not before. *)
LEMMA SharingKept ==
  ASSUME IInv, NEW t \in Stream, pc[t] \in InLoop, LeaveLoop(t), UNCHANGED shared
  PROVE  Sharing'
BY DEF IInv, TypeOK, Sharing, LeaveLoop, GoTo, Served, InLoop, Cleaning

LEMMA GetArrayInv == ASSUME IInv, NEW t \in Stream, GetArray(t) PROVE IInv'
<1>0. pc[t] = "infer" /\ pc[t] \in InLoop
  BY DEF GetArray, At, InLoop
<1>1. CASE length[window[t]] = WindowSize /\ GoTo(t, "score") /\ UNCHANGED <<window, events>>
  BY <1>0, <1>1, MoveInv DEF GetArray, counters
<1>2. CASE LeaveLoop(t)
  <2>1. shared \subseteq Stream
    BY DEF IInv, TypeOK
  <2> QED
    BY <1>0, <1>2, <2>1, SharingKept, LeaveLoopInv DEF GetArray, history
<1> QED
  BY <1>1, <1>2 DEF GetArray

LEMMA StreamEndsInv == ASSUME IInv, NEW t \in Stream, StreamEnds(t) PROVE IInv'
<1>1. CASE At(t, "first") /\ GoTo(t, "done") /\ UNCHANGED <<window, events>>
  BY <1>1, MoveInv DEF StreamEnds, At, counters
<1>2. CASE At(t, "next") /\ LeaveLoop(t)
  <2>1. pc[t] \in InLoop /\ shared \subseteq Stream
    BY <1>2 DEF At, InLoop, IInv, TypeOK
  <2> QED
    BY <1>2, <2>1, SharingKept, LeaveLoopInv DEF StreamEnds, history
<1> QED
  BY <1>1, <1>2 DEF StreamEnds

(* The window that get_or_create returns is the registered one; a new one   *)
(* is nobody else's.                                                        *)
LEMMA NextEventInv == ASSUME IInv, NEW t \in Stream, NextEvent(t) PROVE IInv'
<1> DEFINE s == SessionOf[t]
<1> USE SessionOfAssumption, NoWindowAssumption, WindowSizeAssumption
<1>a. s \in Session /\ pc[t] \in {"first", "next"}
  BY DEF NextEvent
<1>b. \/ LeaveLoop(t) /\ UNCHANGED <<heap, windows>>
      \/ /\ GetOrCreate(t, s)
         /\ pc' = [pc EXCEPT ![t] = "push"]
         /\ events' \in [Stream -> 0..MaxEvents]
  BY BoundsAssumption DEF NextEvent, GoTo, IInv, TypeOK
<1>c. /\ shared \subseteq shared' /\ shared' \subseteq Stream
      /\ \A u \in Stream : pc[t] = "first" /\ u # t /\ SessionOf[u] = s /\ pc[u] \in Served
           => u \in shared' /\ t \in shared'
  BY DEF NextEvent, Siblings, At, IInv, TypeOK
<1>d. UNCHANGED <<ema, orphans, gone, reaps, reaped, dropped>>
  BY DEF NextEvent
<1>e. Sharing'
  <2>1. pc' = [pc EXCEPT ![t] = "push"] \/ pc' = [pc EXCEPT ![t] = "evict"]
    BY <1>b DEF LeaveLoop, GoTo
  <2> QED
    BY <2>1, <1>a, <1>c DEF IInv, TypeOK, Sharing, Served, InLoop, Cleaning
<1>0. CASE LeaveLoop(t) /\ UNCHANGED <<heap, windows>>
  BY <1>0, <1>a, <1>c, <1>d, <1>e, LeaveLoopInv DEF InLoop
<1> DEFINE handled == pc' = [pc EXCEPT ![t] = "push"] /\ events' \in [Stream -> 0..MaxEvents]
<1>1. CASE /\ handled
           /\ windows[s] # NoWindow
           /\ window' = [window EXCEPT ![t] = windows[s]]
           /\ UNCHANGED <<windows, heap>>
  <2> USE <1>1, <1>a, <1>c, <1>d DEF IInv, heap
  <2>1. TypeOK'
    BY DEF TypeOK, Served, InLoop, Cleaning
  <2>2. NothingLeaks'
    BY DEF TypeOK, NothingLeaks, Served, InLoop, Cleaning
  <2>3. Registered'
    BY DEF Registered
  <2>4. Holders'
    BY DEF TypeOK, Registered, Holders, Served, InLoop, Cleaning
  <2>5. UndisturbedUnlessShared'
    BY DEF TypeOK, Registered, UndisturbedUnlessShared, InLoop, At
  <2> QED
    BY <1>e, <2>1, <2>2, <2>3, <2>4, <2>5
<1>2. ASSUME NEW w \in Window, Unused(w), windows[s] = NoWindow, handled,
             windows' = [windows EXCEPT ![s] = w],
             window' = [window EXCEPT ![t] = w],
             length' = [length EXCEPT ![w] = 0],
             closed' = closed \ {w},
             idle' = idle \ {w}
      PROVE  IInv'
  <2> USE <1>2, <1>a, <1>c, <1>d DEF IInv
  <2>0. /\ \A r \in Session : windows[r] # w
        /\ \A u \in Stream : window[u] # w
    BY DEF Unused
  <2>1. TypeOK'
    <3>1. length' \in [Window -> 0..WindowSize]
      BY DEF TypeOK
    <3>2. windows' \in [Session -> Window \union {NoWindow}]
      BY DEF TypeOK
    <3>3. window' \in [Stream -> Window \union {NoWindow}]
      BY DEF TypeOK
    <3> QED
      BY <3>1, <3>2, <3>3 DEF TypeOK, Served, InLoop, Cleaning
  <2>2. NothingLeaks'
    BY DEF TypeOK, NothingLeaks, Served, InLoop, Cleaning
  <2>3. Registered'
    BY <2>0 DEF TypeOK, Registered
  <2>4. Holders'
    BY <2>0 DEF TypeOK, Holders, Served, InLoop, Cleaning
  <2>5. UndisturbedUnlessShared'
    <3> SUFFICES ASSUME NEW u \in Stream, u \notin shared' \union reaped'
                 PROVE  /\ pc'[u] \in InLoop => windows'[SessionOf[u]] # NoWindow
                        /\ window'[u] # NoWindow =>
                             /\ windows'[SessionOf[u]] = window'[u]
                             /\ window'[u] \notin closed'
                        /\ pc'[u] = "infer" => length'[window'[u]] = WindowSize
                        /\ u \notin dropped'
      BY DEF UndisturbedUnlessShared, At
    <3>1. CASE u = t
      BY <3>1, <2>0 DEF TypeOK, UndisturbedUnlessShared
    <3>2. CASE u # t
      <4>1. pc'[u] = pc[u] /\ window'[u] = window[u]
        BY <3>2 DEF TypeOK
      <4>2. window[u] # w
        BY <2>0
      <4>3. pc[u] = "infer" => window[u] \in Window
        BY DEF TypeOK, Holders
      <4>4. pc[u] = "infer" => length'[window[u]] = length[window[u]]
        BY <4>2, <4>3 DEF TypeOK
      <4> QED
        BY <4>1, <4>2, <4>4 DEF TypeOK, UndisturbedUnlessShared, At
    <3> QED
      BY <3>1, <3>2
  <2> QED
    BY <1>e, <2>1, <2>2, <2>3, <2>4, <2>5
<1>3. CASE /\ handled /\ GetOrCreate(t, s)
           /\ windows[s] = NoWindow /\ \E w \in Window : Unused(w)
  <2> DEFINE w == CHOOSE x \in Window : Unused(x)
  <2>0. windows[s] = NoWindow
    BY <1>3
  <2>1. w \in Window /\ Unused(w)
    BY <1>3
  <2>2. /\ windows' = [windows EXCEPT ![s] = w]
        /\ window' = [window EXCEPT ![t] = w]
        /\ length' = [length EXCEPT ![w] = 0]
        /\ closed' = closed \ {w}
        /\ idle' = idle \ {w}
    BY <1>3 DEF GetOrCreate
  <2> HIDE DEF w
  <2> QED
    BY <1>2, <1>3, <2>0, <2>1, <2>2
<1> QED
  BY <1>b, <1>0, <1>1, <1>3 DEF GetOrCreate

(* Only the holders of a window change its length, and they share it.       *)
LEMMA PushInv == ASSUME IInv, NEW t \in Stream, Push(t) PROVE IInv'
<1> DEFINE w == window[t]
           after == IF length[w] = WindowSize THEN WindowSize ELSE length[w] + 1
<1> USE SessionOfAssumption, NoWindowAssumption, WindowSizeAssumption
<1>0. pc[t] = "push" /\ w \in Window /\ pc[t] \in Served
  BY DEF Push, At, IInv, TypeOK, Holders, Served, InLoop
<1>1. /\ pc' \in {[pc EXCEPT ![t] = "infer"], [pc EXCEPT ![t] = "next"]}
      /\ window' = [window EXCEPT ![t] = IF pc'[t] = "next" THEN NoWindow ELSE @]
      /\ UNCHANGED <<closed, windows, ema, orphans, gone, counters, shared, reaped>>
  BY DEF Push, GoTo
<1>2. /\ idle' \subseteq idle
      /\ \/ /\ w \in closed /\ pc'[t] = "next" /\ length' = length
            /\ dropped' = dropped \union {t}
         \/ /\ w \notin closed /\ dropped' = dropped
            /\ length' = [length EXCEPT ![w] = after]
            /\ pc'[t] = "infer" => after = WindowSize
  BY <1>0 DEF Push, GoTo, IInv, TypeOK
<1>3. TypeOK'
  <2>1. length' \in [Window -> 0..WindowSize]
    BY <1>0, <1>2 DEF IInv, TypeOK
  <2>2. window' \in [Stream -> Window \union {NoWindow}]
    BY <1>1 DEF IInv, TypeOK
  <2> QED
    BY <1>1, <1>2, <2>1, <2>2 DEF IInv, TypeOK, Served, InLoop, Cleaning, counters
<1>4. NothingLeaks'
  BY <1>0, <1>1 DEF IInv, TypeOK, NothingLeaks, Served, InLoop, Cleaning
<1>5. Sharing' /\ Registered'
  BY <1>0, <1>1 DEF IInv, TypeOK, Sharing, Registered, Served, InLoop, Cleaning
<1>6. Holders'
  BY <1>0, <1>1 DEF IInv, TypeOK, Holders, Served, InLoop, Cleaning
<1>7. UndisturbedUnlessShared'
  <2> SUFFICES ASSUME NEW u \in Stream, u \notin shared \union reaped
               PROVE  /\ pc'[u] \in InLoop => windows[SessionOf[u]] # NoWindow
                      /\ window'[u] # NoWindow =>
                           /\ windows[SessionOf[u]] = window'[u]
                           /\ window'[u] \notin closed
                      /\ pc'[u] = "infer" => length'[window'[u]] = WindowSize
                      /\ u \notin dropped'
    BY <1>1 DEF UndisturbedUnlessShared, At
  <2>1. CASE u = t
    <3>1. w \notin closed
      BY <2>1, <1>0 DEF IInv, UndisturbedUnlessShared
    <3>2. /\ pc'[t] = "infer" => length'[w] = WindowSize
          /\ dropped' = dropped
      BY <1>0, <1>2, <3>1 DEF IInv, TypeOK
    <3>3. pc[t] \in InLoop
      BY <1>0 DEF InLoop
    <3>4. pc'[t] = "infer" => window'[t] = w
      BY <1>1 DEF IInv, TypeOK
    <3>5. window'[t] \in {w, NoWindow}
      BY <1>1 DEF IInv, TypeOK
    <3> QED
      BY <2>1, <1>0, <3>1, <3>2, <3>3, <3>4, <3>5 DEF IInv, UndisturbedUnlessShared
  <2>2. CASE u # t
    <3>1. pc'[u] = pc[u] /\ window'[u] = window[u]
      BY <2>2, <1>1 DEF IInv, TypeOK
    <3>2. window[u] # w
      <4>1. SUFFICES ASSUME window[u] = w PROVE FALSE
        OBVIOUS
      <4>2. SessionOf[u] = SessionOf[t] /\ pc[u] \in Served
        BY <4>1, <1>0 DEF IInv, Holders
      <4> QED
        BY <4>2, <2>2, <1>0 DEF IInv, Sharing
    <3>3. pc[u] = "infer" => window[u] \in Window
      BY DEF IInv, TypeOK, Holders
    <3>4. pc[u] = "infer" => length'[window[u]] = length[window[u]]
      BY <1>2, <3>2, <3>3 DEF IInv, TypeOK
    <3>5. u \notin dropped'
      BY <2>2, <1>2 DEF IInv, UndisturbedUnlessShared
    <3> QED
      BY <3>1, <3>4, <3>5 DEF IInv, UndisturbedUnlessShared, At
  <2> QED
    BY <2>1, <2>2
<1> QED
  BY <1>3, <1>4, <1>5, <1>6, <1>7 DEF IInv

LEMMA PredictInv == ASSUME IInv, NEW t \in Stream, Predict(t) PROVE IInv'
<1> USE SessionOfAssumption, NoWindowAssumption
<1>0. /\ pc[t] = "score" /\ ema' = ema \union {SessionOf[t]}
      /\ UNCHANGED <<heap, windows, orphans, gone, reaps, history>>
  BY DEF Predict, At
<1>1. CASE LeaveLoop(t)
  <2>1. pc[t] \in InLoop /\ shared \subseteq Stream
    BY <1>0 DEF InLoop, IInv, TypeOK
  <2> QED
    BY <1>0, <1>1, <2>1, SharingKept, LeaveLoopInv DEF history
<1>2. CASE GoTo(t, "reset") /\ UNCHANGED <<window, events>>
  <2> USE <1>0, <1>2 DEF IInv, GoTo, heap, history
  <2>1. TypeOK'
    BY DEF TypeOK, Served, InLoop, Cleaning
  <2>2. NothingLeaks'
    BY DEF TypeOK, NothingLeaks, Served, InLoop, Cleaning
  <2>3. Sharing' /\ Registered'
    BY DEF TypeOK, Sharing, Registered, Served, InLoop, Cleaning
  <2>4. Holders'
    BY DEF TypeOK, Holders, Served, InLoop, Cleaning
  <2>5. UndisturbedUnlessShared'
    BY DEF TypeOK, UndisturbedUnlessShared, InLoop, At
  <2> QED
    BY <2>1, <2>2, <2>3, <2>4, <2>5
<1> QED
  BY <1>1, <1>2 DEF Predict

LEMMA ResetInv == ASSUME IInv, NEW t \in Stream, Reset(t) PROVE IInv'
<1> DEFINE w == window[t]
           half == WindowSize \div 2
<1> USE SessionOfAssumption, NoWindowAssumption, WindowSizeAssumption
<1>0. pc[t] = "reset" /\ w \in Window /\ pc[t] \in Served
  BY DEF Reset, At, IInv, TypeOK, Holders, Served, InLoop
<1>1. /\ pc' = [pc EXCEPT ![t] = "next"]
      /\ window' = [window EXCEPT ![t] = NoWindow]
      /\ length' = [length EXCEPT ![w] = IF @ > half THEN @ - half ELSE 0]
      /\ UNCHANGED <<closed, idle, windows, ema, orphans, gone, counters, history>>
  BY DEF Reset, GoTo
<1>2. TypeOK'
  <2>1. half \in Nat
    OBVIOUS
  <2>2. length' \in [Window -> 0..WindowSize]
    <3> HIDE DEF half
    <3> QED
      BY <1>0, <1>1, <2>1 DEF IInv, TypeOK
  <2> QED
    BY <1>1, <2>2 DEF IInv, TypeOK, Served, InLoop, Cleaning, counters, history
<1>3. NothingLeaks'
  BY <1>0, <1>1 DEF IInv, TypeOK, NothingLeaks, Served, InLoop, Cleaning
<1>4. Sharing' /\ Registered'
  BY <1>0, <1>1 DEF IInv, TypeOK, Sharing, Registered, Served, InLoop, Cleaning, history
<1>5. Holders'
  BY <1>0, <1>1 DEF IInv, TypeOK, Holders, Served, InLoop, Cleaning
<1>6. UndisturbedUnlessShared'
  <2> SUFFICES ASSUME NEW u \in Stream, u \notin shared \union reaped
               PROVE  /\ pc'[u] \in InLoop => windows[SessionOf[u]] # NoWindow
                      /\ window'[u] # NoWindow =>
                           /\ windows[SessionOf[u]] = window'[u]
                           /\ window'[u] \notin closed
                      /\ pc'[u] = "infer" => length'[window'[u]] = WindowSize
                      /\ u \notin dropped
    BY <1>1 DEF UndisturbedUnlessShared, At, history
  <2>1. CASE u = t
    BY <2>1, <1>0, <1>1 DEF IInv, TypeOK, UndisturbedUnlessShared, InLoop
  <2>2. CASE u # t
    <3>1. pc'[u] = pc[u] /\ window'[u] = window[u]
      BY <2>2, <1>1 DEF IInv, TypeOK
    <3>2. window[u] # w
      <4>1. SUFFICES ASSUME window[u] = w PROVE FALSE
        OBVIOUS
      <4>2. SessionOf[u] = SessionOf[t] /\ pc[u] \in Served
        BY <4>1, <1>0 DEF IInv, Holders
      <4> QED
        BY <4>2, <2>2, <1>0 DEF IInv, Sharing
    <3>3. pc[u] = "infer" => window[u] \in Window
      BY DEF IInv, TypeOK, Holders
    <3>4. pc[u] = "infer" => length'[window[u]] = length[window[u]]
      BY <1>1, <3>2, <3>3 DEF IInv, TypeOK
    <3> QED
      BY <3>1, <3>4 DEF IInv, UndisturbedUnlessShared, At
  <2> QED
    BY <2>1, <2>2
<1> QED
  BY <1>2, <1>3, <1>4, <1>5, <1>6 DEF IInv

(* What an eviction leaves of the registry. *)
LEMMA EvictionKeeps ==
  ASSUME IInv, NEW s \in Session, EvictSession(s)
  PROVE  /\ windows' \in [Session -> Window \union {NoWindow}]
         /\ closed' \subseteq Window
         /\ Registered'
         /\ \A r \in Session \ {s} : windows'[r] = windows[r]
         /\ windows'[s] = NoWindow
         /\ closed' = closed \union ({windows[s]} \ {NoWindow})
         /\ idle' \subseteq Window
BY NoWindowAssumption DEF IInv, TypeOK, EvictSession, Registered

LEMMA EvictInv == ASSUME IInv, NEW t \in Stream, Evict(t) PROVE IInv'
<1> DEFINE s == SessionOf[t]
<1> USE SessionOfAssumption, NoWindowAssumption
<1>0. s \in Session /\ pc[t] = "evict" /\ pc[t] \in Served
  BY DEF Evict, At, Served, Cleaning
<1>1. /\ pc' = [pc EXCEPT ![t] = "forget"]
      /\ UNCHANGED <<window, length, ema, orphans, gone, counters, history>>
  BY DEF Evict, GoTo
<1>2. /\ windows' \in [Session -> Window \union {NoWindow}]
      /\ closed' \subseteq Window
      /\ Registered'
      /\ \A r \in Session \ {s} : windows'[r] = windows[r]
      /\ windows'[s] = NoWindow
      /\ closed' = closed \union ({windows[s]} \ {NoWindow})
      /\ idle' \subseteq Window
  BY <1>0, EvictionKeeps DEF Evict
<1>3. TypeOK'
  BY <1>1, <1>2 DEF IInv, TypeOK, Served, InLoop, Cleaning, counters, history
<1>4. NothingLeaks'
  BY <1>0, <1>1, <1>2 DEF IInv, TypeOK, NothingLeaks, Served, InLoop, Cleaning
<1>5. Sharing'
  BY <1>0, <1>1 DEF IInv, TypeOK, Sharing, Served, InLoop, Cleaning, history
<1>6. Holders'
  BY <1>0, <1>1, <1>2 DEF IInv, TypeOK, Holders, Served, InLoop, Cleaning
<1>7. UndisturbedUnlessShared'
  <2> SUFFICES ASSUME NEW u \in Stream, u \notin shared \union reaped
               PROVE  /\ pc'[u] \in InLoop => windows'[SessionOf[u]] # NoWindow
                      /\ window'[u] # NoWindow =>
                           /\ windows'[SessionOf[u]] = window'[u]
                           /\ window'[u] \notin closed'
                      /\ pc'[u] = "infer" => length[window'[u]] = WindowSize
                      /\ u \notin dropped
    BY <1>1 DEF UndisturbedUnlessShared, At, history
  <2>1. CASE u = t
    <3>1. window[t] = NoWindow
      BY <1>0 DEF IInv, Holders, Cleaning
    <3> QED
      BY <2>1, <3>1, <1>0, <1>1 DEF IInv, TypeOK, UndisturbedUnlessShared, InLoop
  <2>2. CASE u # t /\ pc[u] \in Served
    <3>1. SessionOf[u] # s
      BY <2>2, <1>0 DEF IInv, Sharing
    <3>2. windows'[SessionOf[u]] = windows[SessionOf[u]]
      BY <3>1, <1>2
    <3>3. window[u] # NoWindow => window[u] # windows[s]
      BY <3>1, <1>0 DEF IInv, Holders
    <3>4. pc'[u] = pc[u] /\ window'[u] = window[u]
      BY <2>2, <1>1 DEF IInv, TypeOK
    <3>5. window[u] # NoWindow => window[u] \notin closed'
      BY <1>2, <3>3 DEF IInv, UndisturbedUnlessShared
    <3> QED
      BY <3>2, <3>4, <3>5 DEF IInv, UndisturbedUnlessShared, At
  <2>3. CASE u # t /\ pc[u] \notin Served
    <3>1. pc'[u] = pc[u] /\ window'[u] = window[u]
      BY <2>3, <1>1 DEF IInv, TypeOK
    <3>2. window[u] = NoWindow
      BY <2>3 DEF IInv, Holders
    <3> QED
      BY <2>3, <3>1, <3>2 DEF IInv, UndisturbedUnlessShared, Served, InLoop
  <2> QED
    BY <2>1, <2>2, <2>3
<1> QED
  BY <1>2, <1>3, <1>4, <1>5, <1>6, <1>7 DEF IInv

LEMMA ForgetInv == ASSUME IInv, NEW t \in Stream, Forget(t) PROVE IInv'
<1> USE SessionOfAssumption, NoWindowAssumption
<1>0. /\ pc[t] = "forget" /\ pc' = [pc EXCEPT ![t] = "done"]
      /\ ema' = ema \ {SessionOf[t]}
      /\ gone' = gone \union {t}
      /\ UNCHANGED <<window, heap, windows, orphans, counters, history>>
  BY DEF Forget, GoTo, At
<1>1. TypeOK'
  BY <1>0 DEF IInv, TypeOK, Served, InLoop, Cleaning, heap, counters, history
<1>2. NothingLeaks'
  BY <1>0 DEF IInv, TypeOK, NothingLeaks, Served, InLoop, Cleaning
<1>3. Sharing' /\ Registered'
  BY <1>0 DEF IInv, TypeOK, Sharing, Registered, Served, InLoop, Cleaning, heap, history
<1>4. window[t] = NoWindow
  BY <1>0 DEF IInv, Holders, Cleaning
<1>5. Holders'
  BY <1>0 DEF IInv, TypeOK, Holders, Served, InLoop, Cleaning
<1>6. UndisturbedUnlessShared'
  BY <1>0 DEF IInv, TypeOK, UndisturbedUnlessShared, InLoop, At, heap, history
<1> QED
  BY <1>1, <1>2, <1>3, <1>5, <1>6 DEF IInv

(* The reaper takes a session's window from whoever is served with it, and  *)
(* the history variable says from whom.                                     *)
LEMMA ReapInv == ASSUME IInv, NEW s \in Session, Reap(s) PROVE IInv'
<1> USE SessionOfAssumption, NoWindowAssumption
<1>1. /\ UNCHANGED <<pc, window, length, ema, gone, counters, shared, dropped>>
      /\ orphans' \subseteq orphans
      /\ reaped' = reaped \union OwnersOf(s)
  BY DEF Reap
<1>2. /\ windows' \in [Session -> Window \union {NoWindow}]
      /\ closed' \subseteq Window
      /\ Registered'
      /\ \A r \in Session \ {s} : windows'[r] = windows[r]
      /\ windows'[s] = NoWindow
      /\ closed' = closed \union ({windows[s]} \ {NoWindow})
      /\ idle' \subseteq Window
  BY EvictionKeeps DEF Reap
<1>3. TypeOK'
  BY <1>1, <1>2 DEF IInv, TypeOK, OwnersOf, counters
<1>4. NothingLeaks' /\ Sharing'
  BY <1>1, <1>2 DEF IInv, TypeOK, NothingLeaks, Sharing
<1>5. Holders'
  BY <1>1, <1>2 DEF IInv, TypeOK, Holders
<1>6. UndisturbedUnlessShared'
  <2> SUFFICES ASSUME NEW u \in Stream, u \notin shared \union reaped'
               PROVE  /\ pc[u] \in InLoop => windows'[SessionOf[u]] # NoWindow
                      /\ window[u] # NoWindow =>
                           /\ windows'[SessionOf[u]] = window[u]
                           /\ window[u] \notin closed'
                      /\ pc[u] = "infer" => length[window[u]] = WindowSize
                      /\ u \notin dropped
    BY <1>1 DEF UndisturbedUnlessShared, At
  <2>1. u \notin shared \union reaped /\ u \notin OwnersOf(s)
    BY <1>1
  <2>2. CASE pc[u] \in Served
    <3>1. SessionOf[u] # s
      BY <2>1, <2>2 DEF OwnersOf
    <3>2. windows'[SessionOf[u]] = windows[SessionOf[u]]
      BY <3>1, <1>2
    <3>3. window[u] # NoWindow => window[u] # windows[s]
      BY <3>1 DEF IInv, Holders
    <3> QED
      BY <1>2, <2>1, <3>2, <3>3 DEF IInv, UndisturbedUnlessShared, At
  <2>3. CASE pc[u] \notin Served
    <3>1. window[u] = NoWindow /\ pc[u] \notin InLoop
      BY <2>3 DEF IInv, Holders, Served
    <3>2. pc[u] # "infer"
      BY <3>1 DEF InLoop
    <3> QED
      BY <2>1, <3>1, <3>2 DEF IInv, UndisturbedUnlessShared
  <2> QED
    BY <2>2, <2>3
<1> QED
  BY <1>2, <1>3, <1>4, <1>5, <1>6 DEF IInv

(* Steps that only mark: a gateway leaves, time passes, the sweep. *)
LEMMA MarkInv ==
  ASSUME IInv,
         UNCHANGED <<pc, window, length, closed, windows, ema, events, history>>,
         idle' \subseteq Window, gone' \subseteq Stream, orphans' \subseteq Session,
         reaps' \in 0..MaxReaps
  PROVE  IInv'
<1> USE DEF IInv, history
<1>1. TypeOK' /\ NothingLeaks' /\ Sharing'
  BY DEF TypeOK, NothingLeaks, Sharing
<1>2. Registered' /\ Holders'
  BY DEF Registered, Holders
<1>3. UndisturbedUnlessShared'
  BY DEF UndisturbedUnlessShared, At
<1> QED
  BY <1>1, <1>2, <1>3

LEMMA LeaveInv == ASSUME IInv, NEW t \in Stream, Leave(t) PROVE IInv'
BY MarkInv DEF Leave, IInv, TypeOK, heap, counters, history

LEMMA GrowIdleInv == ASSUME IInv, NEW s \in Session, GrowIdle(s) PROVE IInv'
<1>1. idle' \subseteq Window /\ reaps' \in 0..MaxReaps
  BY BoundsAssumption DEF GrowIdle, IInv, TypeOK
<1> QED
  BY <1>1, MarkInv DEF GrowIdle, IInv, TypeOK, history

LEMMA SweepInv == ASSUME IInv, Sweep PROVE IInv'
BY MarkInv DEF Sweep, IInv, TypeOK, heap, counters, history

LEMMA NextInv == IInv /\ [Next]_vars => IInv'
<1> SUFFICES ASSUME IInv, [Next]_vars PROVE IInv'
  OBVIOUS
<1>1. ASSUME NEW t \in Stream, Thread(t) PROVE IInv'
  BY <1>1, AcceptInv, PushInv, GetArrayInv, PredictInv, ResetInv, StreamEndsInv,
     EvictInv, ForgetInv DEF Thread
<1>2. ASSUME NEW t \in Stream, NextEvent(t) PROVE IInv'
  BY <1>2, NextEventInv
<1>3. ASSUME NEW t \in Stream, Leave(t) PROVE IInv'
  BY <1>3, LeaveInv
<1>4. ASSUME NEW s \in Session, GrowIdle(s) PROVE IInv'
  BY <1>4, GrowIdleInv
<1>5. ASSUME NEW s \in Session, Reap(s) PROVE IInv'
  BY <1>5, ReapInv
<1>6. CASE Sweep
  BY <1>6, SweepInv
<1>7. CASE UNCHANGED vars
  BY <1>7, MarkInv DEF vars, IInv, TypeOK, heap, counters
<1> QED
  BY <1>1, <1>2, <1>3, <1>4, <1>5, <1>6, <1>7 DEF Next

-----------------------------------------------------------------------------
LEMMA InvHolds == Spec => []IInv
BY InitInv, NextInv, PTL DEF Spec

(* Registry, threads and counters keep their types, for any streams and any *)
(* size of a window (sliding_window.py, behavior_servicer.py).              *)
THEOREM WindowsTypeCorrect == Spec => []TypeOK
BY InvHolds, PTL DEF IInv

(* No window and no EMA state outlives the streams of its session, whatever *)
(* the reaper evicts in between (behavior_servicer.py, the finally block).  *)
THEOREM Leakless == Spec => []NothingLeaks
BY InvHolds, PTL DEF IInv

(* Who shares neither a session nor a fate with the reaper works on its     *)
(* own, open, registered window, finds it full when it asserts so and loses *)
(* no event (sliding_window.py, push, get_array and _reap_orphans).         *)
THEOREM Undisturbed == Spec => []UndisturbedUnlessShared
BY InvHolds, PTL DEF IInv
=============================================================================
