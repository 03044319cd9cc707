--------------------------- MODULE SlidingWindows ---------------------------
(***************************************************************************)
(* The ML service: StreamEvents of behavior_servicer.py, one call per gRPC  *)
(* stream, each in a thread of the server's pool; the WindowRegistry of     *)
(* sliding_window.py with its reaper thread; the EMA state of predictor.py. *)
(*                                                                          *)
(* Windows and EMA states are kept by session id.  A session normally has   *)
(* one stream, but a stream the gateway has given up on is still served     *)
(* until its thread notices, beside the stream that replaced it.            *)
(*                                                                          *)
(* A thread may lose the processor between any two steps; what happens      *)
(* under the registry's lock is one step.  Of a window only its length is   *)
(* kept, of a score nothing.                                                *)
(***************************************************************************)
EXTENDS Naturals, FiniteSets

CONSTANTS
  Stream,           \* the calls of StreamEvents
  Session,
  SessionOf,        \* the session id that the events of a stream carry
  Window,           \* SlidingWindow objects; one that nobody refers to is reused
  NoWindow,         \* None
  WindowSize,       \* WINDOW_SIZE, 50
  MaxWorkers,       \* GRPC_MAX_WORKERS
  MaxEvents,        \* bound on the events of a stream
  MaxReaps          \* bound on the times a window is idle for ORPHAN_TTL_SECONDS

ASSUME SessionOfAssumption == SessionOf \in [Stream -> Session]
ASSUME NoWindowAssumption == NoWindow \notin Window
ASSUME WindowSizeAssumption == WindowSize \in Nat /\ WindowSize >= 2
ASSUME BoundsAssumption == MaxEvents \in Nat /\ MaxReaps \in Nat

VARIABLES
  pc,               \* pc[t]: where the thread of stream t is
  window,           \* window[t]: the local variable of that name
  length,           \* length[w]: len(_buf)
  closed,           \* the windows marked closed
  idle,             \* the registered windows with no event for
                    \* ORPHAN_TTL_SECONDS
  windows,          \* WindowRegistry._windows
  ema,              \* the sessions in Predictor._ema_state
  orphans,          \* orphan_ids of _reap_orphans
  gone,             \* the streams that are over for the gateway
  events,           \* events[t]: how many the loop of t has handled
  reaps,            \* how often a window became idle
  shared,           \* streams served together with another of their session
                    \* (history)
  reaped,           \* streams whose window the reaper took (history)
  dropped           \* streams an event of which no window took (history)

heap == <<length, closed, idle>>
history == <<shared, reaped, dropped>>
counters == <<events, reaps>>
vars == <<pc, window, heap, windows, ema, orphans, gone, counters, history>>

-----------------------------------------------------------------------------
(* Between the first event and the end of the finally block. *)
InLoop == {"push", "infer", "score", "reset", "next"}
Cleaning == {"evict", "forget"}
Served == InLoop \union Cleaning

TypeOK ==
  /\ pc \in [Stream -> {"queued", "first", "done"} \union Served]
  /\ window \in [Stream -> Window \union {NoWindow}]
  /\ length \in [Window -> 0..WindowSize]
  /\ closed \subseteq Window
  /\ idle \subseteq Window
  /\ windows \in [Session -> Window \union {NoWindow}]
  /\ ema \subseteq Session
  /\ orphans \subseteq Session
  /\ gone \subseteq Stream
  /\ events \in [Stream -> 0..MaxEvents]
  /\ reaps \in 0..MaxReaps
  /\ shared \subseteq Stream
  /\ reaped \subseteq Stream
  /\ dropped \subseteq Stream

Init ==
  /\ pc = [t \in Stream |-> "queued"]
  /\ window = [t \in Stream |-> NoWindow]
  /\ length = [w \in Window |-> 0]
  /\ closed = {}
  /\ idle = {}
  /\ windows = [s \in Session |-> NoWindow]
  /\ ema = {}
  /\ orphans = {}
  /\ gone = {}
  /\ events = [t \in Stream |-> 0]
  /\ reaps = 0
  /\ shared = {}
  /\ reaped = {}
  /\ dropped = {}

-----------------------------------------------------------------------------
At(t, step) == pc[t] = step
GoTo(t, step) == pc' = [pc EXCEPT ![t] = step]
Working == {t \in Stream : pc[t] \notin {"queued", "done"}}
Siblings(t) == {u \in Stream \ {t} : SessionOf[u] = SessionOf[t]}
OwnersOf(s) == {t \in Stream : SessionOf[t] = s /\ pc[t] \in Served}

(* The pool runs the call when a worker is free. *)
Accept(t) ==
  /\ At(t, "queued")
  /\ Cardinality(Working) < MaxWorkers
  /\ GoTo(t, "first")
  /\ UNCHANGED <<window, heap, windows, ema, orphans, gone, counters, history>>

(* No variable refers to w. *)
Unused(w) == (\A s \in Session : windows[s] # w) /\ (\A t \in Stream : window[t] # w)

(* get_or_create, under the lock. *)
GetOrCreate(t, s) ==
  \/ /\ windows[s] # NoWindow
     /\ window' = [window EXCEPT ![t] = windows[s]]
     /\ UNCHANGED <<windows, heap>>
  \/ /\ windows[s] = NoWindow
     /\ \E w \in Window : Unused(w)
     /\ LET w == CHOOSE x \in Window : Unused(x) IN
          /\ windows' = [windows EXCEPT ![s] = w]
          /\ window' = [window EXCEPT ![t] = w]
          /\ length' = [length EXCEPT ![w] = 0]
          /\ closed' = closed \ {w}
          /\ idle' = idle \ {w}

(* The loop is over, at its end or by an exception: neither its window nor   *)
(* the count of its events is used again.                                   *)
LeaveLoop(t) ==
  /\ GoTo(t, "evict")
  /\ window' = [window EXCEPT ![t] = NoWindow]
  /\ events' = [events EXCEPT ![t] = 0]

(* The next event of the iterator, its features, which may not be there to  *)
(* extract, and its window; the first event names the session.              *)
NextEvent(t) ==
  /\ pc[t] \in {"first", "next"}
  /\ t \notin gone
  /\ events[t] < MaxEvents
  /\ \/ /\ GetOrCreate(t, SessionOf[t])
        /\ events' = [events EXCEPT ![t] = @ + 1]
        /\ GoTo(t, "push")
     \/ LeaveLoop(t) /\ UNCHANGED <<heap, windows>>
  /\ LET others == {u \in Siblings(t) : pc[u] \in Served}
     IN  shared' = IF At(t, "first") /\ others # {}
                   THEN shared \union others \union {t} ELSE shared
  /\ UNCHANGED <<ema, orphans, gone, reaps, reaped, dropped>>

\* Mutant: a window is full from its first half on.
PushEarly(t) ==
  LET w == window[t]
      after == IF length[w] = WindowSize THEN WindowSize ELSE length[w] + 1
  IN
  /\ At(t, "push")
  /\ \/ /\ w \in closed
        /\ dropped' = dropped \union {t}
        /\ GoTo(t, "next")
        /\ UNCHANGED <<length, idle>>
     \/ /\ w \notin closed
        /\ length' = [length EXCEPT ![w] = after]
        /\ idle' = idle \ {w}
        /\ GoTo(t, IF 2 * after >= WindowSize THEN "infer" ELSE "next")
        /\ UNCHANGED dropped
  /\ window' = [window EXCEPT ![t] = IF pc'[t] = "next" THEN NoWindow ELSE @]
  /\ UNCHANGED <<closed, windows, ema, orphans, gone, counters, shared, reaped>>

(* push, without a lock: a closed window takes nothing; the deque drops its *)
(* oldest entry once it holds WINDOW_SIZE.                                  *)
Push(t) ==
  LET w == window[t]
      after == IF length[w] = WindowSize THEN WindowSize ELSE length[w] + 1
  IN
  /\ At(t, "push")
  /\ \/ /\ w \in closed
        /\ dropped' = dropped \union {t}
        /\ GoTo(t, "next")
        /\ UNCHANGED <<length, idle>>
     \/ /\ w \notin closed
        /\ length' = [length EXCEPT ![w] = after]
        /\ idle' = idle \ {w}
        /\ GoTo(t, IF after = WindowSize THEN "infer" ELSE "next")
        /\ UNCHANGED dropped
  /\ window' = [window EXCEPT ![t] = IF pc'[t] = "next" THEN NoWindow ELSE @]
  /\ UNCHANGED <<closed, windows, ema, orphans, gone, counters, shared, reaped>>

(* get_array, whose assertion on the shape fails when the window is not     *)
(* full, and the model's inference.                                         *)
GetArray(t) ==
  /\ At(t, "infer")
  /\ \/ length[window[t]] = WindowSize /\ GoTo(t, "score") /\ UNCHANGED <<window, events>>
     \/ LeaveLoop(t)
  /\ UNCHANGED <<heap, windows, ema, orphans, gone, reaps, history>>

(* The EMA state is stored, and the thread sleeps for the jitter. *)
Predict(t) ==
  /\ At(t, "score")
  /\ ema' = ema \union {SessionOf[t]}
  /\ \/ GoTo(t, "reset") /\ UNCHANGED <<window, events>>
     \/ LeaveLoop(t)
  /\ UNCHANGED <<heap, windows, orphans, gone, reaps, history>>

(* reset keeps the entries from WINDOW_SIZE // 2 on; the score is yielded.   *)
(* The variable is not used again before the next event replaces it.        *)
Reset(t) ==
  LET w == window[t]
      half == WindowSize \div 2
  IN
  /\ At(t, "reset")
  /\ length' = [length EXCEPT ![w] = IF @ > half THEN @ - half ELSE 0]
  /\ window' = [window EXCEPT ![t] = NoWindow]
  /\ GoTo(t, "next")
  /\ UNCHANGED <<closed, idle, windows, ema, orphans, gone, counters, history>>

(* The gateway half-closes or cancels the call, or is cut off. *)
Leave(t) ==
  /\ t \notin gone
  /\ gone' = gone \union {t}
  /\ UNCHANGED <<pc, window, heap, windows, ema, orphans, counters, history>>

\* Mutant: is_active is not asked.
StreamEndsUnasked(t) ==
  /\ t \in gone
  /\ At(t, "first")
  /\ GoTo(t, "done")
  /\ UNCHANGED <<window, heap, windows, ema, orphans, gone, counters, history>>

(* The iterator ends or fails, or is_active says no.  Without a first event *)
(* there is no session to clean up.                                         *)
StreamEnds(t) ==
  /\ t \in gone
  /\ \/ At(t, "first") /\ GoTo(t, "done") /\ UNCHANGED <<window, events>>
     \/ At(t, "next") /\ LeaveLoop(t)
  /\ UNCHANGED <<heap, windows, ema, orphans, gone, reaps, history>>

-----------------------------------------------------------------------------
(* The registry's evict, under the lock. *)
EvictSession(s) ==
  /\ windows' = [windows EXCEPT ![s] = NoWindow]
  /\ closed' = closed \union ({windows[s]} \ {NoWindow})
  /\ idle' = idle \ {windows[s]}

\* Mutant: the finally block only forgets the EMA state.
EvictNothing(t) ==
  /\ At(t, "evict")
  /\ GoTo(t, "forget")
  /\ UNCHANGED <<window, heap, windows, ema, orphans, gone, counters, history>>

(* The finally block: evict, then reset_session. *)
Evict(t) ==
  /\ At(t, "evict")
  /\ EvictSession(SessionOf[t])
  /\ GoTo(t, "forget")
  /\ UNCHANGED <<window, length, ema, orphans, gone, counters, history>>

(* The call is over, for the gateway too. *)
Forget(t) ==
  /\ At(t, "forget")
  /\ ema' = ema \ {SessionOf[t]}
  /\ gone' = gone \union {t}
  /\ GoTo(t, "done")
  /\ UNCHANGED <<window, heap, windows, orphans, counters, history>>

(* ORPHAN_TTL_SECONDS pass without an event for a registered window. *)
GrowIdle(s) ==
  /\ reaps < MaxReaps
  /\ windows[s] \in Window \ idle
  /\ idle' = idle \union {windows[s]}
  /\ reaps' = reaps + 1
  /\ UNCHANGED <<pc, window, length, closed, windows, ema, orphans, gone, events,
                 history>>

(* _reap_orphans: the sweep, under the lock. *)
Sweep ==
  /\ orphans = {}
  /\ orphans' = {s \in Session : windows[s] \in closed \union idle}
  /\ orphans' # {}
  /\ UNCHANGED <<pc, window, heap, windows, ema, gone, counters, history>>

(* ... and the evictions, each under the lock again, by session id. *)
Reap(s) ==
  /\ s \in orphans
  /\ orphans' = orphans \ {s}
  /\ EvictSession(s)
  /\ reaped' = reaped \union OwnersOf(s)
  /\ UNCHANGED <<pc, window, length, ema, gone, counters, shared, dropped>>

-----------------------------------------------------------------------------
Thread(t) ==
  \/ Accept(t) \/ Push(t) \/ GetArray(t) \/ Predict(t) \/ Reset(t)
  \/ StreamEnds(t) \/ Evict(t) \/ Forget(t)

Next ==
  \/ \E t \in Stream : Thread(t) \/ NextEvent(t) \/ Leave(t)
  \/ \E s \in Session : GrowIdle(s) \/ Reap(s)
  \/ Sweep

Spec == Init /\ [][Next]_vars

(* The operating system schedules every thread.  Nothing obliges a client   *)
(* to send an event or to leave.                                            *)
FairSpec == Spec /\ \A t \in Stream : WF_vars(Thread(t))

-----------------------------------------------------------------------------
(* The service keeps no window and no EMA state of a session without a      *)
(* stream that is being served and will still clean up, whatever the reaper *)
(* and other streams of the session do in between (behavior_servicer.py,    *)
(* the finally block; sliding_window.py, evict and get_or_create).          *)
NothingLeaks ==
  \A s \in Session :
    /\ windows[s] # NoWindow =>
         \E t \in Stream : SessionOf[t] = s /\ pc[t] \in Served \ {"forget"}
    /\ s \in ema => \E t \in Stream : SessionOf[t] = s /\ pc[t] \in Served

(* A stream that shares its session with no other and whose window the      *)
(* reaper has not taken is undisturbed: the window it works on is the       *)
(* registered one and open, it is full when get_array asserts so, and no    *)
(* event of it is dropped (sliding_window.py, push, get_array and           *)
(* _reap_orphans, which evicts by session id after releasing the lock).     *)
UndisturbedUnlessShared ==
  \A t \in Stream \ (shared \union reaped) :
    /\ pc[t] \in InLoop => windows[SessionOf[t]] # NoWindow
    /\ window[t] # NoWindow =>
         /\ windows[SessionOf[t]] = window[t]
         /\ window[t] \notin closed
    /\ At(t, "infer") => length[window[t]] = WindowSize
    /\ t \notin dropped

(* Once the gateway is gone a stream that is being served is cleaned up, and *)
(* when all are gone the streams that wait for a worker get one: no stream   *)
(* keeps its thread for ever (behavior_servicer.py, is_active and finally).  *)
StreamsDrain ==
  /\ \A t \in Stream : (t \in gone /\ ~At(t, "queued")) ~> At(t, "done")
  /\ (gone = Stream) ~> (\A t \in Stream : At(t, "done"))
=============================================================================
