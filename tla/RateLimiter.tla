----------------------------- MODULE RateLimiter -----------------------------
(***************************************************************************)
(* rateLimitMiddleware (middleware/rateLimit.middleware.ts): a fixed-window *)
(* counter in Redis, for one endpoint and one client.  A request increments *)
(* the key, gives it a TTL if it was the first to do so, and reads the TTL; *)
(* other requests, in this process and in others, come in between.  A       *)
(* window is the life of the key, from the INCR that makes it.              *)
(***************************************************************************)
EXTENDS Naturals, FiniteSets

CONSTANTS
  Hit,          \* the requests of the client to the endpoint
  Limit         \* limit: how many may pass in a window

ASSUME LimitAssumption == IsFiniteSet(Hit) /\ Limit \in Nat \ {0}

VARIABLES
  counter,      \* the key's value, 0 while there is no key
  hasTtl,       \* whether the key will expire
  stage,        \* stage[h]: the next call of request h, or what became of it
  count,        \* count[h]: what its INCR answered
  window,       \* window[h]: the window its INCR counted in, 0 for none
  now,          \* the number of the present window (history)
  neglected     \* the one that was to set the key's TTL could not (history)

key == <<counter, hasTtl, now>>
limiterVars == <<key, stage, count, window, neglected>>

Place == {"new", "expire", "ttl", "next", "limited", "failedOpen", "crashed"}

LimiterTypeOK ==
  /\ counter \in Nat
  /\ hasTtl \in BOOLEAN
  /\ stage \in [Hit -> Place]
  /\ count \in [Hit -> Nat]
  /\ window \in [Hit -> Nat]
  /\ now \in Nat \ {0}
  /\ neglected \in BOOLEAN

LimiterInit ==
  /\ counter = 0
  /\ hasTtl = FALSE
  /\ stage = [h \in Hit |-> "new"]
  /\ count = [h \in Hit |-> 0]
  /\ window = [h \in Hit |-> 0]
  /\ now = 1
  /\ neglected = FALSE

-----------------------------------------------------------------------------
Goes(h, place) == stage' = [stage EXCEPT ![h] = place]

(* What INCR does; Redis makes the key if there is none. *)
Counts(h) ==
  /\ counter' = counter + 1
  /\ window' = [window EXCEPT ![h] = now]

\* Mutant: no request is the first, so nobody sets the TTL.
IncrOnly(h) ==
  /\ stage[h] = "new"
  /\ Counts(h)
  /\ count' = [count EXCEPT ![h] = counter + 1]
  /\ Goes(h, "ttl")
  /\ UNCHANGED <<hasTtl, now, neglected>>

Incr(h) ==
  /\ stage[h] = "new"
  /\ Counts(h)
  /\ count' = [count EXCEPT ![h] = counter + 1]
  /\ Goes(h, IF counter = 0 THEN "expire" ELSE "ttl")
  /\ UNCHANGED <<hasTtl, now, neglected>>

(* EXPIRE does nothing to a key that has gone in the meantime. *)
Expires == hasTtl' = (counter > 0)

Expire(h) ==
  /\ stage[h] = "expire"
  /\ Expires
  /\ Goes(h, "ttl")
  /\ UNCHANGED <<counter, now, count, window, neglected>>

(* redis.ttl, the headers and the verdict. *)
Decide(h) ==
  /\ stage[h] = "ttl"
  /\ Goes(h, IF count[h] > Limit THEN "limited" ELSE "next")
  /\ UNCHANGED <<key, count, window, neglected>>

(* The catch block lets a request through whose call to Redis fails; the    *)
(* call may have taken effect all the same.                                 *)
FailOpen(h) ==
  /\ Goes(h, "failedOpen")
  /\ \/ /\ stage[h] \in {"new", "ttl"}
        /\ UNCHANGED <<key, count, window, neglected>>
     \/ /\ stage[h] = "new"
        /\ Counts(h)
        /\ neglected' = (neglected \/ counter = 0)
        /\ UNCHANGED <<hasTtl, now, count>>
     \/ /\ stage[h] = "expire"
        /\ Expires
        /\ UNCHANGED <<counter, now, count, window, neglected>>
     \/ /\ stage[h] = "expire"
        /\ neglected' = (neglected \/ window[h] = now)
        /\ UNCHANGED <<key, count, window>>

(* The process that serves the request ends. *)
ProcessEnds(h) ==
  /\ stage[h] \in {"expire", "ttl"}
  /\ Goes(h, "crashed")
  /\ neglected' = (neglected \/ (stage[h] = "expire" /\ window[h] = now))
  /\ UNCHANGED <<key, count, window>>

(* The key expires, or Redis loses it. *)
WindowEnds ==
  /\ counter > 0
  /\ counter' = 0
  /\ hasTtl' = FALSE
  /\ now' = now + 1
  /\ neglected' = FALSE
  /\ UNCHANGED <<stage, count, window>>

LimiterNext ==
  \/ \E h \in Hit : Incr(h) \/ Expire(h) \/ Decide(h) \/ FailOpen(h) \/ ProcessEnds(h)
  \/ WindowEnds

LimiterSpec == LimiterInit /\ [][LimiterNext]_limiterVars

-----------------------------------------------------------------------------
CountedIn(w) == {h \in Hit : window[h] = w}

(* "if count > limit -> 429": of the requests that counted in one window,   *)
(* at most Limit pass the verdict ...                                        *)
WithinLimit ==
  \A w \in 1 .. now : Cardinality({h \in CountedIn(w) : stage[h] = "next"}) <= Limit

(* ... and one is refused only if more than Limit counted in its window.    *)
RefusedForCause ==
  \A h \in Hit : stage[h] = "limited" => Cardinality(CountedIn(window[h])) > Limit

(* "Window resets automatically when the key expires": a key has a TTL, or  *)
(* a request of its window is about to give it one.                         *)
WindowIsTimed ==
  counter > 0 /\ ~hasTtl => \E h \in CountedIn(now) : stage[h] = "expire"

(* What the limiter's header promises of a window ("Race safety", "Window   *)
(* resets automatically"), of requests in any number of processes: its      *)
(* limit is kept, nobody is refused before, and it ends, unless the process *)
(* or the call that was to set the TTL failed (rateLimit.middleware.ts:82). *)
WindowsAreFair ==
  WithinLimit /\ RefusedForCause /\ (~neglected => WindowIsTimed)
=============================================================================
