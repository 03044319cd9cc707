---------------------------- MODULE VerifyRequests ----------------------------
(***************************************************************************)
(* One verification request: verifyRequest.controller.ts, which stores and  *)
(* decides it, the inboxes of its user's devices (inbox_screen.dart), and   *)
(* notifier.service.ts, which hears of the decision over Redis pub/sub and  *)
(* pushes it to the session that watches.                                   *)
(*                                                                          *)
(* Every query, publication and push is a step.  The claims are left out:   *)
(* a decision is APPROVED or REJECTED.                                      *)
(***************************************************************************)
EXTENDS Naturals, Sequences

CONSTANTS
  Decision,         \* the calls of POST .../approve and .../reject
  Device,           \* the user's devices, each with an inbox
  Watcher           \* the sessions whose WebSocket may be told

Verdict == {"APPROVED", "REJECTED"}
Nobody == "nobody"

ASSUME NobodyAssumption == Nobody \notin Watcher \union Device

VARIABLES
  row,              \* status in verification_requests; "none" before the INSERT
  due,              \* has expiresAt passed?
  call,             \* call[c]: where a decision is in its controller
  verdict,          \* verdict[c]: what it decides
  from,             \* from[c]: the device that waits for its answer
  inbox,            \* inbox[v]: what a device shows
  bus,              \* the verdicts published and not yet delivered
  pending,          \* _pending: the session that watches the request
  socket,           \* the sessions with an open socket
  told,             \* told[w]: the last verdict pushed to w
  late,             \* decisions that came in after one was answered (history)
  contested         \* did two decisions pass the check together? (history)

table == <<row, due>>
calls == <<call, verdict, from, late, contested>>
notifier == <<bus, pending, socket, told>>
vars == <<table, calls, inbox, notifier>>

Step == {"find", "expire", "update", "publish"}
Inbox == {"closed", "loading", "finding", "error", "empty", "card", "busy", "result"}

TypeOK ==
  /\ row \in {"none", "PENDING", "EXPIRED"} \union Verdict
  /\ due \in BOOLEAN
  /\ call \in [Decision -> Step \union {"idle", "answered", "refused", "failed"}]
  /\ verdict \in [Decision -> Verdict]
  /\ from \in [Decision -> Device \union {Nobody}]
  /\ inbox \in [Device -> Inbox]
  /\ bus \in Seq(Verdict)
  /\ pending \in Watcher \union {Nobody}
  /\ socket \subseteq Watcher
  /\ told \in [Watcher -> Verdict \union {"nothing"}]
  /\ late \subseteq Decision
  /\ contested \in BOOLEAN

Init ==
  /\ row = "none"
  /\ due = FALSE
  /\ call = [c \in Decision |-> "idle"]
  /\ verdict = [c \in Decision |-> "REJECTED"]
  /\ from = [c \in Decision |-> Nobody]
  /\ inbox = [v \in Device |-> "closed"]
  /\ bus = << >>
  /\ pending = Nobody
  /\ socket = {}
  /\ told = [w \in Watcher |-> "nothing"]
  /\ late = {}
  /\ contested = FALSE

-----------------------------------------------------------------------------
CallGoes(c, step, to) == call[c] = step /\ call' = [call EXCEPT ![c] = to]
InboxGoes(v, screens, to) == inbox[v] \in screens /\ inbox' = [inbox EXCEPT ![v] = to]
Answered == {c \in Decision : call[c] = "answered"}

(* postSendVerificationRequest.  Its push to the user's sockets is best     *)
(* effort, and no client listens for it.                                    *)
PostSend ==
  /\ row = "none"
  /\ row' = "PENDING"
  /\ UNCHANGED <<due, calls, inbox, notifier>>

FallDue ==
  /\ row # "none" /\ ~due
  /\ due' = TRUE
  /\ UNCHANGED <<row, calls, inbox, notifier>>

-----------------------------------------------------------------------------
(* _load: the screen is opened or refreshed, or a decision is done.  The    *)
(* cards go, and with them the flag _submitting of a call under way.        *)
Load(v) ==
  /\ InboxGoes(v, {"closed", "error", "empty", "card", "busy", "result"}, "loading")
  /\ from' = [c \in Decision |-> IF from[c] = v THEN Nobody ELSE from[c]]
  /\ UNCHANGED <<table, call, verdict, late, contested, notifier>>

\* Mutant: the UPDATE takes whatever is overdue.
ExpireAllOverdue(v) ==
  /\ \/ /\ InboxGoes(v, {"loading"}, "finding")
        /\ row' = IF due /\ row # "none" THEN "EXPIRED" ELSE row
     \/ InboxGoes(v, {"loading"}, "error") /\ UNCHANGED row
  /\ UNCHANGED <<due, calls, notifier>>

(* getPendingRequests: what is PENDING and overdue becomes EXPIRED ... *)
ExpireOverdue(v) ==
  /\ \/ /\ InboxGoes(v, {"loading"}, "finding")
        /\ row' = IF due /\ row = "PENDING" THEN "EXPIRED" ELSE row
     \/ InboxGoes(v, {"loading"}, "error") /\ UNCHANGED row
  /\ UNCHANGED <<due, calls, notifier>>

(* ... and what is PENDING is listed. *)
FindPending(v) ==
  /\ \/ InboxGoes(v, {"finding"}, IF row = "PENDING" THEN "card" ELSE "empty")
     \/ InboxGoes(v, {"finding"}, "error")
  /\ UNCHANGED <<table, calls, notifier>>

(* _approve and _reject: the buttons of a card that waits for no answer. *)
Decide(v, c, decision) ==
  /\ InboxGoes(v, {"card"}, "busy")
  /\ CallGoes(c, "idle", "find")
  /\ verdict' = [verdict EXCEPT ![c] = decision]
  /\ from' = [from EXCEPT ![c] = v]
  /\ late' = IF Answered = {} THEN late ELSE late \union {c}
  /\ UNCHANGED <<table, contested, notifier>>

-----------------------------------------------------------------------------
Writing == {c \in Decision : call[c] \in {"expire", "update"}}

\* Mutant: the status is not looked at, as the row is updated by its id.
FindUnchecked(c) ==
  /\ call[c] = "find"
  /\ call' = [call EXCEPT ![c] = IF due /\ verdict[c] = "APPROVED" THEN "expire" ELSE "update"]
  /\ contested' = (contested \/ Writing # {})
  /\ UNCHANGED <<table, verdict, from, late, inbox, notifier>>

(* The row is read.  Only PENDING may be decided; only an approval looks at *)
(* expiresAt.                                                               *)
Find(c) ==
  /\ call[c] = "find"
  /\ \/ /\ row = "PENDING"
        /\ call' = [call EXCEPT ![c] =
             IF due /\ verdict[c] = "APPROVED" THEN "expire" ELSE "update"]
        /\ contested' = (contested \/ Writing # {})
     \/ row # "PENDING" /\ CallGoes(c, "find", "refused") /\ UNCHANGED contested
     \/ CallGoes(c, "find", "failed") /\ UNCHANGED contested
  /\ UNCHANGED <<table, verdict, from, late, inbox, notifier>>

(* The UPDATEs go by the id alone; an answer may be lost after it was done. *)
Expire(c) ==
  /\ \/ CallGoes(c, "expire", "refused") /\ row' = "EXPIRED"
     \/ CallGoes(c, "expire", "failed") /\ row' \in {row, "EXPIRED"}
  /\ UNCHANGED <<due, verdict, from, late, contested, inbox, notifier>>

Update(c) ==
  /\ \/ CallGoes(c, "update", "publish") /\ row' = verdict[c]
     \/ CallGoes(c, "update", "failed") /\ row' \in {row, verdict[c]}
  /\ UNCHANGED <<due, verdict, from, late, contested, inbox, notifier>>

(* PUBLISH, whose failure fails the call although the row is decided. *)
Publish(c) ==
  /\ \/ CallGoes(c, "publish", "answered") /\ bus' = Append(bus, verdict[c])
     \/ CallGoes(c, "publish", "failed") /\ UNCHANGED bus
  /\ UNCHANGED <<table, verdict, from, late, contested, inbox, pending, socket, told>>

\* Mutant: only an answer of 200 lowers the flag.
AnswerWithoutFinally(v, c) ==
  /\ from[c] = v
  /\ call[c] = "answered"
  /\ InboxGoes(v, {"busy"}, IF verdict[c] = "APPROVED" THEN "result" ELSE "loading")
  /\ from' = [from EXCEPT ![c] = Nobody]
  /\ UNCHANGED <<table, call, verdict, late, contested, notifier>>

(* The answer, or none: an approval shows its dialog, a rejection reloads,  *)
(* and finally the card may be used again.                                  *)
Answer(v, c) ==
  /\ from[c] = v
  /\ call[c] \in {"answered", "refused", "failed"}
  /\ \/ InboxGoes(v, {"busy"}, "card")
     \/ /\ call[c] = "answered"
        /\ InboxGoes(v, {"busy"}, IF verdict[c] = "APPROVED" THEN "result" ELSE "loading")
  /\ from' = [from EXCEPT ![c] = Nobody]
  /\ UNCHANGED <<table, call, verdict, late, contested, notifier>>

(* The dialog is tapped away: the decided card is still there. *)
DismissDialog(v) ==
  /\ InboxGoes(v, {"result"}, "card")
  /\ UNCHANGED <<table, calls, notifier>>

-----------------------------------------------------------------------------
(* POST /verifier/watch: one session per request, the last that asked. *)
Watch(w) ==
  /\ pending' = w
  /\ UNCHANGED <<table, calls, inbox, bus, socket, told>>

(* pmessage: whoever watches is told, if its socket is open, and struck off. *)
Deliver ==
  /\ bus # << >>
  /\ bus' = Tail(bus)
  /\ told' = [w \in Watcher |-> IF w = pending /\ w \in socket THEN Head(bus) ELSE told[w]]
  /\ pending' = Nobody
  /\ UNCHANGED <<table, calls, inbox, socket>>

(* The sweep, once the entry's time is up. *)
Sweep ==
  /\ pending # Nobody
  /\ pending' = Nobody
  /\ UNCHANGED <<table, calls, inbox, bus, socket, told>>

(* Pub/sub keeps nothing for a subscriber that reconnects. *)
LoseMessages ==
  /\ bus # << >>
  /\ bus' = << >>
  /\ UNCHANGED <<table, calls, inbox, pending, socket, told>>

Connect(w) ==
  /\ socket' \in {socket \union {w}, socket \ {w}}
  /\ UNCHANGED <<table, calls, inbox, bus, pending, told>>

-----------------------------------------------------------------------------
Serve(c) == Find(c) \/ Expire(c) \/ Update(c) \/ Publish(c)
Show(v) == ExpireOverdue(v) \/ FindPending(v) \/ (\E c \in Decision : Answer(v, c))

Next ==
  \/ PostSend \/ FallDue \/ Deliver \/ Sweep \/ LoseMessages
  \/ \E c \in Decision : Serve(c)
  \/ \E v \in Device :
       \/ Load(v) \/ Show(v) \/ DismissDialog(v)
       \/ \E c \in Decision, decision \in Verdict : Decide(v, c, decision)
  \/ \E w \in Watcher : Watch(w) \/ Connect(w)

Spec == Init /\ [][Next]_vars

(* Queries are answered or fail (timeouts of the pool and of Dio), and what *)
(* the server or the client has in hand is gone on with.  Nobody need press *)
(* a button, watch, connect or let time pass.                               *)
Fairness ==
  /\ \A c \in Decision : WF_vars(Serve(c))
  /\ \A v \in Device : WF_vars(Show(v))

-----------------------------------------------------------------------------
(* A decision that comes in after one was answered changes nothing and      *)
(* publishes nothing, whatever other decisions, listings and expiries are   *)
(* under way: the check of the status (verifyRequest.controller.ts:154,     *)
(* 219) is enough for calls that do not overlap.                            *)
LateIsRefused == \A c \in late : call[c] \in {"idle", "find", "refused", "failed"}

(* As long as no two decisions pass the check together, what was answered   *)
(* to the user and what was pushed to a verifier is what the table says,    *)
(* for good: no listing or overdue approval takes it back, and nothing is   *)
(* announced that was not stored (verifyRequest.controller.ts:168-187).     *)
UncontestedStands ==
  ~contested =>
    /\ \A c \in Answered : row = verdict[c]
    /\ \A w \in Watcher : told[w] \in {"nothing", row}

(* A decision that was answered stands. *)
DecisionsStand == LateIsRefused /\ UncontestedStands

(* A card whose decision is under way is not locked for ever, whatever      *)
(* becomes of the call (inbox_screen.dart:331-353).                         *)
CardUnlocks == \A v \in Device : inbox[v] = "busy" ~> inbox[v] # "busy"
=============================================================================
