------------------------------- MODULE StepUp -------------------------------
(***************************************************************************)
(* Step-up authentication of one session: the scores that risk.service.ts   *)
(* handles, the pending key that riskGate.middleware.ts reads, the two      *)
(* endpoints that resolve it, the revocations that delete it, and the web   *)
(* client's StepUpModal, connected by a WebSocket that may close.           *)
(*                                                                          *)
(* Every await is a step.  Of a score only matters whether it reaches a     *)
(* step-up threshold, of the cache entry whether it says stepUpRequired.    *)
(* The proof itself is ZkpLogin's; here it verifies or not.                 *)
(***************************************************************************)
EXTENDS Naturals, Sequences, FiniteSets

CONSTANTS
  Score,            \* the calls of processScore and of the development endpoint
  Attempt,          \* the calls of the modal's handleReAuth
  Revocation        \* the calls of postRevokeSession and of executeRecovery

VARIABLES
  stepUp,           \* is zkauth:stepup:{sessionId} set?
  entry,            \* zkauth:session:{sessionId}: "none", "clear", "required"
  score,            \* score[p]: where the handling of p is
  high,             \* the scores with a stepUpLevel
  scoreCopy,        \* scoreCopy[p]: the entry that p has read
  attempt,          \* attempt[a]: where a is, in the client or in the server
  revoked,          \* is_revoked in the session's row
  revocation,       \* revocation[r]: where r is
  socket,           \* "open" or "closed"
  inbox,            \* the messages on their way to the client
  modal,            \* status of the modal; "left" once the page is gone
  hiding,           \* running timers of handleResolved
  leaving,          \* is a timer running that leaves for /login?
  lost,             \* scores whose pending key Redis did not take (history)
  opened,           \* scores whose key a resolution or the TTL took (history)
  withdrawn,        \* withdrawn[r]: the scores whose key r deleted (history)
  disturbed         \* attempts since whose DEL a score was handled (history)

redis == <<stepUp, entry>>
scores == <<score, high, scoreCopy>>
channel == <<socket, inbox>>
client == <<modal, hiding, leaving>>
session == <<revoked, revocation>>
history == <<lost, opened, withdrawn, disturbed>>
vars == <<redis, scores, attempt, session, channel, client, history>>

Entry == {"none", "clear", "required"}
ScoreStep == {"get", "set", "check", "trigger", "dev", "notify"}
AttemptStep ==
  {"ask", "prove", "submit", "verify", "clear", "getEntry", "setEntry",
   "accepted", "refused"}
RevocationStep == {"delEntry", "delKey", "update", "commit", "push"}
Message == {"STEP_UP_REQUIRED", "SESSION_TERMINATED"}
Status ==
  {"hidden", "visible", "proving", "submitting", "resolved", "error", "expired", "left"}

TypeOK ==
  /\ stepUp \in BOOLEAN
  /\ entry \in Entry
  /\ score \in [Score -> {"idle", "done", "failed"} \union ScoreStep]
  /\ high \subseteq Score
  /\ scoreCopy \in [Score -> Entry]
  /\ attempt \in [Attempt -> {"idle", "answered", "over"} \union AttemptStep]
  /\ revoked \in BOOLEAN
  /\ revocation \in [Revocation -> {"idle", "answered", "failed"} \union RevocationStep]
  /\ socket \in {"open", "closed"}
  /\ inbox \in Seq(Message)
  /\ modal \in Status
  /\ hiding \in Nat
  /\ leaving \in BOOLEAN
  /\ lost \subseteq Score
  /\ opened \subseteq Score
  /\ withdrawn \in [Revocation -> SUBSET Score]
  /\ disturbed \subseteq Attempt

Init ==
  /\ stepUp = FALSE
  /\ entry = "clear"
  /\ score = [p \in Score |-> "idle"]
  /\ high = {}
  /\ scoreCopy = [p \in Score |-> "none"]
  /\ attempt = [a \in Attempt |-> "idle"]
  /\ revoked = FALSE
  /\ revocation = [r \in Revocation |-> "idle"]
  /\ socket = "open"
  /\ inbox = << >>
  /\ modal = "hidden"
  /\ hiding = 0
  /\ leaving = FALSE
  /\ lost = {}
  /\ opened = {}
  /\ withdrawn = [r \in Revocation |-> {}]
  /\ disturbed = {}

-----------------------------------------------------------------------------
Handled == {p \in Score : score[p] \in ScoreStep}
ScoreGoes(p, from, to) == score[p] = from /\ score' = [score EXCEPT ![p] = to]
AttemptGoes(a, from, to) == attempt[a] = from /\ attempt' = [attempt EXCEPT ![a] = to]
RevocationGoes(r, from, to) ==
  revocation[r] = from /\ revocation' = [revocation EXCEPT ![r] = to]

(* The scores with a stepUpLevel that have found the key or have set it. *)
Gating == {p \in high : score[p] \in {"notify", "done"}}

(* The key goes, by a resolution's DEL or by its TTL. *)
Unset ==
  /\ stepUp' = FALSE
  /\ opened' = IF stepUp THEN opened \union Gating ELSE opened

(* A frame to the client; readyState is asked first. *)
Send(message) == inbox' = IF socket = "open" THEN Append(inbox, message) ELSE inbox

-----------------------------------------------------------------------------
(* processScore: the circuit's state is read and the score classified.  A   *)
(* score that comes while the circuit is not CLOSED triggers nothing.       *)
ScoreArrives(p, circuitClosed, reaches) ==
  /\ ScoreGoes(p, "idle", "get")
  /\ high' = IF circuitClosed /\ reaches THEN high \union {p} ELSE high
  /\ disturbed' = Attempt
  /\ UNCHANGED <<session, redis, scoreCopy, attempt, channel, client, lost, opened, withdrawn>>

(* _updateSessionCache: GET, whose failure ends the handling ... *)
ReadEntry(p) ==
  /\ \/ ScoreGoes(p, "get", "set") /\ scoreCopy' = [scoreCopy EXCEPT ![p] = entry]
     \/ ScoreGoes(p, "get", "failed") /\ UNCHANGED scoreCopy
  /\ UNCHANGED <<session, redis, high, attempt, channel, client, history>>

(* ... and SET, whose failure is caught.  It writes what was read, and      *)
(* re-creates an entry that is gone; the copy is done with.                 *)
WriteEntry(p) ==
  /\ ScoreGoes(p, "set", IF p \in high THEN "check" ELSE "done")
  /\ \/ entry' = IF p \in high THEN "required"
                 ELSE IF scoreCopy[p] = "none" THEN "clear" ELSE scoreCopy[p]
     \/ UNCHANGED entry
  /\ scoreCopy' = [scoreCopy EXCEPT ![p] = "none"]
  /\ UNCHANGED <<session, stepUp, high, attempt, channel, client, history>>

(* _triggerStepUp: nothing to do when a step-up is pending already ... *)
ReadPending(p) ==
  /\ \/ ScoreGoes(p, "check", IF stepUp THEN "done" ELSE "trigger")
     \/ ScoreGoes(p, "check", "failed")
  /\ UNCHANGED <<session, redis, high, scoreCopy, attempt, channel, client, history>>

\* Mutant: the answer of SET is not awaited, and it may come to nothing.
SetPendingAnyhow(p) ==
  /\ ScoreGoes(p, "trigger", "notify") \/ ScoreGoes(p, "dev", "notify")
  /\ stepUp' \in {TRUE, stepUp}
  /\ UNCHANGED <<session, entry, high, scoreCopy, attempt, channel, client, history>>

(* ... else SET ... EX.  Its failure is caught, and the client is told all  *)
(* the same; the development endpoint fails instead.                        *)
SetPending(p) ==
  /\ \/ /\ ScoreGoes(p, "trigger", "notify") \/ ScoreGoes(p, "dev", "notify")
        /\ stepUp' = TRUE
        /\ UNCHANGED lost
     \/ /\ ScoreGoes(p, "trigger", "notify") \/ ScoreGoes(p, "dev", "failed")
        /\ lost' = lost \union {p}
        /\ UNCHANGED stepUp
  /\ UNCHANGED <<session, entry, high, scoreCopy, attempt, channel, client, opened, withdrawn, disturbed>>

Notify(p) ==
  /\ ScoreGoes(p, "notify", "done")
  /\ Send("STEP_UP_REQUIRED")
  /\ UNCHANGED <<session, redis, high, scoreCopy, attempt, socket, client, history>>

(* POST /session/dev/trigger-stepup, outside production: sets the key       *)
(* without a look at it, and leaves the entry alone.                        *)
DevTrigger(p) ==
  /\ ScoreGoes(p, "idle", "dev")
  /\ high' = high \union {p}
  /\ disturbed' = Attempt
  /\ UNCHANGED <<session, redis, scoreCopy, attempt, channel, client, lost, opened, withdrawn>>

-----------------------------------------------------------------------------
(* handleReAuth, from a modal that shows its button. *)
ReAuth(a) ==
  /\ modal \in {"visible", "error"}
  /\ AttemptGoes(a, "idle", "ask")
  /\ modal' = "proving"
  /\ UNCHANGED <<session, redis, scores, channel, hiding, leaving, history>>

(* postStepUpChallenge, and the first look of postStepUpResolve: a 403      *)
(* unless a step-up is pending.  Any other error looks the same.            *)
LookForPending(a) ==
  /\ \/ stepUp /\ AttemptGoes(a, "ask", "prove")
     \/ stepUp /\ AttemptGoes(a, "submit", "verify")
     \/ AttemptGoes(a, "ask", "refused")
     \/ AttemptGoes(a, "submit", "refused")
  /\ UNCHANGED <<session, redis, scores, channel, client, history>>

(* The client proves, or fails to; the page may be gone by then. *)
Prove(a) ==
  /\ modal # "left"
  /\ \/ AttemptGoes(a, "prove", "submit") /\ modal' = "submitting"
     \/ AttemptGoes(a, "prove", "refused") /\ UNCHANGED modal
  /\ UNCHANGED <<session, redis, scores, channel, hiding, leaving, history>>

(* postStepUpResolve: fetch, exists, verify, consume and register, any of   *)
(* which may refuse (ZkpLogin).                                             *)
Verify(a) ==
  /\ AttemptGoes(a, "verify", "clear") \/ AttemptGoes(a, "verify", "refused")
  /\ UNCHANGED <<session, redis, scores, channel, client, history>>

(* resolveStepUp: DEL ... *)
Clear(a) ==
  /\ \/ /\ AttemptGoes(a, "clear", "getEntry")
        /\ Unset
        /\ disturbed' = IF Handled = {} THEN disturbed \ {a} ELSE disturbed \union {a}
     \/ AttemptGoes(a, "clear", "refused") /\ UNCHANGED <<stepUp, opened, disturbed>>
  /\ UNCHANGED <<session, entry, scores, channel, client, lost, withdrawn>>

\* Mutant: resolveStepUp deletes the key and leaves the entry as it is.
ReadEntryToClearOnly(a) ==
  /\ AttemptGoes(a, "getEntry", "accepted")
  /\ UNCHANGED <<session, redis, scores, channel, client, history>>

(* ... GET of the entry ... *)
ReadEntryToClear(a) ==
  /\ \/ AttemptGoes(a, "getEntry", IF entry = "none" THEN "accepted" ELSE "setEntry")
     \/ AttemptGoes(a, "getEntry", "refused")
  /\ UNCHANGED <<session, redis, scores, channel, client, history>>

(* ... and SET without the requirement.  Then the answer; no client listens *)
(* to the STEP_UP_RESOLVED that goes with it.                               *)
ClearEntry(a) ==
  /\ \/ AttemptGoes(a, "setEntry", "accepted") /\ entry' = "clear"
     \/ AttemptGoes(a, "setEntry", "refused") /\ UNCHANGED entry
  /\ UNCHANGED <<session, stepUp, scores, channel, client, history>>

\* Mutant: an error of the proof or of a request is not caught.
AnswerUncaught(a) ==
  /\ modal # "left"
  /\ \/ /\ AttemptGoes(a, "accepted", "answered")
        /\ modal' = "resolved"
        /\ hiding' = hiding + 1
     \/ AttemptGoes(a, "refused", "over") /\ UNCHANGED <<modal, hiding>>
  /\ UNCHANGED <<session, redis, scores, channel, leaving, history>>

(* The client has its answer: handleResolved with its timer, or the catch   *)
(* block, whatever the modal shows by now.                                  *)
Answer(a) ==
  /\ modal # "left"
  /\ \/ /\ AttemptGoes(a, "accepted", "answered")
        /\ modal' = "resolved"
        /\ hiding' = hiding + 1
     \/ /\ AttemptGoes(a, "refused", "over")
        /\ modal' = "error"
        /\ UNCHANGED hiding
  /\ UNCHANGED <<session, redis, scores, channel, leaving, history>>

-----------------------------------------------------------------------------
(* A message reaches the modal. *)
Deliver ==
  /\ modal # "left"
  /\ inbox # << >>
  /\ inbox' = Tail(inbox)
  /\ \/ /\ Head(inbox) = "STEP_UP_REQUIRED"
        /\ modal' = "visible"
        /\ UNCHANGED leaving
     \/ /\ Head(inbox) = "SESSION_TERMINATED"
        /\ modal' = "expired"
        /\ leaving' = TRUE
  /\ UNCHANGED <<session, redis, scores, attempt, socket, hiding, history>>

(* The effect's interval, which runs while the modal asks. *)
Countdown ==
  /\ modal \in {"visible", "error"}
  /\ modal' = "expired"
  /\ leaving' = TRUE
  /\ UNCHANGED <<session, redis, scores, attempt, channel, hiding, history>>

(* The timeouts, which nothing cancels. *)
HideTimer ==
  /\ modal # "left"
  /\ hiding > 0
  /\ hiding' = hiding - 1
  /\ modal' = "hidden"
  /\ UNCHANGED <<session, redis, scores, attempt, channel, leaving, history>>

LeaveTimer ==
  /\ modal # "left"
  /\ leaving
  /\ leaving' = FALSE
  /\ modal' = "left"
  /\ UNCHANGED <<session, redis, scores, attempt, channel, hiding, history>>

(* postRevokeSession: the look at the row ... *)
FindTarget(r) ==
  /\ \/ ~revoked /\ RevocationGoes(r, "idle", "delEntry")
     \/ revoked /\ RevocationGoes(r, "idle", "answered")
  /\ UNCHANGED <<redis, scores, attempt, revoked, channel, client, history>>

(* ... DEL of the entry, whose failure ends the call ... *)
DelEntry(r) ==
  /\ \/ RevocationGoes(r, "delEntry", "delKey") /\ entry' = "none"
     \/ RevocationGoes(r, "delEntry", "failed") /\ entry' \in {entry, "none"}
  /\ UNCHANGED <<stepUp, scores, attempt, revoked, channel, client, history>>

(* DEL of the key.  It is not the gate that opens, if all goes well, but    *)
(* the session that ends.                                                   *)
Withdraw(r) ==
  /\ stepUp' = FALSE
  /\ withdrawn' = IF stepUp THEN [withdrawn EXCEPT ![r] = @ \union Gating] ELSE withdrawn

(* ... DEL of the key, whose failure is caught ... *)
DelKey(r) ==
  /\ RevocationGoes(r, "delKey", "update")
  /\ Withdraw(r) \/ UNCHANGED <<stepUp, withdrawn>>
  /\ UNCHANGED <<entry, scores, attempt, revoked, channel, client, lost, opened, disturbed>>

(* executeRecovery: the pipeline, of which any command may fail, is run     *)
(* inside the transaction that revokes the row.                             *)
RecoveryDeletes(r) ==
  /\ ~revoked
  /\ RevocationGoes(r, "idle", "commit")
  /\ entry' \in {entry, "none"}
  /\ Withdraw(r) \/ UNCHANGED <<stepUp, withdrawn>>
  /\ UNCHANGED <<scores, attempt, revoked, channel, client, lost, opened, disturbed>>

\* Mutant: a failure of the UPDATE is caught like that of the DEL before it.
RevokeRowAnyhow(r) ==
  /\ RevocationGoes(r, "update", "push") \/ RevocationGoes(r, "commit", "answered")
  /\ revoked' \in {revoked, TRUE}
  /\ UNCHANGED <<redis, scores, attempt, channel, client, history>>

(* ... the UPDATE, or the end of the transaction.  Either may fail, or come *)
(* through with its answer lost; nothing is put back then ...               *)
RevokeRow(r) ==
  /\ \/ /\ RevocationGoes(r, "update", "push") \/ RevocationGoes(r, "commit", "answered")
        /\ revoked' = TRUE
     \/ /\ RevocationGoes(r, "update", "failed") \/ RevocationGoes(r, "commit", "failed")
        /\ revoked' \in {revoked, TRUE}
  /\ UNCHANGED <<redis, scores, attempt, channel, client, history>>

(* ... and the push. *)
PushTerminated(r) ==
  /\ RevocationGoes(r, "push", "answered")
  /\ Send("SESSION_TERMINATED")
  /\ UNCHANGED <<redis, scores, attempt, revoked, socket, client, history>>

(* verifyAccessToken misses the entry and writes a new one while the row is *)
(* not revoked.  (What comes between the two is SessionHistory's.)          *)
Reseed ==
  /\ entry = "none"
  /\ ~revoked
  /\ entry' = "clear"
  /\ UNCHANGED <<session, stepUp, scores, attempt, channel, client, history>>

(* The entry goes by its TTL, or by the DEL of a logout or a rotation.      *)
EntryGoes ==
  /\ entry # "none"
  /\ entry' = "none"
  /\ UNCHANGED <<session, stepUp, scores, attempt, channel, client, history>>

-----------------------------------------------------------------------------
(* The network, and WsContext's reconnect. *)
Disconnect ==
  /\ socket = "open"
  /\ socket' = "closed"
  /\ inbox' = << >>
  /\ UNCHANGED <<session, redis, scores, attempt, client, history>>

Reconnect ==
  /\ socket = "closed"
  /\ modal # "left"
  /\ socket' = "open"
  /\ UNCHANGED <<session, redis, scores, attempt, inbox, client, history>>

(* STEP_UP_TTL_SECONDS have passed. *)
KeyExpires ==
  /\ stepUp
  /\ Unset
  /\ UNCHANGED <<session, entry, scores, attempt, channel, client, lost, withdrawn, disturbed>>

-----------------------------------------------------------------------------
Handling(p) ==
  ReadEntry(p) \/ WriteEntry(p) \/ ReadPending(p) \/ SetPending(p) \/ Notify(p)

Trying(a) ==
  \/ LookForPending(a) \/ Prove(a) \/ Verify(a) \/ Clear(a)
  \/ ReadEntryToClear(a) \/ ClearEntry(a) \/ Answer(a)

Revoking(r) ==
  \/ FindTarget(r) \/ DelEntry(r) \/ DelKey(r) \/ RecoveryDeletes(r)
  \/ RevokeRow(r) \/ PushTerminated(r)

Next ==
  \/ \E p \in Score :
       \/ \E circuitClosed, reaches \in BOOLEAN : ScoreArrives(p, circuitClosed, reaches)
       \/ DevTrigger(p) \/ Handling(p)
  \/ \E a \in Attempt : ReAuth(a) \/ Trying(a)
  \/ \E r \in Revocation : Revoking(r)
  \/ Reseed \/ EntryGoes \/ KeyExpires
  \/ Deliver \/ Countdown \/ HideTimer \/ LeaveTimer \/ Disconnect \/ Reconnect

Spec == Init /\ [][Next]_vars

(* The browser runs its timers, and a request or a proof comes to an end:   *)
(* the prover gives up after 30 s, fetch when the connection breaks.        *)
Fairness ==
  /\ \A a \in Attempt : WF_vars(Trying(a))
  /\ WF_vars(Countdown) /\ WF_vars(HideTimer) /\ WF_vars(LeaveTimer)

-----------------------------------------------------------------------------
(* riskGateMiddleware answers 403. *)
GateClosed == stepUp

(* The scores whose key was deleted by a revocation that is not over or has *)
(* failed.                                                                  *)
LeftOpen ==
  UNION {withdrawn[r] :
           r \in {r \in Revocation : revocation[r] \in {"update", "commit", "failed"}}}

(* While a session's row is alive, a score that asked for a step-up, and    *)
(* whose SET Redis took, has the gate closed from the end of its handling   *)
(* until a proof that verified or the TTL opens it, whatever other scores,  *)
(* resolutions and revocations do at the same time: no deletion of the key  *)
(* by a revocation that was answered leaves a session that may go on        *)
(* without a proof; one that failed half way does (risk.service.ts,         *)
(* _triggerStepUp and resolveStepUp; session.controller.ts,                 *)
(* postRevokeSession).                                                      *)
HighScoreIsGated ==
  ~revoked =>
    \A p \in high \ lost :
      score[p] = "done" => GateClosed \/ p \in opened \union LeftOpen

(* An answered resolution with no score handled beside it or after it has   *)
(* cleared both copies of the requirement, the key and the cache entry, or  *)
(* found no entry (risk.service.ts, resolveStepUp and _updateSessionCache). *)
ResolutionClearsBoth ==
  \A a \in Attempt \ disturbed :
    attempt[a] \in {"accepted", "answered"} => ~stepUp /\ entry # "required"

(* The modal does not stay: whatever prompts, errors and timers meet, it is *)
(* hidden again or the page has left for /login (StepUpModal.tsx).          *)
ModalLeaves == modal \notin {"hidden", "left"} ~> modal \in {"hidden", "left"}
=============================================================================
