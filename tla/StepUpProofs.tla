---------------------------- MODULE StepUpProofs ----------------------------
(***************************************************************************)
(* Proofs about StepUp, for any number of scores, attempts and revocations, *)
(* and about BehaviorDemo, for any number of timers.                        *)
(*                                                                          *)
(* Gated adds to HighScoreIsGated the score that has set the key and not    *)
(* yet told the client; a revocation leaves its excuse, LeftOpen, only by   *)
(* the update that revokes the row.  Quiet says what an undisturbed resolution relies   *)
(* on from its DEL on: no score is being handled, so nobody sets the key    *)
(* and nobody writes back an old entry.                                     *)
(***************************************************************************)
EXTENDS StepUp, BehaviorDemo, FiniteSetTheorems, TLAPS

Gated ==
  revoked = TRUE \/ \A p \in Gating \ lost : stepUp = TRUE \/ p \in opened \/ p \in LeftOpen

Quiet ==
  \A a \in Attempt \ disturbed :
    /\ attempt[a] \in {"getEntry", "setEntry", "accepted", "answered"} =>
         /\ stepUp = FALSE
         /\ \A p \in Score : score[p] \notin ScoreStep
    /\ attempt[a] \in {"accepted", "answered"} => entry # "required"

IInv == TypeOK /\ Gated /\ Quiet

LEMMA InitInv == Init => IInv
<1> SUFFICES ASSUME Init PROVE IInv
  OBVIOUS
<1>1. << >> \in Seq(Message)
  OBVIOUS
<1>2. TypeOK
  BY <1>1 DEF Init, TypeOK, Entry, Status
<1>3. Gated /\ Quiet
  BY DEF Init, Gated, Gating, Quiet
<1> QED
  BY <1>2, <1>3 DEF IInv

LEMMA SendType ==
  ASSUME TypeOK, NEW message \in Message, Send(message)
  PROVE  inbox' \in Seq(Message)
<1>1. Append(inbox, message) \in Seq(Message)
  BY DEF TypeOK
<1> HIDE DEF Message
<1> QED
  BY <1>1 DEF TypeOK, Send

(* A step that moves no score on, and neither takes the key away nor moves  *)
(* a revocation, keeps what holds of both.                                  *)
LEMMA GatedKeeps ==
  ASSUME Gated, UNCHANGED <<stepUp, score, high, session, lost, opened, withdrawn>>
  PROVE  Gated'
BY DEF Gated, Gating, LeftOpen, session

LEMMA UnsetKeeps ==
  ASSUME IInv, Unset, UNCHANGED <<score, high, session, lost, withdrawn>>
  PROVE  stepUp' = FALSE /\ opened' \subseteq Score /\ Gated'
<1>1. stepUp' = FALSE /\ opened' \subseteq Score
  BY DEF Unset, IInv, TypeOK, Gating
<1>2. LeftOpen' = LeftOpen /\ Gating' = Gating
  BY DEF LeftOpen, Gating, session
<1>3. Gated'
  BY <1>2 DEF Unset, IInv, TypeOK, Gated, session
<1> QED
  BY <1>1, <1>3

-----------------------------------------------------------------------------
(* A score arrives: no resolution is undisturbed any more. *)
LEMMA ArriveInv ==
  ASSUME IInv, NEW p \in Score, score[p] = "idle",
         NEW to \in {"get", "dev"}, score' = [score EXCEPT ![p] = to],
         high' \in {high, high \union {p}}, disturbed' = Attempt,
         UNCHANGED <<session, redis, scoreCopy, attempt, channel, client, lost, opened, withdrawn>>
  PROVE  IInv'
<1> USE DEF IInv, redis, session, channel, client
<1>1. TypeOK'
  BY DEF TypeOK, ScoreStep
<1>2. Gated'
  <2>1. Gating' \subseteq Gating /\ LeftOpen' = LeftOpen
    BY DEF TypeOK, Gating, LeftOpen
  <2> QED
    BY <2>1 DEF Gated
<1>3. Quiet'
  BY DEF Quiet
<1> QED
  BY <1>1, <1>2, <1>3

(* A score moves on: while one is handled, every resolution is disturbed.   *)
LEMMA HandleInv ==
  ASSUME IInv, NEW p \in Score, Handling(p)
  PROVE  IInv'
<1>1. /\ score[p] \in ScoreStep
      /\ UNCHANGED <<high, attempt, session, client, opened, withdrawn, disturbed>>
  BY DEF Handling, ReadEntry, WriteEntry, ReadPending, SetPending, Notify,
         ScoreGoes, ScoreStep, history
<1>0. LeftOpen' = LeftOpen
  BY <1>1 DEF LeftOpen, session
<1>2. Quiet'
  <2>1. \A a \in Attempt \ disturbed :
          attempt[a] \notin {"getEntry", "setEntry", "accepted", "answered"}
    BY <1>1 DEF IInv, Quiet
  <2> QED
    BY <1>1, <2>1 DEF Quiet
<1>3. CASE ReadEntry(p)
  <2>1. TypeOK'
    BY <1>3 DEF ReadEntry, ScoreGoes, IInv, TypeOK, ScoreStep, redis, session, channel, client, history
  <2>2. Gating' = Gating
    BY <1>3 DEF ReadEntry, ScoreGoes, IInv, TypeOK, Gating
  <2>3. Gated'
    BY <1>0, <1>3, <2>2 DEF ReadEntry, IInv, Gated, redis, session, history
  <2> QED
    BY <1>2, <2>1, <2>3 DEF IInv
<1>4. CASE WriteEntry(p)
  <2>1. TypeOK'
    BY <1>4 DEF WriteEntry, ScoreGoes, IInv, TypeOK, ScoreStep, Entry, session, channel, client, history
  <2>2. Gating' = Gating
    BY <1>4 DEF WriteEntry, ScoreGoes, IInv, TypeOK, Gating
  <2>3. Gated'
    BY <1>0, <1>4, <2>2 DEF WriteEntry, IInv, Gated, session, history
  <2> QED
    BY <1>2, <2>1, <2>3 DEF IInv
<1>5. CASE ReadPending(p)
  <2>1. TypeOK'
    BY <1>5 DEF ReadPending, ScoreGoes, IInv, TypeOK, ScoreStep, redis, session, channel, client, history
  <2>2. stepUp = TRUE \/ Gating' = Gating
    BY <1>5 DEF ReadPending, ScoreGoes, IInv, TypeOK, Gating
  <2>3. Gated'
    BY <1>0, <1>5, <2>2 DEF ReadPending, IInv, Gated, redis, session, history
  <2> QED
    BY <1>2, <2>1, <2>3 DEF IInv
<1>6. CASE SetPending(p)
  <2>1. TypeOK'
    BY <1>6 DEF SetPending, ScoreGoes, IInv, TypeOK, ScoreStep, session, channel, client
  <2>2. ASSUME stepUp' = TRUE PROVE Gated'
    BY <2>2 DEF Gated
  <2>3. ASSUME stepUp' = stepUp, lost' = lost \union {p} PROVE Gated'
    <3>1. Gating' \subseteq Gating \union {p}
      BY <1>6 DEF SetPending, ScoreGoes, IInv, TypeOK, Gating
    <3>2. UNCHANGED <<revoked, opened>>
      BY <1>6 DEF SetPending, session
    <3>3. ASSUME NEW q \in Gating' \ lost'
          PROVE  q \in Gating \ lost
      BY <2>3, <3>1, <3>3
    <3> QED
      BY <1>0, <2>3, <3>2, <3>3 DEF IInv, Gated
  <2>4. Gated'
    BY <1>6, <2>2, <2>3 DEF SetPending
  <2> QED
    BY <1>2, <2>1, <2>4 DEF IInv
<1>7. CASE Notify(p)
  <2>1. inbox' \in Seq(Message)
    BY <1>7, SendType DEF Notify, IInv, Message
  <2>2. TypeOK'
    BY <1>7, <2>1 DEF Notify, ScoreGoes, IInv, TypeOK, ScoreStep, redis, session, client, history
  <2>3. Gating' = Gating
    BY <1>7 DEF Notify, ScoreGoes, IInv, TypeOK, Gating
  <2>4. Gated'
    BY <1>0, <1>7, <2>3 DEF Notify, IInv, Gated, redis, session, history
  <2> QED
    BY <1>2, <2>2, <2>4 DEF IInv
<1> QED
  BY <1>3, <1>4, <1>5, <1>6, <1>7 DEF Handling

-----------------------------------------------------------------------------
(* Steps of the client and the channel touch nothing the invariant is       *)
(* about; an attempt they move does not get into a resolution.              *)
LEMMA ClientInv ==
  ASSUME IInv, UNCHANGED <<redis, scores, session, history>>,
         \/ UNCHANGED attempt
         \/ \E a \in Attempt : \E to \in {"ask", "prove", "submit", "verify", "clear",
                                          "refused", "over"} :
              attempt' = [attempt EXCEPT ![a] = to]
         \/ \E a \in Attempt : attempt[a] = "accepted" /\ attempt' = [attempt EXCEPT ![a] = "answered"],
         socket' \in {"open", "closed"}, inbox' \in Seq(Message),
         modal' \in Status, hiding' \in Nat, leaving' \in BOOLEAN
  PROVE  IInv'
<1> USE DEF IInv, redis, scores, session, history
<1>1. TypeOK'
  BY DEF TypeOK, AttemptStep
<1>2. Gated'
  BY GatedKeeps
<1>3. Quiet'
  BY DEF TypeOK, Quiet
<1> QED
  BY <1>1, <1>2, <1>3

LEMMA ReAuthInv == ASSUME IInv, NEW a \in Attempt, ReAuth(a) PROVE IInv'
<1>1. attempt' = [attempt EXCEPT ![a] = "ask"] /\ modal' \in Status
  BY DEF ReAuth, AttemptGoes, Status
<1> QED
  BY <1>1, ClientInv DEF ReAuth, IInv, TypeOK, channel

LEMMA LookForPendingInv == ASSUME IInv, NEW a \in Attempt, LookForPending(a) PROVE IInv'
<1>1. \E to \in {"ask", "prove", "submit", "verify", "clear", "refused", "over"} :
        attempt' = [attempt EXCEPT ![a] = to]
  BY DEF LookForPending, AttemptGoes
<1> QED
  BY <1>1, ClientInv DEF LookForPending, IInv, TypeOK, channel, client

LEMMA ProveInv == ASSUME IInv, NEW a \in Attempt, Prove(a) PROVE IInv'
<1>1. /\ \E to \in {"ask", "prove", "submit", "verify", "clear", "refused", "over"} :
           attempt' = [attempt EXCEPT ![a] = to]
      /\ modal' \in Status
  BY DEF Prove, AttemptGoes, Status, IInv, TypeOK
<1> QED
  BY <1>1, ClientInv DEF Prove, IInv, TypeOK, channel

LEMMA VerifyInv == ASSUME IInv, NEW a \in Attempt, Verify(a) PROVE IInv'
<1>1. \E to \in {"ask", "prove", "submit", "verify", "clear", "refused", "over"} :
        attempt' = [attempt EXCEPT ![a] = to]
  BY DEF Verify, AttemptGoes
<1> QED
  BY <1>1, ClientInv DEF Verify, IInv, TypeOK, channel, client

LEMMA AnswerInv == ASSUME IInv, NEW a \in Attempt, Answer(a) PROVE IInv'
<1>1. \/ attempt[a] = "accepted" /\ attempt' = [attempt EXCEPT ![a] = "answered"]
      \/ attempt' = [attempt EXCEPT ![a] = "over"]
  BY DEF Answer, AttemptGoes
<1>2. modal' \in Status /\ hiding' \in Nat
  BY DEF Answer, Status, IInv, TypeOK
<1>3. UNCHANGED <<redis, scores, session, channel, leaving, history>>
  BY DEF Answer
<1> QED
  BY <1>1, <1>2, <1>3, ClientInv DEF IInv, TypeOK, channel

(* The DEL opens the gate, and finds out whether a score is being handled.  *)
LEMMA ClearInv == ASSUME IInv, NEW a \in Attempt, Clear(a) PROVE IInv'
<1>1. CASE /\ AttemptGoes(a, "clear", "getEntry")
           /\ Unset
           /\ disturbed' = IF Handled = {} THEN disturbed \ {a} ELSE disturbed \union {a}
  <2>1. UNCHANGED <<session, entry, scores, channel, client, lost, withdrawn>>
    BY DEF Clear
  <2>2. stepUp' = FALSE /\ opened' \subseteq Score /\ Gated'
    BY <1>1, <2>1, UnsetKeeps DEF scores
  <2>3. attempt' = [attempt EXCEPT ![a] = "getEntry"]
    BY <1>1 DEF AttemptGoes
  <2>4. disturbed' \subseteq Attempt
    BY <1>1 DEF IInv, TypeOK
  <2>5. TypeOK'
    BY <2>1, <2>2, <2>3, <2>4 DEF IInv, TypeOK, AttemptStep, scores, session, channel, client
  <2>6. Quiet'
    <3> SUFFICES ASSUME NEW b \in Attempt \ disturbed'
                 PROVE  /\ attempt'[b] \in {"getEntry", "setEntry", "accepted", "answered"} =>
                             \A p \in Score : score[p] \notin ScoreStep
                        /\ attempt'[b] \in {"accepted", "answered"} => entry # "required"
      BY <2>1, <2>2 DEF Quiet, scores
    <3>1. CASE b = a
      <4>1. Handled = {}
        BY <1>1, <3>1
      <4>2. \A p \in Score : score[p] \notin ScoreStep
        BY <4>1 DEF Handled
      <4> QED
        BY <3>1, <2>3, <4>2 DEF IInv, TypeOK
    <3>2. CASE b # a
      <4>1. b \notin disturbed /\ attempt'[b] = attempt[b]
        BY <1>1, <2>3, <3>2 DEF IInv, TypeOK
      <4> QED
        BY <4>1 DEF IInv, Quiet
    <3> QED
      BY <3>1, <3>2
  <2> QED
    BY <2>2, <2>5, <2>6 DEF IInv
<1>2. CASE AttemptGoes(a, "clear", "refused") /\ UNCHANGED <<stepUp, opened, disturbed>>
  <2>1. attempt' = [attempt EXCEPT ![a] = "refused"]
    BY <1>2 DEF AttemptGoes
  <2> QED
    BY <1>2, <2>1, ClientInv DEF Clear, redis, history, channel, client, IInv, TypeOK
<1> QED
  BY <1>1, <1>2 DEF Clear

LEMMA ReadEntryToClearInv == ASSUME IInv, NEW a \in Attempt, ReadEntryToClear(a) PROVE IInv'
<1> USE DEF IInv, redis, scores, session, channel, client, history
<1>1. /\ attempt[a] = "getEntry"
      /\ \/ entry = "none" /\ attempt' = [attempt EXCEPT ![a] = "accepted"]
         \/ attempt' = [attempt EXCEPT ![a] = "setEntry"]
         \/ attempt' = [attempt EXCEPT ![a] = "refused"]
      /\ UNCHANGED <<redis, scores, session, channel, client, history>>
  BY DEF ReadEntryToClear, AttemptGoes
<1>2. TypeOK'
  BY <1>1 DEF TypeOK, AttemptStep
<1>3. Gated'
  BY <1>1, GatedKeeps
<1>4. Quiet'
  BY <1>1 DEF TypeOK, Quiet
<1> QED
  BY <1>2, <1>3, <1>4

LEMMA ClearEntryInv == ASSUME IInv, NEW a \in Attempt, ClearEntry(a) PROVE IInv'
<1> USE DEF IInv, scores, session, channel, client, history
<1>1. /\ attempt[a] = "setEntry"
      /\ \/ entry' = "clear" /\ attempt' = [attempt EXCEPT ![a] = "accepted"]
         \/ entry' = entry /\ attempt' = [attempt EXCEPT ![a] = "refused"]
      /\ UNCHANGED <<stepUp, scores, session, channel, client, history>>
  BY DEF ClearEntry, AttemptGoes
<1>2. TypeOK'
  BY <1>1 DEF TypeOK, AttemptStep, Entry
<1>3. Gated'
  BY <1>1, GatedKeeps
<1>4. Quiet'
  BY <1>1 DEF TypeOK, Quiet
<1> QED
  BY <1>2, <1>3, <1>4

LEMMA DeliverInv == ASSUME IInv, Deliver PROVE IInv'
<1>1. inbox' \in Seq(Message)
  <2> HIDE DEF Message
  <2> QED
    BY DEF Deliver, IInv, TypeOK
<1>2. modal' \in Status /\ leaving' \in BOOLEAN
  BY DEF Deliver, Status, IInv, TypeOK
<1> QED
  BY <1>1, <1>2, ClientInv DEF Deliver, IInv, TypeOK

LEMMA TimerInv == ASSUME IInv, Countdown \/ HideTimer \/ LeaveTimer PROVE IInv'
<1>0. \A n \in Nat : n > 0 => n - 1 \in Nat
  OBVIOUS
<1>1. modal' \in Status /\ hiding' \in Nat /\ leaving' \in BOOLEAN
  BY <1>0 DEF Countdown, HideTimer, LeaveTimer, Status, IInv, TypeOK
<1>2. UNCHANGED <<redis, scores, attempt, session, channel, history>>
  BY DEF Countdown, HideTimer, LeaveTimer
<1> QED
  BY <1>1, <1>2, ClientInv DEF channel, IInv, TypeOK

LEMMA ChannelInv == ASSUME IInv, Disconnect \/ Reconnect PROVE IInv'
<1>1. << >> \in Seq(Message)
  OBVIOUS
<1>2. inbox' \in Seq(Message)
  BY <1>1 DEF Disconnect, Reconnect, IInv, TypeOK
<1>3. socket' \in {"open", "closed"} /\ UNCHANGED <<redis, scores, attempt, session, client, history>>
  BY DEF Disconnect, Reconnect, IInv, TypeOK
<1> QED
  BY <1>2, <1>3, ClientInv DEF client, IInv, TypeOK

LEMMA KeyExpiresInv == ASSUME IInv, KeyExpires PROVE IInv'
<1>1. UNCHANGED <<session, entry, scores, attempt, channel, client, lost, withdrawn, disturbed>>
  BY DEF KeyExpires
<1>2. stepUp' = FALSE /\ opened' \subseteq Score /\ Gated'
  BY <1>1, UnsetKeeps DEF KeyExpires, scores
<1>3. TypeOK' /\ Quiet'
  BY <1>1, <1>2 DEF IInv, TypeOK, Quiet, scores, session, channel, client
<1> QED
  BY <1>2, <1>3 DEF IInv

(* The cache entry goes or is written anew; never with the requirement.     *)
LEMMA EntryInv == ASSUME IInv, Reseed \/ EntryGoes PROVE IInv'
<1>1. /\ entry' \in {"none", "clear"}
      /\ UNCHANGED <<session, stepUp, scores, attempt, channel, client, history>>
  BY DEF Reseed, EntryGoes
<1> USE DEF IInv, scores, session, channel, client, history
<1>2. TypeOK'
  BY <1>1 DEF TypeOK, Entry
<1>3. Gated'
  BY <1>1, GatedKeeps
<1>4. Quiet'
  BY <1>1 DEF Quiet
<1> QED
  BY <1>2, <1>3, <1>4

-----------------------------------------------------------------------------
(* A revocation.  What its steps do to the gate, whoever takes them: the    *)
(* key stays or is withdrawn, and the excuse stays until the row is revoked. *)
LEMMA RevokingType ==
  ASSUME TypeOK, NEW r \in Revocation, Revoking(r)
  PROVE  TypeOK'
<1>1. revoked' \in BOOLEAN /\ entry' \in Entry /\ stepUp' \in BOOLEAN
  BY DEF Revoking, FindTarget, DelEntry, DelKey, RecoveryDeletes, Withdraw, RevokeRow,
         PushTerminated, TypeOK, Entry, redis
<1>2. revocation' \in [Revocation -> {"idle", "answered", "failed"} \union RevocationStep]
  BY DEF Revoking, FindTarget, DelEntry, DelKey, RecoveryDeletes, RevokeRow, PushTerminated,
         RevocationGoes, RevocationStep, TypeOK
<1>3. withdrawn' \in [Revocation -> SUBSET Score]
  BY DEF Revoking, FindTarget, DelEntry, DelKey, RecoveryDeletes, Withdraw, RevokeRow,
         PushTerminated, Gating, TypeOK, history
<1>4. inbox' \in Seq(Message)
  <2>1. "SESSION_TERMINATED" \in Message
    BY DEF Message
  <2>2. CASE PushTerminated(r)
    BY <2>1, <2>2, SendType DEF PushTerminated
  <2>3. CASE ~PushTerminated(r)
    BY <2>3 DEF Revoking, FindTarget, DelEntry, DelKey, RecoveryDeletes, RevokeRow, channel, TypeOK
  <2> QED
    BY <2>2, <2>3
<1>5. UNCHANGED <<scores, attempt, socket, client, lost, opened, disturbed>>
  BY DEF Revoking, FindTarget, DelEntry, DelKey, RecoveryDeletes, RevokeRow, PushTerminated,
         channel, history
<1> QED
  BY <1>1, <1>2, <1>3, <1>4, <1>5 DEF TypeOK, scores, client

LEMMA RevokingGated ==
  ASSUME IInv, NEW r \in Revocation, Revoking(r)
  PROVE  Gated'
<1> USE DEF IInv
<1>1. UNCHANGED <<scores, lost, opened>>
  BY DEF Revoking, FindTarget, DelEntry, DelKey, RecoveryDeletes, RevokeRow, PushTerminated, history
<1>2. Gating' = Gating /\ Gating \subseteq Score
  BY <1>1 DEF Gating, scores, TypeOK
<1>3. revoked = TRUE => revoked' = TRUE
  BY DEF Revoking, FindTarget, DelEntry, DelKey, RecoveryDeletes, RevokeRow, PushTerminated
<1>4. CASE revoked' = TRUE
  BY <1>4 DEF Gated
<1>5. CASE revoked' # TRUE
  <2> DEFINE Open == {"update", "commit", "failed"}
  <2>1. revocation[r] \in Open => revocation'[r] \in Open
    BY <1>5 DEF Revoking, FindTarget, DelEntry, DelKey, RecoveryDeletes, RevokeRow,
                PushTerminated, RevocationGoes, TypeOK
  <2>2. \A q \in Revocation \ {r} : revocation'[q] = revocation[q] /\ withdrawn'[q] = withdrawn[q]
    BY DEF Revoking, FindTarget, DelEntry, DelKey, RecoveryDeletes, Withdraw, RevokeRow,
           PushTerminated, RevocationGoes, TypeOK, history
  <2>3. withdrawn[r] \subseteq withdrawn'[r]
    BY DEF Revoking, FindTarget, DelEntry, DelKey, RecoveryDeletes, Withdraw, RevokeRow,
           PushTerminated, TypeOK, history
  <2>4. LeftOpen \subseteq LeftOpen'
    BY <2>1, <2>2, <2>3 DEF LeftOpen
  <2>5. CASE UNCHANGED stepUp
    BY <1>1, <1>2, <1>3, <1>5, <2>4, <2>5 DEF Gated
  <2>6. CASE Withdraw(r) /\ revocation'[r] \in Open
    <3>1. CASE stepUp = TRUE
      <4>1. Gating \subseteq withdrawn'[r]
        BY <2>6, <3>1 DEF Withdraw, TypeOK
      <4>2. Gating \subseteq LeftOpen'
        BY <2>6, <4>1 DEF LeftOpen
      <4> QED
        BY <1>2, <4>2 DEF Gated
    <3>2. CASE stepUp # TRUE
      BY <1>1, <1>2, <1>3, <1>5, <2>4, <3>2 DEF Gated
    <3> QED
      BY <3>1, <3>2
  <2>7. UNCHANGED stepUp \/ (Withdraw(r) /\ revocation'[r] \in Open)
    BY DEF Revoking, FindTarget, DelEntry, DelKey, RecoveryDeletes, RevokeRow, PushTerminated,
           RevocationGoes, TypeOK, redis
  <2> QED
    BY <2>5, <2>6, <2>7
<1> QED
  BY <1>4, <1>5

LEMMA RevokingInv == ASSUME IInv, NEW r \in Revocation, Revoking(r) PROVE IInv'
<1>1. /\ UNCHANGED <<score, attempt, disturbed>>
      /\ stepUp = FALSE => stepUp' = FALSE
      /\ entry # "required" => entry' # "required"
  BY DEF Revoking, FindTarget, DelEntry, DelKey, RecoveryDeletes, Withdraw, RevokeRow,
         PushTerminated, redis, scores, history
<1>2. Quiet'
  BY <1>1 DEF IInv, Quiet
<1> QED
  BY <1>2, RevokingType, RevokingGated DEF IInv

LEMMA NextInv == IInv /\ [Next]_vars => IInv'
<1> SUFFICES ASSUME IInv, [Next]_vars PROVE IInv'
  OBVIOUS
<1>1. ASSUME NEW p \in Score, NEW closed \in BOOLEAN, NEW reaches \in BOOLEAN,
             ScoreArrives(p, closed, reaches)
      PROVE  IInv'
  <2>1. score[p] = "idle" /\ score' = [score EXCEPT ![p] = "get"]
    BY <1>1 DEF ScoreArrives, ScoreGoes
  <2>2. high' \in {high, high \union {p}}
    BY <1>1 DEF ScoreArrives
  <2> QED
    BY <1>1, <2>1, <2>2, ArriveInv DEF ScoreArrives
<1>2. ASSUME NEW p \in Score, DevTrigger(p) PROVE IInv'
  BY <1>2, ArriveInv DEF DevTrigger, ScoreGoes
<1>3. ASSUME NEW p \in Score, Handling(p) PROVE IInv'
  BY <1>3, HandleInv
<1>4. ASSUME NEW a \in Attempt, ReAuth(a) PROVE IInv'
  BY <1>4, ReAuthInv
<1>5. ASSUME NEW a \in Attempt, Trying(a) PROVE IInv'
  BY <1>5, LookForPendingInv, ProveInv, VerifyInv, ClearInv, ReadEntryToClearInv,
     ClearEntryInv, AnswerInv DEF Trying
<1>6. CASE Deliver \/ Countdown \/ HideTimer \/ LeaveTimer
  BY <1>6, DeliverInv, TimerInv
<1>7. CASE Disconnect \/ Reconnect \/ KeyExpires \/ Reseed \/ EntryGoes
  BY <1>7, ChannelInv, KeyExpiresInv, EntryInv
<1>8. CASE UNCHANGED vars
  BY <1>8, ClientInv DEF vars, channel, client, IInv, TypeOK
<1>9. ASSUME NEW r \in Revocation, Revoking(r) PROVE IInv'
  BY <1>9, RevokingInv
<1> QED
  BY <1>1, <1>2, <1>3, <1>4, <1>5, <1>6, <1>7, <1>8, <1>9 DEF Next

-----------------------------------------------------------------------------
LEMMA InvHolds == Spec => []IInv
BY InitInv, NextInv, PTL DEF Spec

(* Redis, scores, attempts, revocations and the modal keep their types, for *)
(* any number of them (risk.service.ts, StepUpModal.tsx).               *)
THEOREM StepUpTypeCorrect == Spec => []TypeOK
BY InvHolds, PTL DEF IInv

(* However many scores, resolutions and revocations overlap, a score that   *)
(* asked for a step-up leaves the gate of a session that is not revoked     *)
(* closed, until a proof or the TTL opens it or a revocation deletes the    *)
(* key and does not come to its end (risk.service.ts, _triggerStepUp and    *)
(* resolveStepUp; session.controller.ts, postRevokeSession).                *)
THEOREM HighScoresGate == Spec => []HighScoreIsGated
<1>1. IInv => HighScoreIsGated
  <2> SUFFICES ASSUME IInv, ~revoked, NEW p \in high \ lost, score[p] = "done"
               PROVE  GateClosed \/ p \in opened \union LeftOpen
    BY DEF HighScoreIsGated
  <2>1. p \in Gating \ lost
    BY DEF Gating
  <2> QED
    BY <2>1 DEF IInv, Gated, GateClosed
<1> QED
  BY <1>1, InvHolds, PTL

(* However many other resolutions overlap, one that no score disturbs has   *)
(* cleared the key and the cache entry when it is answered                  *)
(* (risk.service.ts, resolveStepUp).                                        *)
THEOREM ResolutionsClear == Spec => []ResolutionClearsBoth
<1>1. IInv => ResolutionClearsBoth
  BY DEF IInv, Quiet, ResolutionClearsBoth
<1> QED
  BY <1>1, InvHolds, PTL

-----------------------------------------------------------------------------
(* The risk monitor.                                                        *)

(* An attack comes from the panel of "collecting", so no button that starts *)
(* to collect is on the page during one.                                    *)
AttackPanel == phase = "attacking" => panel \in Monitoring

DemoInv == DemoTypeOK /\ AttackPanel /\ MonitorIsHonest

LEMMA DemoInitInv == DemoInit => DemoInv
<1> SUFFICES ASSUME DemoInit PROVE DemoInv
  OBVIOUS
<1>1. attacker \subseteq Interval /\ Cardinality(attacker) <= 1
  BY FS_EmptySet DEF DemoInit
<1>2. /\ ticking \subseteq Interval /\ starts \in Nat /\ restores \in Nat
      /\ collecting \in BOOLEAN /\ reauthing \in BOOLEAN /\ strayed \in BOOLEAN
  BY DEF DemoInit
<1>3. phase = "idle" /\ panel = "idle" /\ reAuthResult = "none"
  BY DEF DemoInit
<1>4. DemoTypeOK
  BY <1>1, <1>2, <1>3 DEF DemoTypeOK, Phase
<1> QED
  BY <1>4 DEF DemoInit, DemoInv, AttackPanel, MonitorIsHonest, SendsOnlyWhatItShows, ShowsWhatItDoes, Monitoring

LEMMA DemoStepType == DemoTypeOK /\ [DemoNext]_demoVars => DemoTypeOK'
<1> SUFFICES ASSUME DemoTypeOK, [DemoNext]_demoVars PROVE DemoTypeOK'
  OBVIOUS
<1>1. phase' \in Phase \union {"unmounted"} /\ panel' \in Phase
  BY DEF DemoTypeOK, DemoNext, demoVars, page, Alarm, TriggerLock, StartCollecting, StartsCollecting,
         StartFires, SimulateAttacker, LateTick, PanelChanges, HandleReAuth, ReAuthAnswers,
         RestoreFires, ResetDemo, Unmount, SetPhase, Mounted, Phase, Monitoring
<1>2. collecting' \in BOOLEAN /\ reauthing' \in BOOLEAN /\ strayed' \in BOOLEAN
  BY DEF DemoTypeOK, DemoNext, demoVars, proof, Alarm, TriggerLock, StartCollecting,
         StartsCollecting, StartFires, SimulateAttacker, LateTick, PanelChanges, HandleReAuth, ReAuthAnswers,
         RestoreFires, ResetDemo, Unmount, Strays, Settles
<1>3. reAuthResult' \in {"none", "success", "failed"}
  BY DEF DemoTypeOK, DemoNext, demoVars, proof, Alarm, StartCollecting, StartFires,
         SimulateAttacker, LateTick, PanelChanges, HandleReAuth, ReAuthAnswers, RestoreFires, ResetDemo, Unmount
<1>4. starts' \in Nat /\ restores' \in Nat
  BY DEF DemoTypeOK, DemoNext, demoVars, proof, Alarm, StartCollecting, StartFires,
         SimulateAttacker, LateTick, PanelChanges, HandleReAuth, ReAuthAnswers, RestoreFires, ResetDemo, Unmount
<1>5. ticking' \subseteq Interval
  BY DEF DemoTypeOK, DemoNext, demoVars, timers, Alarm, TriggerLock, ClearAttacker,
         StartCollecting, StartFires, SimulateAttacker, LateTick, PanelChanges, HandleReAuth, ReAuthAnswers,
         RestoreFires, ResetDemo, Unmount
<1>6. attacker' = attacker \/ \E i \in Interval : attacker' = {i}
  BY DEF DemoNext, demoVars, timers, Alarm, TriggerLock, ClearAttacker,
         StartCollecting, StartFires, SimulateAttacker, LateTick, PanelChanges, HandleReAuth, ReAuthAnswers,
         RestoreFires, ResetDemo, Unmount
<1>7. attacker' \subseteq Interval /\ Cardinality(attacker') <= 1
  <2>1. CASE attacker' = attacker
    BY <2>1 DEF DemoTypeOK
  <2>2. ASSUME NEW i \in Interval, attacker' = {i}
        PROVE  attacker' \subseteq Interval /\ Cardinality(attacker') <= 1
    <3>1. Cardinality({i}) = 1
      BY FS_Singleton
    <3> QED
      BY <2>2, <3>1
  <2> QED
    BY <1>6, <2>1, <2>2
<1> QED
  BY <1>1, <1>2, <1>3, <1>4, <1>5, <1>7 DEF DemoTypeOK

LEMMA DemoStepInv == DemoInv /\ [DemoNext]_demoVars => DemoInv'
<1> SUFFICES ASSUME DemoInv, [DemoNext]_demoVars PROVE AttackPanel' /\ MonitorIsHonest'
  BY DemoStepType DEF DemoInv
<1> USE DEF DemoInv, AttackPanel, MonitorIsHonest, SendsOnlyWhatItShows, ShowsWhatItDoes, Mounted, Monitoring
<1>0. strayed \in BOOLEAN
  BY DEF DemoTypeOK
<1>1. CASE Alarm
  BY <1>0, <1>1 DEF Alarm, TriggerLock, ClearAttacker, Settles, SetPhase
<1>2. CASE StartCollecting
  BY <1>2 DEF StartCollecting, StartsCollecting, SetPhase, Shown, page, timers
<1>3. CASE StartFires
  BY <1>0, <1>3 DEF StartFires, StartsCollecting, SetPhase, Strays, timers
<1>4. ASSUME NEW i \in Interval, SimulateAttacker(i)
      PROVE  AttackPanel' /\ MonitorIsHonest'
  BY <1>0, <1>4 DEF SimulateAttacker, SetPhase, Shown
<1>5. ASSUME NEW i \in Interval, LateTick(i)
      PROVE  AttackPanel' /\ MonitorIsHonest'
  BY <1>0, <1>5 DEF LateTick, TriggerLock, ClearAttacker, Settles, SetPhase, page
<1>6. CASE PanelChanges \/ HandleReAuth \/ ReAuthAnswers
  BY <1>6 DEF PanelChanges, HandleReAuth, ReAuthAnswers, page, timers
<1>7. CASE RestoreFires
  BY <1>0, <1>7 DEF RestoreFires, SetPhase, Strays, timers
<1>8. CASE ResetDemo
  BY <1>0, <1>8 DEF ResetDemo, ClearAttacker, Settles, SetPhase, Shown
<1>9. CASE Unmount
  BY <1>9 DEF Unmount
<1>10. CASE UNCHANGED demoVars
  BY <1>10 DEF demoVars, page, timers
<1> QED
  BY <1>1, <1>2, <1>3, <1>4, <1>5, <1>6, <1>7, <1>8, <1>9, <1>10 DEF DemoNext

(* The page, the timers and the delayed callbacks keep their types.        *)
THEOREM DemoTypeCorrect == DemoSpec => []DemoTypeOK
<1>1. DemoInv => DemoTypeOK
  BY DEF DemoInv
<1> QED
  BY DemoInitInv, DemoStepInv, <1>1, PTL DEF DemoSpec

(* BehavioralAuthDemo.tsx:66-98, 163-217, 278-289, for any number of        *)
(* timers: events are sent only while the page says so; unless a callback   *)
(* or a click came late, whenever it says so, and an imitated attack ends   *)
(* with its phase.                                                          *)
THEOREM MonitorHonest == DemoSpec => []MonitorIsHonest
<1>1. DemoInv => MonitorIsHonest
  BY DEF DemoInv
<1> QED
  BY DemoInitInv, DemoStepInv, <1>1, PTL DEF DemoSpec
=============================================================================
