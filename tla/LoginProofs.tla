---------------------------- MODULE LoginProofs -----------------------------
(***************************************************************************)
(* Proofs about ZkpLogin, for any number of users, challenges and requests, *)
(* and any pattern of lost keys, failed calls and crashes; and about        *)
(* WebTab, from which a holder logs in, for any number of sockets; and      *)
(* about the rate limiter that the login passes.                            *)
(***************************************************************************)
EXTENDS ZkpLogin, WebTab, RateLimiter, FiniteSetTheorems, TLAPS

(* The strengthening.  None of the properties below is inductive alone:     *)
(* each gate is safe only because what it tested cannot come back.          *)

\* Proofs are only submitted for challenges whose issue() has finished.
ArrivedIsIssued ==
  \A r \in Request : pc[r] # "arriving" => issuing[C(r)] = "issued"

\* Nothing is deleted from the nullifiers table.
RegisteredHasRow == \A r \in Request : Registered(r) => N(r) \in nullifierRows

\* No key is stored again for a challenge that was issued.
ConsumedHasNoKey == \A r \in Request : Consumed(r) => C(r) \notin challengeKeys

\* Whoever marks a row CONSUMED is a step-up, or has its nullifier recorded.
ConsumedRowHasCause ==
  \A c \in Challenge : challengeRow[c] = "CONSUMED" =>
    \/ \E n \in nullifierRows : n[2] = c
    \/ \E r \in Answered(c) : body[r].kind = "stepUp"

IInv ==
  /\ TypeOK
  /\ ArrivedIsIssued
  /\ RegisteredHasRow
  /\ ConsumedHasNoKey
  /\ ConsumedRowHasCause
  /\ OneRegistrationPerChallenge
  /\ OneConsumerPerChallenge

-----------------------------------------------------------------------------
(* Every handler step leaves pc a function to the listed program points.    *)
LEMMA InitIInv == Init => IInv
<1> SUFFICES ASSUME Init PROVE IInv
  OBVIOUS
<1>1. TypeOK
  BY DEF Init, TypeOK
<1>2. ArrivedIsIssued
  BY DEF Init, ArrivedIsIssued
<1>3. \A r \in Request : ~Registered(r) /\ ~Consumed(r)
  BY DEF Init, Registered, Consumed, Accepting
<1>4. RegisteredHasRow /\ ConsumedHasNoKey /\ OneRegistrationPerChallenge
        /\ OneConsumerPerChallenge
  BY <1>3 DEF RegisteredHasRow, ConsumedHasNoKey, OneRegistrationPerChallenge,
              OneConsumerPerChallenge
<1>5. ConsumedRowHasCause
  BY DEF Init, ConsumedRowHasCause
<1> QED
  BY <1>1, <1>2, <1>4, <1>5 DEF IInv

LEMMA TypeStep == TypeOK /\ [Next]_vars => TypeOK'
<1> SUFFICES ASSUME TypeOK, [Next]_vars PROVE TypeOK'
  OBVIOUS
<1> USE DEF TypeOK, Handling, Outcome
<1>1. ASSUME NEW c \in Challenge, Issue(c) \/ ChallengeExpires(c) PROVE TypeOK'
  BY <1>1 DEF Issue, IssueStore, IssuePersist, IssueCleanUp, ChallengeExpires, Disturb,
              redisVars, pgVars
<1>2. ASSUME NEW n \in Nullifier, LockExpires(n) PROVE TypeOK'
  BY <1>2 DEF LockExpires, Disturb, pgVars
<1>3. CASE RedisLost
  BY <1>3 DEF RedisLost, Disturb, pgVars
<1>4. ASSUME NEW r \in Request, Arrive(r) \/ Handle(r) \/ Fault(r) PROVE TypeOK'
  <2>1. N(r) \in Nullifier /\ C(r) \in Challenge
    BY DEF N, C, Nullifier, Body
  <2> USE <2>1 DEF At, GoTo, redisVars, pgVars
  <2>2. CASE Arrive(r)
    BY <2>2 DEF Arrive, FirstStep
  <2>3. CASE ReadPendingStepUp(r) \/ FetchChallenge(r) \/ CheckNullifier(r)
    BY <2>3 DEF ReadPendingStepUp, FetchChallenge, CheckNullifier
  <2>4. CASE VerifyProof(r)
    BY <2>4 DEF VerifyProof, AfterVerify
  <2>5. CASE AcquireLock(r)
    BY <2>5 DEF AcquireLock
  <2>6. CASE AddMember(r) \/ RollBack(r)
    BY <2>6 DEF AddMember, RollBack
  <2>7. CASE InsertRow(r) \/ InsertReplyLost(r)
    BY <2>7 DEF InsertRow, InsertReplyLost, Disturb
  <2>8. CASE ReleaseLock(r)
    BY <2>8 DEF ReleaseLock, AfterRegister
  <2>9. CASE ConsumeKey(r)
    BY <2>9 DEF ConsumeKey
  <2>10. CASE MarkConsumed(r)
    BY <2>10 DEF MarkConsumed, AfterConsume
  <2>11. CASE Grant(r) \/ Crash(r)
    BY <2>11 DEF Grant, Crash, Disturb
  <2>12. CASE RedisCallFails(r)
    <3>1. pc' \in [Request -> {"arriving"} \union Handling \union Outcome]
      BY <2>12 DEF RedisCallFails, AfterRegister
    <3>2. challengeKeys' \subseteq Challenge /\ nullifierSet' \subseteq Nullifier
            /\ lockKeys' \subseteq Nullifier
      BY <2>12 DEF RedisCallFails
    <3> QED
      BY <2>12, <3>1, <3>2 DEF RedisCallFails, Disturb
  <2> QED
    BY <1>4, <2>2, <2>3, <2>4, <2>5, <2>6, <2>7, <2>8, <2>9, <2>10, <2>11, <2>12
       DEF Handle, Register, Fault
<1>5. CASE UNCHANGED vars
  BY <1>5 DEF vars
<1> QED
  BY <1>1, <1>2, <1>3, <1>4, <1>5 DEF Next

-----------------------------------------------------------------------------
(* What one step can do, whoever takes it: the facts the invariance proof   *)
(* cites instead of the actions.                                            *)

\* The stores only move one way.
StoresMoveForward ==
  /\ body' = body
  /\ nullifierRows \subseteq nullifierRows'
  /\ \A c \in Challenge : issuing[c] = "issued" =>
       issuing'[c] = "issued" /\ (c \notin challengeKeys => c \notin challengeKeys')
  /\ \A r \in Request : pc[r] # "arriving" => pc'[r] # "arriving"
  /\ \A r \in Request : pc[r] = "arriving" /\ pc'[r] # "arriving" =>
       issuing[C(r)] = "issued"

\* A request becomes Registered by inserting the first row of its challenge.
RegistersAlone(r) ==
  /\ ~UniqueViolation(r)
  /\ N(r) \in nullifierRows'
  /\ \A q \in Request \ {r} : pc'[q] = pc[q]

\* A request becomes Consumed by deleting the key of its challenge.
ConsumesAlone(r) ==
  /\ C(r) \in challengeKeys
  /\ C(r) \notin challengeKeys'
  /\ \A q \in Request \ {r} : pc'[q] = pc[q]

LEMMA StoresStep == TypeOK /\ [Next]_vars => StoresMoveForward
<1> SUFFICES ASSUME TypeOK, [Next]_vars PROVE StoresMoveForward
  OBVIOUS
<1> USE DEF TypeOK, StoresMoveForward
<1>1. ASSUME NEW c \in Challenge, Issue(c) \/ ChallengeExpires(c) PROVE StoresMoveForward
  BY <1>1 DEF Issue, IssueStore, IssuePersist, IssueCleanUp, ChallengeExpires,
              redisVars, pgVars
<1>2. CASE RedisLost \/ \E n \in Nullifier : LockExpires(n)
  BY <1>2 DEF RedisLost, LockExpires, pgVars
<1>3. ASSUME NEW r \in Request, Arrive(r) \/ Handle(r) \/ Fault(r) PROVE StoresMoveForward
  <2> USE DEF At, GoTo, redisVars, pgVars
  <2>1. CASE Arrive(r)
    BY <2>1 DEF Arrive, FirstStep
  <2>2. CASE ReadPendingStepUp(r) \/ FetchChallenge(r) \/ CheckNullifier(r)
    BY <2>2 DEF ReadPendingStepUp, FetchChallenge, CheckNullifier
  <2>3. CASE VerifyProof(r) \/ AcquireLock(r)
    BY <2>3 DEF VerifyProof, AfterVerify, AcquireLock
  <2>4. CASE AddMember(r) \/ RollBack(r)
    BY <2>4 DEF AddMember, RollBack
  <2>5. CASE InsertRow(r) \/ InsertReplyLost(r)
    BY <2>5 DEF InsertRow, InsertReplyLost
  <2>6. CASE ReleaseLock(r)
    BY <2>6 DEF ReleaseLock, AfterRegister
  <2>7. CASE ConsumeKey(r)
    BY <2>7 DEF ConsumeKey
  <2>8. CASE MarkConsumed(r)
    BY <2>8 DEF MarkConsumed, AfterConsume
  <2>9. CASE Grant(r) \/ Crash(r)
    BY <2>9 DEF Grant, Crash, Handling
  <2>10. CASE RedisCallFails(r)
    <3>1. body' = body /\ issuing' = issuing /\ nullifierRows' = nullifierRows
            /\ challengeKeys' \subseteq challengeKeys
      BY <2>10 DEF RedisCallFails
    <3>2. /\ pc[r] # "arriving" /\ pc'[r] # "arriving"
          /\ \A q \in Request \ {r} : pc'[q] = pc[q]
      BY <2>10 DEF RedisCallFails, AfterRegister
    <3> QED
      BY <3>1, <3>2
  <2> QED
    BY <1>3, <2>1, <2>2, <2>3, <2>4, <2>5, <2>6, <2>7, <2>8, <2>9, <2>10
       DEF Handle, Register, Fault
<1>4. CASE UNCHANGED vars
  BY <1>4 DEF vars
<1> QED
  BY <1>1, <1>2, <1>3, <1>4 DEF Next

LEMMA RegisteredStep ==
  ASSUME TypeOK, [Next]_vars, NEW r \in Request, Registered(r)', ~Registered(r)
  PROVE  RegistersAlone(r)
<1> USE DEF TypeOK, Registered, Accepting
<1>1. pc'[r] # pc[r] /\ ~UNCHANGED pc /\ body' = body
  BY StoresStep DEF StoresMoveForward
<1>2. PICK q \in Request : Arrive(q) \/ Handle(q) \/ Fault(q)
  BY <1>1 DEF Next, vars, Issue, IssueStore, IssuePersist, IssueCleanUp,
              ChallengeExpires, LockExpires, RedisLost
<1>3. body[r].kind \in {"login", "stepUp"}
  BY DEF Body
<1> USE DEF At, GoTo
<1>4. CASE InsertRow(q) \/ InsertReplyLost(q)
  BY <1>1, <1>4 DEF InsertRow, InsertReplyLost, RegistersAlone
<1>5. CASE Arrive(q) \/ ReadPendingStepUp(q) \/ FetchChallenge(q) \/ CheckNullifier(q)
  BY <1>1, <1>5 DEF Arrive, FirstStep, ReadPendingStepUp, FetchChallenge, CheckNullifier
<1>6. CASE VerifyProof(q) \/ AcquireLock(q) \/ AddMember(q) \/ RollBack(q)
  BY <1>1, <1>3, <1>6 DEF VerifyProof, AfterVerify, AcquireLock, AddMember, RollBack
<1>7. CASE ReleaseLock(q)
  BY <1>1, <1>7 DEF ReleaseLock, AfterRegister
<1>8. CASE ConsumeKey(q) \/ MarkConsumed(q)
  BY <1>1, <1>3, <1>8 DEF ConsumeKey, MarkConsumed, AfterConsume
<1>9. CASE Grant(q) \/ Crash(q)
  BY <1>1, <1>9 DEF Grant, Crash
<1>10. CASE RedisCallFails(q)
  BY <1>1, <1>10 DEF RedisCallFails, AfterRegister
<1> QED
  BY <1>2, <1>4, <1>5, <1>6, <1>7, <1>8, <1>9, <1>10 DEF Handle, Register, Fault

LEMMA ConsumedStep ==
  ASSUME TypeOK, [Next]_vars, NEW r \in Request, Consumed(r)', ~Consumed(r)
  PROVE  ConsumesAlone(r)
<1> USE DEF TypeOK, Consumed, Accepting
<1>1. pc'[r] # pc[r] /\ ~UNCHANGED pc /\ body' = body
  BY StoresStep DEF StoresMoveForward
<1>2. PICK q \in Request : Arrive(q) \/ Handle(q) \/ Fault(q)
  BY <1>1 DEF Next, vars, Issue, IssueStore, IssuePersist, IssueCleanUp,
              ChallengeExpires, LockExpires, RedisLost
<1>3. body[r].kind \in {"login", "stepUp"}
  BY DEF Body
<1> USE DEF At, GoTo
<1>4. CASE ConsumeKey(q)
  BY <1>1, <1>4 DEF ConsumeKey, ConsumesAlone
<1>5. CASE Arrive(q) \/ ReadPendingStepUp(q) \/ FetchChallenge(q) \/ CheckNullifier(q)
  BY <1>1, <1>5 DEF Arrive, FirstStep, ReadPendingStepUp, FetchChallenge, CheckNullifier
<1>6. CASE VerifyProof(q) \/ AcquireLock(q) \/ AddMember(q) \/ RollBack(q)
  BY <1>1, <1>3, <1>6 DEF VerifyProof, AfterVerify, AcquireLock, AddMember, RollBack
<1>7. CASE ReleaseLock(q) \/ InsertRow(q) \/ InsertReplyLost(q)
  BY <1>1, <1>3, <1>7 DEF ReleaseLock, AfterRegister, InsertRow, InsertReplyLost
<1>8. CASE MarkConsumed(q)
  BY <1>1, <1>3, <1>8 DEF MarkConsumed, AfterConsume
<1>9. CASE Grant(q) \/ Crash(q)
  BY <1>1, <1>9 DEF Grant, Crash
<1>10. CASE RedisCallFails(q)
  BY <1>1, <1>3, <1>10 DEF RedisCallFails, AfterRegister
<1> QED
  BY <1>2, <1>4, <1>5, <1>6, <1>7, <1>8, <1>9, <1>10 DEF Handle, Register, Fault

\* The row of a challenge changes only when a request that consumed it marks it.
LEMMA RowStep ==
  ASSUME TypeOK, [Next]_vars, NEW c \in Challenge,
         challengeRow'[c] = "CONSUMED", challengeRow[c] # "CONSUMED"
  PROVE  \E r \in Answered(c) : pc[r] = "mark"
<1> USE DEF TypeOK
<1>1. \E r \in Request : MarkConsumed(r)
  BY DEF Next, vars, Issue, IssueStore, IssuePersist, IssueCleanUp, ChallengeExpires,
         LockExpires, RedisLost, Arrive, Handle, Register, Fault, ReadPendingStepUp,
         FetchChallenge, CheckNullifier, VerifyProof, AcquireLock, AddMember, InsertRow,
         RollBack, ReleaseLock, ConsumeKey, Grant, RedisCallFails, InsertReplyLost, Crash,
         pgVars
<1>2. PICK r \in Request : MarkConsumed(r)
  BY <1>1
<1>3. C(r) = c /\ pc[r] = "mark"
  BY <1>2 DEF MarkConsumed, At
<1> QED
  BY <1>3 DEF Answered

-----------------------------------------------------------------------------
LEMMA NextIInv == IInv /\ [Next]_vars => IInv'
<1> SUFFICES ASSUME IInv, [Next]_vars PROVE IInv'
  OBVIOUS
<1> USE DEF IInv
<1>1. TypeOK'
  BY TypeStep
<1>2. StoresMoveForward
  BY StoresStep
<1>3. \A r \in Request : N(r)' = N(r) /\ C(r)' = C(r) /\ C(r) \in Challenge
  BY <1>2 DEF StoresMoveForward, N, C, TypeOK, Body
<1>4. ArrivedIsIssued'
  BY <1>2, <1>3 DEF ArrivedIsIssued, StoresMoveForward
<1>5. RegisteredHasRow'
  <2> SUFFICES ASSUME NEW r \in Request, Registered(r)' PROVE N(r) \in nullifierRows'
    BY <1>3 DEF RegisteredHasRow
  <2>1. CASE Registered(r)
    BY <2>1, <1>2 DEF RegisteredHasRow, StoresMoveForward
  <2>2. CASE ~Registered(r)
    BY <2>2, RegisteredStep DEF RegistersAlone
  <2> QED
    BY <2>1, <2>2
<1>6. ConsumedHasNoKey'
  <2> SUFFICES ASSUME NEW r \in Request, Consumed(r)' PROVE C(r) \notin challengeKeys'
    BY <1>3 DEF ConsumedHasNoKey
  <2>1. CASE Consumed(r)
    <3>1. issuing[C(r)] = "issued" /\ C(r) \notin challengeKeys
      BY <2>1 DEF ConsumedHasNoKey, ArrivedIsIssued, Consumed, Accepting
    <3> QED
      BY <3>1, <1>2, <1>3 DEF StoresMoveForward
  <2>2. CASE ~Consumed(r)
    BY <2>2, ConsumedStep DEF ConsumesAlone
  <2> QED
    BY <2>1, <2>2
<1>7. OneRegistrationPerChallenge'
  <2> SUFFICES ASSUME NEW q \in Request, NEW r \in Request, Registered(q)', Registered(r)',
                      C(q) = C(r), q # r
               PROVE  FALSE
    BY <1>3 DEF OneRegistrationPerChallenge
  \* A request that registers now finds no row of its challenge.
  <2>1. ASSUME NEW a \in Request, NEW b \in Request, a # b, C(a) = C(b),
               Registered(a)', ~Registered(a), Registered(b)'
        PROVE  FALSE
    <3>1. RegistersAlone(a)
      BY <2>1, RegisteredStep
    <3>2. Registered(b)
      BY <2>1, <3>1, <1>2 DEF RegistersAlone, Registered, StoresMoveForward
    <3>3. N(b) \in nullifierRows /\ N(b)[2] = C(a)
      BY <2>1, <3>2 DEF RegisteredHasRow, N, C
    <3> QED
      BY <3>1, <3>3 DEF RegistersAlone, UniqueViolation
  <2>2. Registered(q) /\ Registered(r)
    BY <2>1
  <2> QED
    BY <2>2 DEF OneRegistrationPerChallenge
<1>8. OneConsumerPerChallenge'
  <2> SUFFICES ASSUME NEW q \in Request, NEW r \in Request, Consumed(q)', Consumed(r)',
                      C(q) = C(r), q # r
               PROVE  FALSE
    BY <1>3 DEF OneConsumerPerChallenge
  \* A request that consumes now finds the key, which no consumer leaves.
  <2>1. ASSUME NEW a \in Request, NEW b \in Request, a # b, C(a) = C(b),
               Consumed(a)', ~Consumed(a), Consumed(b)'
        PROVE  FALSE
    <3>1. ConsumesAlone(a)
      BY <2>1, ConsumedStep
    <3>2. Consumed(b)
      BY <2>1, <3>1, <1>2 DEF ConsumesAlone, Consumed, StoresMoveForward
    <3> QED
      BY <2>1, <3>1, <3>2 DEF ConsumedHasNoKey, ConsumesAlone
  <2>2. Consumed(q) /\ Consumed(r)
    BY <2>1
  <2> QED
    BY <2>2 DEF OneConsumerPerChallenge
<1>9. ConsumedRowHasCause'
  <2> SUFFICES ASSUME NEW c \in Challenge, challengeRow'[c] = "CONSUMED"
               PROVE  \/ \E n \in nullifierRows' : n[2] = c
                      \/ \E r \in Answered(c)' : body'[r].kind = "stepUp"
    BY DEF ConsumedRowHasCause
  <2>1. Answered(c) \subseteq Answered(c)' /\ body' = body
    BY <1>2, <1>3 DEF Answered, StoresMoveForward
  <2>2. CASE challengeRow[c] = "CONSUMED"
    BY <2>1, <2>2, <1>2 DEF ConsumedRowHasCause, StoresMoveForward
  <2>3. CASE challengeRow[c] # "CONSUMED"
    <3>1. PICK r \in Answered(c) : pc[r] = "mark"
      BY <2>3, RowStep
    <3>2. r \in Request /\ C(r) = c /\ body[r].kind \in {"login", "stepUp"}
      BY DEF Answered, TypeOK, Body
    <3>3. CASE body[r].kind = "login"
      <4>1. N(r) \in nullifierRows /\ N(r)[2] = c
        BY <3>1, <3>2, <3>3 DEF RegisteredHasRow, Registered, N, C
      <4> QED
        BY <4>1, <1>2 DEF StoresMoveForward
    <3> QED
      BY <2>1, <3>2, <3>3
  <2> QED
    BY <2>2, <2>3
<1> QED
  BY <1>1, <1>4, <1>5, <1>6, <1>7, <1>8, <1>9

LEMMA Invariance == Spec => []IInv
  BY InitIInv, NextIInv, PTL DEF Spec

-----------------------------------------------------------------------------
(* Every reachable state has the declared types.                            *)
THEOREM TypeCorrect == Spec => []TypeOK
<1>1. IInv => TypeOK
  BY DEF IInv
<1> QED
  BY Invariance, <1>1, PTL

(* However many requests race on a challenge, and whatever Redis forgets,   *)
(* at most one has its nullifier recorded.                                  *)
THEOREM OneRegistration == Spec => []OneRegistrationPerChallenge
<1>1. IInv => OneRegistrationPerChallenge
  BY DEF IInv
<1> QED
  BY Invariance, <1>1, PTL

(* At most one request gets past the deletion of the challenge key.         *)
THEOREM OneConsumer == Spec => []OneConsumerPerChallenge
<1>1. IInv => OneConsumerPerChallenge
  BY DEF IInv
<1> QED
  BY Invariance, <1>1, PTL

(* Both gates of a proof submission, the SADD with its row and the GETDEL   *)
(* of the challenge, let one request of a challenge through.                *)
THEOREM GatesPassOne == Spec => []EachGatePassesOne
<1>1. OneRegistrationPerChallenge /\ OneConsumerPerChallenge => EachGatePassesOne
  BY DEF EachGatePassesOne
<1> QED
  BY <1>1, OneRegistration, OneConsumer, PTL

(* What was granted rests on a durable row and a spent challenge.           *)
THEOREM GrantDurable == Spec => []GrantIsDurable
<1>1. IInv => GrantIsDurable
  BY DEF IInv, GrantIsDurable, RegisteredHasRow, ConsumedHasNoKey, Registered, Consumed,
         Accepting
<1> QED
  BY Invariance, <1>1, PTL

(* A challenge that only logins answered is not consumed unrecorded.        *)
THEOREM LoginOrder == Spec => []LoginRecordsBeforeConsuming
<1>1. IInv => LoginRecordsBeforeConsuming
  <2> SUFFICES ASSUME IInv, NEW c \in Challenge, challengeRow[c] = "CONSUMED",
                      \A r \in Answered(c) : body[r].kind = "login"
               PROVE  \E n \in nullifierRows : n[2] = c
    BY DEF LoginRecordsBeforeConsuming
  <2> QED
    BY DEF IInv, ConsumedRowHasCause
<1> QED
  BY Invariance, <1>1, PTL

-----------------------------------------------------------------------------
(* The refinement.  A handler step either leaves every decision alone, or   *)
(* refuses one request, or accepts one; accepting is allowed because a      *)
(* second accepted request would be a second registration.                  *)

LEMMA GrantStep ==
  ASSUME IInv, NEW r \in Request, Grant(r)
  PROVE  OneTime!Accept(r) \/ OneTime!Refuse(r)
<1> USE DEF IInv, TypeOK
<1>1. pc[r] = "grant" /\ body' = body
  BY DEF Grant, At
<1>2. \A q \in Request : q # r /\ C(q) = C(r) => pc[q] # "granted"
  BY <1>1 DEF OneRegistrationPerChallenge, Registered, Accepting
<1>3. [q \in Request |-> C(q)]' = [q \in Request |-> C(q)]
  BY <1>1 DEF C
<1>4. \A q \in Request : q # r => Decision(q)' = Decision(q)
  BY DEF Grant, GoTo, Decision
<1>5. Decision(r) = "undecided" /\ Decision(r)' \in {"accepted", "refused"}
  BY <1>1 DEF Grant, GoTo, Decision
<1>6. \A q \in Request : C(q) = C(r) => Decision(q) # "accepted"
  BY <1>1, <1>2 DEF Decision
<1>7. CASE Decision(r)' = "accepted"
  BY <1>3, <1>4, <1>5, <1>6, <1>7 DEF OneTime!Accept
<1>8. CASE Decision(r)' = "refused"
  BY <1>3, <1>4, <1>5, <1>8 DEF OneTime!Refuse
<1> QED
  BY <1>5, <1>7, <1>8

LEMMA OtherStep ==
  ASSUME TypeOK, NEW r \in Request, body' = body, NEW s, s # "granted",
         pc[r] \in {"arriving"} \union Handling, pc' = [pc EXCEPT ![r] = s]
  PROVE  OneTime!Refuse(r) \/ UNCHANGED OneTime!vars
<1> USE DEF TypeOK
<1>1. [q \in Request |-> C(q)]' = [q \in Request |-> C(q)]
  BY DEF C
<1>2. \A q \in Request : q # r => Decision(q)' = Decision(q)
  BY DEF Decision
<1>3. Decision(r) = "undecided" /\ Decision(r)' \in {"undecided", "refused"}
  BY DEF Decision, Handling
<1>4. CASE Decision(r)' = "undecided"
  BY <1>1, <1>2, <1>3, <1>4 DEF OneTime!vars
<1>5. CASE Decision(r)' = "refused"
  BY <1>1, <1>2, <1>3, <1>5 DEF OneTime!Refuse
<1> QED
  BY <1>3, <1>4, <1>5

LEMMA StepRefines == IInv /\ [Next]_vars => [OneTime!Next]_(OneTime!vars)
<1> SUFFICES ASSUME IInv, [Next]_vars PROVE [OneTime!Next]_(OneTime!vars)
  OBVIOUS
<1> USE DEF IInv, TypeOK
<1>1. CASE UNCHANGED <<body, pc>>
  BY <1>1 DEF OneTime!vars, C, Decision
<1>2. CASE ~UNCHANGED <<body, pc>>
  <2>1. PICK r \in Request : Arrive(r) \/ Handle(r) \/ Fault(r)
    BY <1>2 DEF Next, vars, Issue, IssueStore, IssuePersist, IssueCleanUp,
                ChallengeExpires, LockExpires, RedisLost
  <2>2. CASE Grant(r)
    BY <2>2, GrantStep DEF OneTime!Next
  <2>3. CASE ~Grant(r)
    <3>1. body' = body /\ pc[r] \in {"arriving"} \union Handling
      BY <2>1, <2>3 DEF At, Handling, Arrive, Handle, Register, Fault, ReadPendingStepUp,
           FetchChallenge, CheckNullifier, VerifyProof, AcquireLock, AddMember, InsertRow,
           RollBack, ReleaseLock, ConsumeKey, MarkConsumed, RedisCallFails,
           InsertReplyLost, Crash
    <3>2. \E s : s # "granted" /\ pc' = [pc EXCEPT ![r] = s]
      BY <2>1, <2>3 DEF GoTo, Arrive, Handle, Register, Fault, ReadPendingStepUp,
           FetchChallenge, CheckNullifier, VerifyProof, AcquireLock, AddMember, InsertRow,
           RollBack, ReleaseLock, ConsumeKey, MarkConsumed, RedisCallFails,
           InsertReplyLost, Crash, FirstStep, AfterVerify, AfterRegister, AfterConsume
    <3> QED
      BY <3>1, <3>2, OtherStep DEF OneTime!Next
  <2> QED
    BY <2>2, <2>3
<1> QED
  BY <1>1, <1>2

(* The two endpoints implement the one-time-proof promise.                  *)
THEOREM Refinement == Spec => ImplementsOneTimeProof
<1>1. Init => OneTime!Init
  BY DEF Init, OneTime!Init, Decision, C, Body
<1> QED
  BY <1>1, Invariance, StepRefines, PTL DEF Spec, OneTime!Spec, ImplementsOneTimeProof

-----------------------------------------------------------------------------
(* While nothing is lost half way.  The lock is then held from SADD to DEL  *)
(* by one request for each nullifier, so that the SET is ahead of the table *)
(* by exactly the registrations under way; and the key of a challenge goes  *)
(* only to a request that consumes it.                                      *)

InLock(r) == pc[r] \in {"sadd", "insert", "rollback", "releaseOk", "releaseFail"}
Half(r) == pc[r] \in {"insert", "rollback"}

LockHeld ==
  /\ \A r \in Request : InLock(r) => N(r) \in lockKeys
  /\ \A q, r \in Request : InLock(q) /\ InLock(r) /\ N(q) = N(r) => q = r

SetAhead ==
  /\ nullifierRows \subseteq nullifierSet
  /\ \A r \in Request : Half(r) => N(r) \in nullifierSet \ nullifierRows
  /\ \A n \in nullifierSet \ nullifierRows : \E r \in Request : Half(r) /\ N(r) = n

KeyConsumed ==
  \A c \in Challenge :
    /\ issuing[c] = "stored" => c \in challengeKeys
    /\ issuing[c] = "issued" /\ c \notin challengeKeys =>
         \E r \in Answered(c) : body[r].kind = "stepUp" \/ Consumed(r)

OneKind(c) == \A q, r \in Answered(c) : body[q].kind = body[r].kind

RowPasses ==
  \A n \in nullifierRows :
    OneKind(n[2]) => \E r \in Answered(n[2]) : N(r) = n /\ Registered(r)

Quiet == ~disturbed => LockHeld /\ SetAhead /\ KeyConsumed /\ RowPasses

(* The three ways in which nothing is lost: a challenge is issued, a        *)
(* request moves on, or nothing happens.                                    *)
LEMMA QuietStep ==
  ASSUME TypeOK, [Next]_vars, ~disturbed'
  PROVE  /\ ~disturbed
         /\ \/ \E c \in Challenge : Issue(c)
            \/ \E r \in Request : Arrive(r) \/ Handle(r)
            \/ UNCHANGED vars
<1>1. \/ \E c \in Challenge : Issue(c)
      \/ \E r \in Request : Arrive(r) \/ Handle(r)
      \/ UNCHANGED vars
  BY DEF Next, ChallengeExpires, LockExpires, RedisLost, Fault, RedisCallFails,
         InsertReplyLost, Crash, Disturb
<1>2. disturbed' = disturbed
  BY <1>1 DEF Issue, IssueStore, IssuePersist, IssueCleanUp, Arrive, Handle, Register,
       ReadPendingStepUp, FetchChallenge, CheckNullifier, VerifyProof, AcquireLock,
       AddMember, InsertRow, RollBack, ReleaseLock, ConsumeKey, MarkConsumed, Grant, vars
<1> QED
  BY <1>1, <1>2

(* A handler moves on with its own request alone. *)
LEMMA HandlerStep ==
  ASSUME TypeOK, NEW r \in Request, Arrive(r) \/ Handle(r)
  PROVE  /\ body' = body /\ issuing' = issuing
         /\ \A q \in Request : N(q)' = N(q) /\ C(q)' = C(q)
         /\ \A q \in Request \ {r} : pc'[q] = pc[q]
<1>1. body' = body /\ issuing' = issuing /\ \E s : pc' = [pc EXCEPT ![r] = s]
  BY DEF GoTo, Arrive, Handle, Register, ReadPendingStepUp, FetchChallenge, CheckNullifier,
     VerifyProof, AcquireLock, AddMember, InsertRow, RollBack, ReleaseLock, ConsumeKey,
     MarkConsumed, Grant
<1> QED
  BY <1>1 DEF N, C, TypeOK

LEMMA LockStep ==
  ASSUME TypeOK, LockHeld, NEW r \in Request, Arrive(r) \/ Handle(r)
  PROVE  LockHeld'
<1>1. /\ \A q \in Request : N(q)' = N(q)
      /\ \A q \in Request \ {r} : pc'[q] = pc[q]
  BY HandlerStep
<1> USE DEF TypeOK, LockHeld, InLock, At, GoTo
<1>3. CASE AcquireLock(r)
  <2>1. CASE N(r) \in lockKeys
    BY <1>1, <1>3, <2>1 DEF AcquireLock
  <2>2. CASE N(r) \notin lockKeys
    <3>1. \A q \in Request : InLock(q)' => N(q) \in lockKeys'
      BY <1>1, <1>3, <2>2 DEF AcquireLock
    <3>2. \A q \in Request \ {r} : InLock(q) => N(q) # N(r)
      BY <2>2
    <3> QED
      BY <1>1, <3>1, <3>2
  <2> QED
    BY <2>1, <2>2
<1>4. CASE ReleaseLock(r)
  <2>1. ~InLock(r)' /\ lockKeys' = lockKeys \ {N(r)}
    BY <1>4 DEF ReleaseLock, AfterRegister
  <2>2. \A q \in Request \ {r} : InLock(q) => N(q) # N(r)
    BY <1>4 DEF ReleaseLock
  <2> QED
    BY <1>1, <2>1, <2>2
<1>5. CASE Arrive(r) \/ ReadPendingStepUp(r) \/ FetchChallenge(r) \/ CheckNullifier(r)
  BY <1>1, <1>5 DEF Arrive, FirstStep, ReadPendingStepUp, FetchChallenge, CheckNullifier,
     redisVars
<1>6. CASE VerifyProof(r) \/ ConsumeKey(r) \/ MarkConsumed(r) \/ Grant(r)
  BY <1>1, <1>6 DEF VerifyProof, AfterVerify, ConsumeKey, MarkConsumed, AfterConsume, Grant,
     redisVars
<1>7. CASE AddMember(r) \/ InsertRow(r) \/ RollBack(r)
  BY <1>1, <1>7 DEF AddMember, InsertRow, RollBack, redisVars
<1> QED
  BY <1>3, <1>4, <1>5, <1>6, <1>7 DEF Handle, Register

LEMMA SetStep ==
  ASSUME TypeOK, LockHeld, SetAhead, NEW r \in Request, Arrive(r) \/ Handle(r)
  PROVE  SetAhead'
<1>1. /\ \A q \in Request : N(q)' = N(q)
      /\ \A q \in Request \ {r} : pc'[q] = pc[q]
  BY HandlerStep
<1> USE DEF TypeOK, SetAhead, Half, At, GoTo
<1>2. Half(r) => \A q \in Request \ {r} : Half(q) => N(q) # N(r)
  BY DEF LockHeld, InLock
<1>3. CASE AddMember(r)
  <2>1. CASE N(r) \in nullifierSet
    <3>1. /\ ~Half(r) /\ ~Half(r)'
          /\ nullifierSet' = nullifierSet /\ nullifierRows' = nullifierRows
      BY <1>3, <2>1 DEF AddMember, pgVars
    <3> QED
      BY <1>1, <3>1
  <2>2. CASE N(r) \notin nullifierSet
    <3>1. Half(r)' /\ nullifierSet' = nullifierSet \union {N(r)}
            /\ nullifierRows' = nullifierRows
      BY <1>3, <2>2 DEF AddMember, pgVars
    <3> QED
      BY <1>1, <1>3, <2>2, <3>1 DEF AddMember
  <2> QED
    BY <2>1, <2>2
<1>4. CASE InsertRow(r)
  <2>1. nullifierSet' = nullifierSet /\ Half(r)
    BY <1>4 DEF InsertRow, redisVars
  <2>2. CASE nullifierRows' = nullifierRows /\ pc' = [pc EXCEPT ![r] = "rollback"]
    BY <1>1, <2>1, <2>2
  <2>3. CASE nullifierRows' = nullifierRows \union {N(r)} /\ pc' = [pc EXCEPT ![r] = "releaseOk"]
    BY <1>1, <1>2, <2>1, <2>3
  <2> QED
    BY <1>4, <2>2, <2>3 DEF InsertRow
<1>5. CASE RollBack(r)
  <2>1. /\ Half(r) /\ ~Half(r)' /\ nullifierRows' = nullifierRows
        /\ nullifierSet' = nullifierSet \ {N(r)}
    BY <1>5 DEF RollBack, pgVars
  <2> QED
    BY <1>1, <1>2, <2>1
<1>6. CASE Arrive(r) \/ ReadPendingStepUp(r) \/ FetchChallenge(r) \/ CheckNullifier(r)
  BY <1>1, <1>6 DEF Arrive, FirstStep, ReadPendingStepUp, FetchChallenge, CheckNullifier,
     redisVars, pgVars
<1>7. CASE VerifyProof(r) \/ AcquireLock(r) \/ ReleaseLock(r)
  BY <1>1, <1>7 DEF VerifyProof, AfterVerify, AcquireLock, ReleaseLock, AfterRegister,
     redisVars, pgVars
<1>8. CASE ConsumeKey(r) \/ MarkConsumed(r) \/ Grant(r)
  BY <1>1, <1>8 DEF ConsumeKey, MarkConsumed, AfterConsume, Grant, redisVars, pgVars
<1> QED
  BY <1>3, <1>4, <1>5, <1>6, <1>7, <1>8 DEF Handle, Register

(* Once consumed for a login, always: its handler can only be granted or    *)
(* fail to grant.                                                           *)
LEMMA ConsumedStays ==
  ASSUME TypeOK, NEW r \in Request, Arrive(r) \/ Handle(r),
         NEW q \in Request, body[q].kind = "login", Consumed(q)
  PROVE  Consumed(q)'
<1>1. body' = body /\ \A p \in Request \ {r} : pc'[p] = pc[p]
  BY HandlerStep
<1>2. CASE q # r
  BY <1>1, <1>2 DEF Consumed
<1>3. CASE q = r
  <2>1. pc[r] \in {"mark", "grant"}
    BY <1>3 DEF Consumed, Accepting, At, Arrive, Handle, Register, ReadPendingStepUp,
       FetchChallenge, CheckNullifier, VerifyProof, AcquireLock, AddMember, InsertRow,
       RollBack, ReleaseLock, ConsumeKey, MarkConsumed, Grant
  <2>2. MarkConsumed(r) \/ Grant(r)
    BY <2>1 DEF At, Arrive, Handle, Register, ReadPendingStepUp,
       FetchChallenge, CheckNullifier, VerifyProof, AcquireLock, AddMember, InsertRow,
       RollBack, ReleaseLock, ConsumeKey
  <2> QED
    BY <1>3, <2>2 DEF MarkConsumed, AfterConsume, Grant, GoTo, Consumed, Accepting, TypeOK
<1> QED
  BY <1>2, <1>3

LEMMA KeyStep ==
  ASSUME IInv, KeyConsumed, NEW r \in Request, Arrive(r) \/ Handle(r)
  PROVE  KeyConsumed'
<1> USE DEF IInv
<1>1. /\ body' = body /\ issuing' = issuing
      /\ \A q \in Request : C(q)' = C(q)
      /\ \A q \in Request \ {r} : pc'[q] = pc[q]
  BY HandlerStep
<1>2. pc'[r] # "arriving"
  BY DEF TypeOK, GoTo, At, Arrive, FirstStep, Handle, Register, ReadPendingStepUp, FetchChallenge,
     CheckNullifier, VerifyProof, AfterVerify, AcquireLock, AddMember, InsertRow, RollBack,
     ReleaseLock, AfterRegister, ConsumeKey, MarkConsumed, AfterConsume, Grant
<1>3. \A c \in Challenge : Answered(c) \subseteq Answered(c)'
  BY <1>1, <1>2 DEF Answered
<1>4. \A q \in Request : body[q].kind \in {"login", "stepUp"}
  BY DEF TypeOK, Body
<1>5. ASSUME NEW c \in Challenge,
             \E q \in Answered(c) : body[q].kind = "stepUp" \/ Consumed(q)
      PROVE  \E q \in Answered(c)' : body'[q].kind = "stepUp" \/ Consumed(q)'
  BY <1>1, <1>3, <1>4, <1>5, ConsumedStays DEF Answered
<1>6. CASE challengeKeys' = challengeKeys
  BY <1>1, <1>5, <1>6 DEF KeyConsumed
<1>7. CASE ConsumeKey(r)
  <2>1. pc[r] = "consume" /\ issuing[C(r)] = "issued" /\ r \in Answered(C(r))'
    BY <1>1, <1>2, <1>7 DEF ConsumeKey, At, ArrivedIsIssued, Answered
  <2>2. CASE C(r) \notin challengeKeys
    BY <1>6, <1>7, <2>2 DEF ConsumeKey
  <2>3. CASE C(r) \in challengeKeys
    <3>1. Consumed(r)' /\ challengeKeys' = challengeKeys \ {C(r)}
      BY <1>7, <2>3 DEF ConsumeKey, GoTo, TypeOK, Consumed
    <3> QED
      BY <1>1, <1>5, <2>1, <3>1 DEF KeyConsumed
  <2> QED
    BY <2>2, <2>3
<1> QED
  BY <1>6, <1>7 DEF Arrive, Handle, Register, ReadPendingStepUp, FetchChallenge,
     CheckNullifier, VerifyProof, AcquireLock, AddMember, InsertRow, RollBack, ReleaseLock,
     MarkConsumed, Grant, redisVars

(* A registered request stays so, unless another kind took its challenge.   *)
LEMMA RegisteredStays ==
  ASSUME IInv, KeyConsumed, NEW r \in Request, Arrive(r) \/ Handle(r),
         Registered(r), OneKind(C(r))
  PROVE  Registered(r)'
<1> USE DEF IInv
<1>1. body[r].kind \in {"login", "stepUp"} /\ body' = body /\ C(r) \in Challenge
  BY HandlerStep DEF TypeOK, Body, C
<1>2. pc[r] \in {"releaseOk", "grant", "consume", "mark"}
  BY DEF Registered, Accepting, At, Arrive, Handle, Register, ReadPendingStepUp,
     FetchChallenge, CheckNullifier, VerifyProof, AcquireLock, AddMember, InsertRow, RollBack,
     ReleaseLock, ConsumeKey, MarkConsumed, Grant
<1>3. \/ ReleaseLock(r) /\ pc[r] = "releaseOk"
      \/ ConsumeKey(r) \/ MarkConsumed(r) \/ Grant(r)
  BY <1>2 DEF At, Arrive, Handle, Register, ReadPendingStepUp,
     FetchChallenge, CheckNullifier, VerifyProof, AcquireLock, AddMember, InsertRow, RollBack,
     ReleaseLock
<1>4. CASE ReleaseLock(r) /\ pc[r] = "releaseOk"
  BY <1>1, <1>4 DEF ReleaseLock, AfterRegister, At, GoTo, Registered, TypeOK
<1>5. CASE MarkConsumed(r) \/ Grant(r)
  BY <1>1, <1>5 DEF MarkConsumed, AfterConsume, Grant, At, GoTo, Registered, Accepting, TypeOK
<1>6. CASE ConsumeKey(r)
  <2>1. pc[r] = "consume" /\ body[r].kind = "login" /\ r \in Answered(C(r))
    BY <1>6 DEF ConsumeKey, At, Registered, Accepting, Answered
  <2>2. C(r) \in challengeKeys
    <3>1. SUFFICES ASSUME C(r) \notin challengeKeys PROVE FALSE
      OBVIOUS
    <3>2. PICK q \in Answered(C(r)) : body[q].kind = "stepUp" \/ Consumed(q)
      BY <1>1, <2>1, <3>1 DEF KeyConsumed, ArrivedIsIssued
    <3>3. q \in Request /\ C(q) = C(r) /\ body[q].kind = "login" /\ Consumed(q)
      BY <2>1, <3>2 DEF OneKind, Answered
    <3>4. Registered(q) /\ q # r
      BY <2>1, <3>3 DEF Consumed, Registered, Accepting
    <3> QED
      BY <3>3, <3>4 DEF OneRegistrationPerChallenge
  <2> QED
    BY <1>1, <1>6, <2>1, <2>2 DEF ConsumeKey, GoTo, Registered, TypeOK
<1> QED
  BY <1>3, <1>4, <1>5, <1>6

LEMMA RowsStep ==
  ASSUME IInv, KeyConsumed, RowPasses, NEW r \in Request, Arrive(r) \/ Handle(r)
  PROVE  RowPasses'
<1> USE DEF IInv
<1>1. /\ body' = body
      /\ \A q \in Request : N(q)' = N(q) /\ C(q)' = C(q)
      /\ \A q \in Request \ {r} : pc'[q] = pc[q]
  BY HandlerStep
<1>2. pc'[r] # "arriving"
  BY DEF TypeOK, GoTo, At, Arrive, FirstStep, Handle, Register, ReadPendingStepUp, FetchChallenge,
     CheckNullifier, VerifyProof, AfterVerify, AcquireLock, AddMember, InsertRow, RollBack,
     ReleaseLock, AfterRegister, ConsumeKey, MarkConsumed, AfterConsume, Grant
<1> SUFFICES ASSUME NEW n \in nullifierRows', OneKind(n[2])'
             PROVE  \E q \in Answered(n[2])' : N(q) = n /\ Registered(q)'
  BY <1>1 DEF RowPasses, Answered
<1>3. Answered(n[2]) \subseteq Answered(n[2])'
  BY <1>1, <1>2 DEF Answered
<1>4. OneKind(n[2])
  BY <1>1, <1>3 DEF OneKind
<1>5. CASE n \in nullifierRows
  <2>1. PICK q \in Answered(n[2]) : N(q) = n /\ Registered(q)
    BY <1>4, <1>5 DEF RowPasses
  <2>2. q \in Request /\ C(q) = n[2] /\ q \in Answered(n[2])'
    BY <1>3, <2>1 DEF Answered
  <2>3. Registered(q)'
    BY <1>1, <1>4, <2>1, <2>2, RegisteredStays DEF Registered
  <2> QED
    BY <2>1, <2>2, <2>3
<1>6. CASE n \notin nullifierRows
  <2>1. InsertRow(r)
    BY <1>6 DEF Arrive, Handle, Register, ReadPendingStepUp, FetchChallenge, CheckNullifier,
       VerifyProof, AcquireLock, AddMember, RollBack, ReleaseLock, ConsumeKey, MarkConsumed,
       Grant, pgVars
  <2>2. n = N(r) /\ pc'[r] = "releaseOk"
    BY <1>6, <2>1 DEF InsertRow, GoTo, TypeOK
  <2>3. r \in Answered(n[2])'
    BY <1>1, <2>2 DEF Answered, N, C
  <2> QED
    BY <2>2, <2>3 DEF Registered
<1> QED
  BY <1>5, <1>6

LEMMA IssueStep ==
  ASSUME IInv, LockHeld, SetAhead, KeyConsumed, RowPasses, NEW c \in Challenge, Issue(c)
  PROVE  LockHeld' /\ SetAhead' /\ KeyConsumed' /\ RowPasses'
<1> USE DEF IInv
<1>1. UNCHANGED <<body, pc, nullifierSet, lockKeys, nullifierRows>>
  BY DEF Issue, IssueStore, IssuePersist, IssueCleanUp, redisVars, pgVars
<1>2. LockHeld' /\ SetAhead'
  BY <1>1 DEF LockHeld, SetAhead, InLock, Half, N
<1>3. \A d \in Challenge : Answered(d)' = Answered(d)
  BY <1>1 DEF Answered, C
<1>4. RowPasses'
  BY <1>1 DEF RowPasses, OneKind, Answered, Registered, N, C
<1>5. \A q \in Request : Consumed(q)' = Consumed(q)
  BY <1>1 DEF Consumed
<1>6. KeyConsumed'
  <2> SUFFICES ASSUME NEW d \in Challenge
               PROVE  /\ issuing'[d] = "stored" => d \in challengeKeys'
                      /\ issuing'[d] = "issued" /\ d \notin challengeKeys' =>
                           \E r \in Answered(d) : body[r].kind = "stepUp" \/ Consumed(r)
    BY <1>1, <1>3, <1>5 DEF KeyConsumed, Answered
  <2>1. \/ issuing'[d] = issuing[d] /\ (d \in challengeKeys' <=> d \in challengeKeys)
        \/ issuing'[d] = "stored" /\ d \in challengeKeys'
        \/ issuing[d] = "stored" /\ issuing'[d] = "issued" /\ challengeKeys' = challengeKeys
        \/ issuing'[d] \in {"cleanup", "failed"}
    BY DEF Issue, IssueStore, IssuePersist, IssueCleanUp, TypeOK, redisVars
  <2> QED
    BY <2>1 DEF KeyConsumed
<1> QED
  BY <1>2, <1>4, <1>6

LEMMA QuietHolds == Spec => []Quiet
<1>1. Init => Quiet
  BY DEF Init, Quiet, LockHeld, InLock, SetAhead, Half, KeyConsumed, RowPasses
<1>2. IInv /\ Quiet /\ [Next]_vars => Quiet'
  <2> SUFFICES ASSUME IInv, Quiet, [Next]_vars, ~disturbed'
               PROVE  LockHeld' /\ SetAhead' /\ KeyConsumed' /\ RowPasses'
    BY DEF Quiet
  <2>1. /\ LockHeld /\ SetAhead /\ KeyConsumed /\ RowPasses
        /\ \/ \E c \in Challenge : Issue(c)
           \/ \E r \in Request : Arrive(r) \/ Handle(r)
           \/ UNCHANGED vars
    BY QuietStep DEF Quiet, IInv
  <2>2. CASE \E c \in Challenge : Issue(c)
    BY <2>1, <2>2, IssueStep
  <2>3. CASE \E r \in Request : Arrive(r) \/ Handle(r)
    BY <2>1, <2>3, LockStep, SetStep, KeyStep, RowsStep DEF IInv
  <2>4. CASE UNCHANGED vars
    BY <2>1, <2>4 DEF vars, LockHeld, InLock, SetAhead, Half, KeyConsumed, RowPasses, OneKind,
       Answered, Registered, Consumed, N, C
  <2> QED
    BY <2>1, <2>2, <2>3, <2>4
<1> QED
  BY <1>1, <1>2, Invariance, PTL DEF Spec

(* As long as nothing is lost half way, the SET and the table hold the same *)
(* nullifiers whenever no registration is under way, however many requests  *)
(* raced for them and however often PostgreSQL refused (nullifier.service). *)
THEOREM StoresInStep == Spec => []StoresAgree
<1>1. Quiet => StoresAgree
  <2> SUFFICES ASSUME Quiet, ~disturbed,
                      \A r \in Request : pc[r] \notin {"insert", "rollback", "releaseOk", "releaseFail"}
               PROVE  nullifierSet = nullifierRows
    BY DEF StoresAgree
  <2> QED
    BY DEF Quiet, SetAhead, Half
<1> QED
  BY <1>1, QuietHolds, PTL

(* As long as nothing is lost half way, a nullifier on record of a challenge *)
(* that one kind of request answered has let its request through.           *)
THEOREM NoProofWasted == Spec => []RecordedProofCounts
<1>1. Quiet => RecordedProofCounts
  <2> SUFFICES ASSUME Quiet, NEW n \in nullifierRows, ~disturbed, OneKind(n[2]),
                      \A r \in Answered(n[2]) : ~InFlight(r)
               PROVE  \E r \in Answered(n[2]) : N(r) = n /\ pc[r] \in Accepting
    BY DEF RecordedProofCounts, OneKind
  <2>1. PICK r \in Answered(n[2]) : N(r) = n /\ Registered(r)
    BY DEF Quiet, RowPasses
  <2> QED
    BY <2>1 DEF Registered, InFlight, Handling, Accepting
<1> QED
  BY <1>1, QuietHolds, PTL


-----------------------------------------------------------------------------
(* The browser tab.                                                         *)

(* Some socket of the tab has not closed yet.                               *)
SomeSocket == \E s \in Socket : sockets[s] # "closed"
(* The guard against a second connection is up only while a socket exists,  *)
(* whose close lowers it.                                                   *)
ConnectingHasSocket == connecting = TRUE => SomeSocket
(* Before the first login the poll runs and there is no socket.             *)
SignedOutPolls == token = FALSE /\ lost = FALSE => poll = TRUE /\ ~SomeSocket
(* A tab that is signed in polls, retries or has a socket.                  *)
Reachable ==
  token = TRUE /\ lost = FALSE => poll = TRUE \/ retry = TRUE \/ strays > 0 \/ SomeSocket
(* A caller waits for the prover just while the prover has an entry and a   *)
(* timer for it (prover.ts:52-113), and for the gateway only in a step that *)
(* calls it.                                                                *)
ProofsAreTimed ==
  \A c \in Caller :
    /\ at[c] = "prove" <=> c \in pending
    /\ c \in pending <=> c \in deadline
    /\ http[c] # "none" => Calling(c)
TabInv == TabTypeOK /\ ConnectingHasSocket /\ SignedOutPolls /\ Reachable /\ ProofsAreTimed

LEMMA TabInitInv == TabInit => TabInv
<1> SUFFICES ASSUME TabInit PROVE TabInv
  OBVIOUS
<1>1. TabTypeOK
  <2>1. strays \in 0 .. MaxStray
    BY SocketAssumption DEF TabInit
  <2> QED
    BY <2>1 DEF TabInit, TabTypeOK, Caller, Wait
<1>2. ConnectingHasSocket /\ SignedOutPolls /\ Reachable
  BY DEF TabInit, ConnectingHasSocket, SignedOutPolls, Reachable, SomeSocket
<1>3. ProofsAreTimed
  BY DEF TabInit, ProofsAreTimed
<1> QED
  BY <1>1, <1>2, <1>3 DEF TabInv

-----------------------------------------------------------------------------
(* connect(), from sockets of which as many are open. *)
(* What connect() does, whoever calls it.                                   *)
LEMMA ConnectKeeps ==
  ASSUME TabInv, NEW ss \in [Socket -> {"closed", "connecting", "open", "closing"}],
         \A s \in Socket : ss[s] = "closed" <=> sockets[s] = "closed",
         Connect(ss), UNCHANGED token
  PROVE  /\ sockets' \in [Socket -> {"closed", "connecting", "open", "closing"}]
         /\ wsRef' \in Socket \union {NoSocket} /\ connecting' \in BOOLEAN
         /\ SomeSocket => SomeSocket'
         /\ ConnectingHasSocket'
         /\ token = FALSE => UNCHANGED connecting /\ (SomeSocket' => SomeSocket)
         /\ token = TRUE => SomeSocket'
<1> USE DEF TabInv
<1>1. CASE ~Connects(ss) /\ sockets' = ss /\ UNCHANGED <<wsRef, connecting>>
  <2>1. SomeSocket' <=> SomeSocket
    BY <1>1 DEF SomeSocket
  <2>2. token = TRUE => SomeSocket'
    <3> SUFFICES ASSUME token = TRUE PROVE SomeSocket'
      OBVIOUS
    <3>1. CASE connecting = TRUE
      BY <2>1, <3>1 DEF ConnectingHasSocket
    <3>2. CASE \E s \in Socket : wsRef = s /\ ss[s] = "open"
      BY <1>1, <3>2 DEF SomeSocket
    <3> QED
      BY <1>1, <3>1, <3>2 DEF Connects, TabTypeOK
  <2> QED
    BY <1>1, <2>1, <2>2 DEF ConnectingHasSocket, TabTypeOK
<1>2. CASE Connects(ss)
  <2>1. PICK s \in Socket : ss[s] = "closed" /\ sockets' = [ss EXCEPT ![s] = "connecting"] /\ wsRef' = s
    BY <1>2 DEF Connect
  <2>2. sockets'[s] = "connecting" /\ connecting' = TRUE /\ token
    BY <1>2, <2>1 DEF Connect, Connects
  <2>3. SomeSocket'
    BY <2>2 DEF SomeSocket
  <2> QED
    BY <2>1, <2>2, <2>3 DEF ConnectingHasSocket
<1> QED
  BY <1>1, <1>2 DEF Connect

(* What the provider does leaves the callers alone. *)
LEMMA ProviderInv ==
  ASSUME TabInv, Provider
  PROVE  TabInv'
<1> USE DEF TabInv
<1>1. UNCHANGED <<account, screen, callers, prover>>
  BY DEF Provider, PollTicks, RetryFires, PressReconnect, Reconnect, OnOpen, PeerCloses, OnClose
<1>2. ProofsAreTimed'
  BY <1>1 DEF ProofsAreTimed, Calling, callers, prover
<1>3. CASE PollTicks
  <2>1. Connect(sockets) /\ UNCHANGED <<connected, retry, strays, poll>> /\ poll
    BY <1>3 DEF PollTicks
  <2>2. UNCHANGED token
    BY <1>1 DEF account
  <2>3. sockets \in [Socket -> {"closed", "connecting", "open", "closing"}]
    BY DEF TabTypeOK
  <2>4. /\ sockets' \in [Socket -> {"closed", "connecting", "open", "closing"}]
        /\ wsRef' \in Socket \union {NoSocket} /\ connecting' \in BOOLEAN
        /\ ConnectingHasSocket'
        /\ token = FALSE => (SomeSocket' => SomeSocket)
    BY <2>1, <2>2, <2>3, ConnectKeeps
  <2>5. TabTypeOK'
    BY <1>1, <2>1, <2>4 DEF TabTypeOK, account, callers, prover
  <2>6. SignedOutPolls' /\ Reachable'
    BY <1>1, <2>1, <2>4 DEF SignedOutPolls, Reachable, account, TabTypeOK
  <2> QED
    BY <1>2, <2>4, <2>5, <2>6
<1>4. CASE RetryFires
  <2>1. /\ Connect(sockets) /\ UNCHANGED <<connected, poll>>
        /\ retry' \in BOOLEAN /\ strays' \in 0 .. MaxStray
    <3>1. retry' \in BOOLEAN
      BY <1>4 DEF RetryFires, TabTypeOK
    <3>2. strays' \in 0 .. MaxStray
      BY <1>4, SocketAssumption DEF RetryFires, TabTypeOK
    <3> QED
      BY <1>4, <3>1, <3>2 DEF RetryFires
  <2>2. UNCHANGED token
    BY <1>1 DEF account
  <2>3. sockets \in [Socket -> {"closed", "connecting", "open", "closing"}]
    BY DEF TabTypeOK
  <2>4. /\ sockets' \in [Socket -> {"closed", "connecting", "open", "closing"}]
        /\ wsRef' \in Socket \union {NoSocket} /\ connecting' \in BOOLEAN
        /\ ConnectingHasSocket'
        /\ token = FALSE => (SomeSocket' => SomeSocket)
        /\ token = TRUE => SomeSocket'
    BY <2>1, <2>2, <2>3, ConnectKeeps
  <2>5. TabTypeOK'
    BY <1>1, <2>1, <2>4 DEF TabTypeOK, account, callers, prover
  <2>6. SignedOutPolls' /\ Reachable'
    BY <1>1, <2>1, <2>4 DEF SignedOutPolls, Reachable, account, TabTypeOK
  <2> QED
    BY <1>2, <2>4, <2>5, <2>6
<1>5. CASE PressReconnect
  <2>1. /\ Connect(Closing) /\ UNCHANGED <<connected, strays>>
        /\ retry' = FALSE /\ poll' = (poll \/ ~token)
    BY <1>5 DEF PressReconnect, Reconnect
  <2>2. UNCHANGED token
    BY <1>1 DEF account
  <2>3. /\ Closing \in [Socket -> {"closed", "connecting", "open", "closing"}]
        /\ \A s \in Socket : Closing[s] = "closed" <=> sockets[s] = "closed"
    BY DEF TabTypeOK, Closing
  <2>4. /\ sockets' \in [Socket -> {"closed", "connecting", "open", "closing"}]
        /\ wsRef' \in Socket \union {NoSocket} /\ connecting' \in BOOLEAN
        /\ ConnectingHasSocket'
        /\ token = FALSE => (SomeSocket' => SomeSocket)
        /\ token = TRUE => SomeSocket'
    BY <2>1, <2>2, <2>3, ConnectKeeps
  <2>5. TabTypeOK'
    <3>1. poll' \in BOOLEAN /\ retry' \in BOOLEAN
      BY <2>1
    <3> QED
      BY <1>1, <2>1, <2>4, <3>1 DEF TabTypeOK, account, callers, prover
  <2>6. SignedOutPolls' /\ Reachable'
    BY <1>1, <2>1, <2>4 DEF SignedOutPolls, Reachable, account, TabTypeOK
  <2> QED
    BY <1>2, <2>4, <2>5, <2>6
<1>6. ASSUME NEW s \in Socket, OnOpen(s)
      PROVE  TabInv'
  <2>1. sockets'[s] = "open" /\ sockets[s] = "connecting"
    BY <1>6 DEF OnOpen, TabTypeOK
  <2>2. SomeSocket' /\ SomeSocket
    BY <2>1 DEF SomeSocket
  <2>3. TabTypeOK'
    BY <1>1, <1>6 DEF OnOpen, TabTypeOK, account, callers, prover
  <2> QED
    BY <1>1, <1>2, <1>6, <2>2, <2>3
       DEF OnOpen, ConnectingHasSocket, SignedOutPolls, Reachable, account
<1>7. ASSUME NEW s \in Socket, PeerCloses(s)
      PROVE  TabInv'
  <2>1. sockets'[s] = "closing" /\ sockets[s] = "open"
    BY <1>7 DEF PeerCloses, TabTypeOK
  <2>2. SomeSocket' /\ SomeSocket
    BY <2>1 DEF SomeSocket
  <2>3. TabTypeOK'
    BY <1>1, <1>7 DEF PeerCloses, TabTypeOK, account, callers, prover
  <2> QED
    BY <1>1, <1>2, <1>7, <2>2, <2>3
       DEF PeerCloses, ConnectingHasSocket, SignedOutPolls, Reachable, account
<1>8. ASSUME NEW s \in Socket, OnClose(s)
      PROVE  TabInv'
  <2>1. SomeSocket
    BY <1>8 DEF OnClose, SomeSocket
  <2>2. SomeSocket' => SomeSocket
    BY <2>1
  <2>3. /\ retry' = TRUE /\ connecting' = FALSE /\ connected' = FALSE /\ wsRef' = NoSocket
        /\ sockets' \in [Socket -> {"closed", "connecting", "open", "closing"}]
        /\ strays' \in 0 .. MaxStray /\ UNCHANGED poll
    BY <1>8, SocketAssumption DEF OnClose, TabTypeOK
  <2>4. TabTypeOK'
    BY <1>1, <2>3 DEF TabTypeOK, account, callers, prover
  <2> QED
    BY <1>1, <1>2, <2>1, <2>3, <2>4
       DEF ConnectingHasSocket, SignedOutPolls, Reachable, account
<1> QED
  BY <1>3, <1>4, <1>5, <1>6, <1>7, <1>8 DEF Provider

(* A step of a caller: it may sign in, or lose the token for good. *)
LEMMA SocketsStay ==
  ASSUME TabInv, UNCHANGED socket,
         \/ UNCHANGED <<token, lost>>
         \/ token' = TRUE /\ UNCHANGED lost
         \/ lost' = TRUE
  PROVE  ConnectingHasSocket' /\ SignedOutPolls' /\ Reachable'
<1>1. SomeSocket' <=> SomeSocket
  BY DEF SomeSocket, socket
<1> QED
  BY <1>1 DEF TabInv, TabTypeOK, ConnectingHasSocket, SignedOutPolls, Reachable, socket

(* One caller waits for something other than before, and for no proof. *)
(* A caller that goes on from one call to the next leaves the prover alone. *)
LEMMA CallerGoesOn ==
  ASSUME TabInv, NEW c \in Caller, NEW w \in Wait \ {"prove"},
         NEW h \in {"none", "sent", "refresh", "again"},
         at' = [at EXCEPT ![c] = w], http' = [http EXCEPT ![c] = h],
         pending' = pending \ {c}, deadline' = deadline \ {c},
         h # "none" => c # "form" /\ w \in {"challenge", "submit", "mock"}
  PROVE  ProofsAreTimed'
<1>1. \A d \in Caller : /\ at'[d] = IF d = c THEN w ELSE at[d]
                        /\ http'[d] = IF d = c THEN h ELSE http[d]
  BY DEF TabInv, TabTypeOK
<1> QED
  BY <1>1 DEF TabInv, ProofsAreTimed, Calling

LEMMA CallerAsks ==
  ASSUME TabInv, NEW c \in Caller, AskForProof(c),
         at' = [at EXCEPT ![c] = "prove"], http' = [http EXCEPT ![c] = "none"]
  PROVE  /\ ProofsAreTimed'
         /\ worker' \in {"none", "loading", "ready", "broken"}
         /\ pending' \subseteq Caller /\ deadline' \subseteq Caller
<1>1. \A d \in Caller : /\ at'[d] = IF d = c THEN "prove" ELSE at[d]
                        /\ http'[d] = IF d = c THEN "none" ELSE http[d]
  BY DEF TabInv, TabTypeOK
<1>2. ProofsAreTimed'
  BY <1>1 DEF TabInv, ProofsAreTimed, Calling, AskForProof
<1> QED
  BY <1>2 DEF TabInv, TabTypeOK, AskForProof

(* Proofs are settled for the callers in cs, who go on to something else. *)
LEMMA ProofsSettle ==
  ASSUME TabInv, NEW cs \in SUBSET pending, NEW to \in [Caller -> {"idle", "submit", "mock"}],
         "form" \in cs => to["form"] # "mock", GoOn(cs, to),
         pending' = pending \ cs, deadline' = deadline \ cs
  PROVE  /\ ProofsAreTimed'
         /\ at' \in [Caller -> Wait] /\ http' \in [Caller -> {"none", "sent", "refresh", "again"}]
<1>1. \A d \in Caller :
        /\ at'[d] = IF d \in cs THEN to[d] ELSE at[d]
        /\ http'[d] = IF d \in cs \ {"form"} /\ to[d] # "idle" THEN "sent" ELSE http[d]
  BY DEF GoOn
<1>2. \A d \in cs : d \in Caller /\ http[d] = "none"
  BY DEF TabInv, TabTypeOK, ProofsAreTimed, Calling
<1>3. ProofsAreTimed'
  BY <1>1, <1>2 DEF TabInv, ProofsAreTimed, Calling
<1>4. at' \in [Caller -> Wait] /\ http' \in [Caller -> {"none", "sent", "refresh", "again"}]
  BY DEF TabInv, TabTypeOK, GoOn, Wait
<1> QED
  BY <1>3, <1>4

LEMMA ProveInv ==
  ASSUME TabInv, Prove
  PROVE  TabInv'
<1> USE DEF TabInv
<1>1. UNCHANGED <<account, socket>>
  BY DEF Prove, WorkerLoads, OnError, OnMessage, TimesOut
<1>2. ConnectingHasSocket' /\ SignedOutPolls' /\ Reachable'
  BY <1>1, SocketsStay DEF account
<1>3. CASE WorkerLoads
  <2>1. TabTypeOK'
    BY <1>1, <1>3 DEF WorkerLoads, TabTypeOK, account, socket, callers
  <2>2. ProofsAreTimed'
    BY <1>3 DEF WorkerLoads, ProofsAreTimed, Calling, callers
  <2> QED
    BY <1>2, <2>1, <2>2
<1>4. Rejected \in [Caller -> {"idle", "submit", "mock"}] /\ Rejected["form"] # "mock"
  BY DEF Rejected, Caller
<1>5. ASSUME NEW cs \in SUBSET pending, NEW to \in [Caller -> {"idle", "submit", "mock"}],
             "form" \in cs => to["form"] # "mock", GoOn(cs, to),
             pending' = pending \ cs, deadline' = deadline \ cs,
             screen' \in {screen, "error"}, worker' \in {worker, "none"}
      PROVE  TabInv'
  <2>1. /\ ProofsAreTimed'
        /\ at' \in [Caller -> Wait] /\ http' \in [Caller -> {"none", "sent", "refresh", "again"}]
    BY <1>5, ProofsSettle
  <2>2. TabTypeOK'
    BY <1>1, <1>5, <2>1 DEF TabTypeOK, account, socket
  <2> QED
    BY <1>2, <2>1, <2>2
<1>6. CASE OnError
  BY <1>4, <1>5, <1>6 DEF OnError
<1>7. ASSUME NEW c \in Caller, OnMessage(c)
      PROVE  TabInv'
  <2>1. /\ {c} \in SUBSET pending /\ pending' = pending \ {c} /\ deadline' = deadline \ {c}
        /\ screen' \in {screen, "error"} /\ worker' = worker
        /\ GoOn({c}, [d \in Caller |-> "submit"]) \/ GoOn({c}, Rejected)
    BY <1>7 DEF OnMessage
  <2>2. [d \in Caller |-> "submit"] \in [Caller -> {"idle", "submit", "mock"}]
    OBVIOUS
  <2>3. [d \in Caller |-> "submit"]["form"] # "mock"
    BY DEF Caller
  <2>4. CASE GoOn({c}, Rejected)
    BY <1>4, <1>5, <2>1, <2>4
  <2>5. CASE GoOn({c}, [d \in Caller |-> "submit"])
    BY <1>5, <2>1, <2>2, <2>3, <2>5
  <2> QED
    BY <2>1, <2>4, <2>5
<1>8. ASSUME NEW c \in Caller, TimesOut(c)
      PROVE  TabInv'
  <2>1. {c} \in SUBSET pending
    BY <1>8 DEF TimesOut, ProofsAreTimed
  <2> QED
    BY <1>4, <1>5, <1>8, <2>1 DEF TimesOut
<1> QED
  BY <1>3, <1>6, <1>7, <1>8 DEF Prove

LEMMA FormInv ==
  ASSUME TabInv, Form
  PROVE  TabInv'
<1> USE DEF TabInv
<1>1. "form" \in Caller
  BY DEF Caller
<1>2. http["form"] = "none"
  BY <1>1 DEF ProofsAreTimed, Calling
<1>3. [http EXCEPT !["form"] = "none"] = http
  BY <1>1, <1>2 DEF TabTypeOK
<1>4. /\ UNCHANGED <<lost, http, socket>> /\ page' \in {"login", "dashboard"}
      /\ secret' \in BOOLEAN /\ token' \in {token, TRUE}
      /\ screen' \in {"register", "register_done", "login", "success", "register_error", "error"}
  BY DEF Form, HandleRegister, RegisterSucceeds, HandleLogin, FormChallenged, LoggedIn, FormFails,
         TurnTo, account, callers, TabTypeOK
<1>5. ConnectingHasSocket' /\ SignedOutPolls' /\ Reachable'
  BY <1>4, SocketsStay DEF TabTypeOK
<1>6. CASE /\ UNCHANGED <<worker, pending, deadline>> /\ at["form"] # "prove"
           /\ \E w \in Wait \ {"prove"} : at' = [at EXCEPT !["form"] = w]
  <2>1. PICK w \in Wait \ {"prove"} : at' = [at EXCEPT !["form"] = w]
    BY <1>6
  <2>2. "form" \notin pending /\ "form" \notin deadline
    BY <1>1, <1>6 DEF ProofsAreTimed
  <2>3. ProofsAreTimed'
    BY <1>1, <1>3, <1>4, <1>6, <2>1, <2>2, CallerGoesOn
  <2>4. TabTypeOK'
    BY <1>4, <1>6, <2>1 DEF TabTypeOK, socket, Wait
  <2> QED
    BY <1>5, <2>3, <2>4
<1>7. CASE FormChallenged
  <2>1. /\ ProofsAreTimed'
        /\ worker' \in {"none", "loading", "ready", "broken"}
        /\ pending' \subseteq Caller /\ deadline' \subseteq Caller
    BY <1>1, <1>3, <1>7, CallerAsks DEF FormChallenged
  <2>2. at' \in [Caller -> Wait]
    BY <1>7 DEF FormChallenged, TabTypeOK, Wait
  <2>3. TabTypeOK'
    BY <1>4, <2>1, <2>2 DEF TabTypeOK, socket
  <2> QED
    BY <1>5, <2>1, <2>3
<1>8. CASE \/ HandleRegister \/ RegisterSucceeds \/ HandleLogin \/ LoggedIn \/ FormFails
           \/ \E s \in {"register", "login"} : TurnTo(s)
  <2>1. UNCHANGED <<worker, pending, deadline>> /\ at["form"] # "prove"
    BY <1>8 DEF HandleRegister, RegisterSucceeds, HandleLogin, LoggedIn, FormFails, TurnTo,
                FormIdle, prover
  <2>2. [at EXCEPT !["form"] = at["form"]] = at /\ at["form"] \in Wait \ {"prove"}
    BY <1>1, <2>1 DEF TabTypeOK
  <2>3. \E w \in Wait \ {"prove"} : at' = [at EXCEPT !["form"] = w]
    BY <1>8, <2>2 DEF HandleRegister, RegisterSucceeds, HandleLogin, LoggedIn, FormFails, TurnTo,
                      callers, Wait
  <2> QED
    BY <1>6, <2>1, <2>3
<1> QED
  BY <1>7, <1>8 DEF Form

LEMMA CallStepInv ==
  ASSUME TabInv, NEW c \in Caller, Call(c)
  PROVE  TabInv'
<1> USE DEF TabInv
<1>1. /\ UNCHANGED <<page, secret, screen, socket>>
      /\ \/ UNCHANGED <<token, lost>>
         \/ token' = TRUE /\ UNCHANGED lost
         \/ token' = FALSE /\ lost' = TRUE
  BY DEF Call, ReAuth, Succeeds, Fails, Unauthorized, Refreshed, RefreshFails, Throws, account
<1>2. ConnectingHasSocket' /\ SignedOutPolls' /\ Reachable'
  BY <1>1, SocketsStay
<1>0. token' \in BOOLEAN /\ lost' \in BOOLEAN
  BY <1>1 DEF TabTypeOK
<1>3. ASSUME NEW w \in Wait \ {"prove"}, NEW h \in {"none", "sent", "refresh", "again"},
             at[c] # "prove", UNCHANGED <<worker, pending, deadline>>,
             at' = [at EXCEPT ![c] = w], http' = [http EXCEPT ![c] = h],
             h # "none" => c # "form" /\ w \in {"challenge", "submit", "mock"}
      PROVE  TabInv'
  <2>1. c \notin pending /\ c \notin deadline
    BY <1>3 DEF ProofsAreTimed
  <2>2. ProofsAreTimed'
    BY <1>3, <2>1, CallerGoesOn
  <2>3. at' \in [Caller -> Wait] /\ http' \in [Caller -> {"none", "sent", "refresh", "again"}]
    BY <1>3 DEF TabTypeOK
  <2>4. TabTypeOK'
    BY <1>0, <1>1, <1>3, <2>3 DEF TabTypeOK, socket
  <2> QED
    BY <1>2, <2>2, <2>4
<1>4. CASE ReAuth(c)
  <2>1. "challenge" \in Wait \ {"prove"}
    BY DEF Wait
  <2> QED
    BY <1>3, <1>4, <2>1 DEF ReAuth, prover
<1>5. CASE Succeeds(c) /\ at[c] = "challenge"
  <2>1. /\ at' = [at EXCEPT ![c] = "prove"] /\ http' = [http EXCEPT ![c] = "none"]
        /\ AskForProof(c)
    BY <1>5 DEF Succeeds
  <2>2. /\ ProofsAreTimed'
        /\ worker' \in {"none", "loading", "ready", "broken"}
        /\ pending' \subseteq Caller /\ deadline' \subseteq Caller
    BY <2>1, CallerAsks
  <2>3. at' \in [Caller -> Wait] /\ http' \in [Caller -> {"none", "sent", "refresh", "again"}]
    BY <2>1 DEF TabTypeOK, Wait
  <2>4. TabTypeOK'
    BY <1>0, <1>1, <2>2, <2>3 DEF TabTypeOK, socket
  <2> QED
    BY <1>2, <2>2, <2>4
<1>6. CASE at[c] # "prove" /\ at' = [at EXCEPT ![c] = "idle"] /\ http' = [http EXCEPT ![c] = "none"]
           /\ UNCHANGED prover
  <2>1. "idle" \in Wait \ {"prove"}
    BY DEF Wait
  <2> QED
    BY <1>3, <1>6, <2>1 DEF prover
<1>7. ASSUME NEW h \in {"none", "sent", "refresh", "again"}, Calling(c),
             UNCHANGED <<at, prover>>, http' = [http EXCEPT ![c] = h]
      PROVE  TabInv'
  <2>1. [at EXCEPT ![c] = at[c]] = at /\ at[c] \in Wait \ {"prove"}
    BY <1>7 DEF TabTypeOK, Calling
  <2>2. at' = [at EXCEPT ![c] = at[c]]
    BY <1>7, <2>1
  <2> QED
    BY <1>3, <1>7, <2>1, <2>2 DEF prover, Calling
<1>8. http[c] # "none" => Calling(c)
  BY DEF ProofsAreTimed
<1>9. CASE Unauthorized(c) \/ Refreshed(c)
  <2>1. Calling(c) /\ UNCHANGED <<at, prover>>
    BY <1>8, <1>9 DEF Unauthorized, Refreshed
  <2>2. http' = [http EXCEPT ![c] = "refresh"] \/ http' = [http EXCEPT ![c] = "again"]
    BY <1>9 DEF Unauthorized, Refreshed
  <2> QED
    BY <1>7, <2>1, <2>2
<1>10. CASE (Succeeds(c) /\ at[c] # "challenge") \/ Fails(c) \/ RefreshFails(c)
  BY <1>6, <1>8, <1>10 DEF Succeeds, Fails, RefreshFails, Throws, Calling
<1> QED
  BY <1>4, <1>5, <1>9, <1>10 DEF Call

LEMMA TabStepInv == TabInv /\ [TabNext]_tabVars => TabInv'
<1> SUFFICES ASSUME TabInv, [TabNext]_tabVars PROVE TabInv'
  OBVIOUS
<1>1. CASE Provider \/ Prove \/ Form
  BY <1>1, ProviderInv, ProveInv, FormInv
<1>2. ASSUME NEW c \in Caller, Call(c)
      PROVE  TabInv'
  BY <1>2, CallStepInv
<1>3. ASSUME NEW p \in {"login", "dashboard"}, Load(p)
      PROVE  TabInv'
  <2> USE DEF TabInv
  <2>1. /\ sockets' \in [Socket -> {"closed", "connecting", "open", "closing"}]
        /\ wsRef' \in Socket \union {NoSocket}
    BY <1>3 DEF Load, TabTypeOK
  <2>2. TabTypeOK'
    <3>1. strays' \in 0 .. MaxStray /\ connecting' \in BOOLEAN /\ poll' \in BOOLEAN
      BY <1>3, SocketAssumption DEF Load, TabTypeOK
    <3> QED
      BY <1>3, <2>1, <3>1 DEF Load, FreshPage, TabTypeOK, Caller, Wait
  <2>3. token = TRUE => SomeSocket'
    BY <1>3 DEF Load, SomeSocket
  <2>4. token = FALSE => ~SomeSocket'
    BY <1>3 DEF Load, SomeSocket
  <2>5. ConnectingHasSocket' /\ SignedOutPolls' /\ Reachable'
    BY <1>3, <2>3, <2>4 DEF Load, TabTypeOK, ConnectingHasSocket, SignedOutPolls, Reachable
  <2>6. ProofsAreTimed'
    BY <1>3 DEF Load, FreshPage, ProofsAreTimed
  <2> QED
    BY <2>2, <2>5, <2>6
<1>4. CASE UNCHANGED tabVars
  <2>1. UNCHANGED <<account, screen, callers, prover, socket>>
    BY <1>4 DEF tabVars
  <2>2. ConnectingHasSocket' /\ SignedOutPolls' /\ Reachable'
    BY <2>1, SocketsStay DEF account
  <2>3. TabTypeOK' /\ ProofsAreTimed'
    BY <2>1 DEF TabInv, TabTypeOK, ProofsAreTimed, Calling, account, callers, prover, socket
  <2> QED
    BY <2>2, <2>3 DEF TabInv
<1> QED
  BY <1>1, <1>2, <1>3, <1>4 DEF TabNext

(* Every variable of the tab keeps its type.                                *)
THEOREM TabTypeCorrect == TabSpec => []TabTypeOK
<1>1. TabInv => TabTypeOK
  BY DEF TabInv
<1> QED
  BY TabInitInv, TabStepInv, <1>1, PTL DEF TabSpec

(* A tab that is signed in, and whose token was not cleared since the page  *)
(* was loaded, polls, retries or has a socket, in whatever order sockets    *)
(* open and close and the user presses (WsContext.tsx:66-178).              *)
THEOREM TabIsReachable == TabSpec => []NeverDeaf
<1>1. TabInv => NeverDeaf
  BY DEF TabInv, TabTypeOK, Reachable, SomeSocket, NeverDeaf
<1> QED
  BY TabInitInv, TabStepInv, <1>1, PTL DEF TabSpec

(* No caller waits for a proof without the 30-second timer that ends the    *)
(* wait (prover.ts:94-113): the entry and its timer are made and removed    *)
(* together.                                                                *)
THEOREM EveryProofIsTimed == TabSpec => []ProofsAreTimed
<1>1. TabInv => ProofsAreTimed
  BY DEF TabInv
<1> QED
  BY TabInitInv, TabStepInv, <1>1, PTL DEF TabSpec

-----------------------------------------------------------------------------
(* The rate limiter before the login routes.                                *)

(* The strengthening: in one window every INCR answers another number, none *)
(* higher than the requests that counted, and the key holds how many did.   *)
CounterIsExact ==
  /\ counter = Cardinality(CountedIn(now))
  /\ \A h \in Hit : window[h] <= now

CountsDiffer ==
  \A g, h \in Hit :
    window[g] = window[h] /\ count[g] = count[h] /\ count[g] # 0 => g = h

CountsAreBounded ==
  \A h \in Hit : count[h] # 0 =>
    window[h] # 0 /\ count[h] <= Cardinality(CountedIn(window[h]))

PlaceTells ==
  \A h \in Hit :
    /\ stage[h] = "new" => count[h] = 0 /\ window[h] = 0
    /\ stage[h] \in {"expire", "ttl", "next", "limited"} => count[h] # 0
    /\ stage[h] = "next" => count[h] <= Limit
    /\ stage[h] = "limited" => count[h] > Limit

LimiterInv ==
  /\ LimiterTypeOK
  /\ CounterIsExact /\ CountsDiffer /\ CountsAreBounded /\ PlaceTells
  /\ ~neglected => WindowIsTimed

LEMMA CountedFinite ==
  ASSUME NEW w
  PROVE  IsFiniteSet(CountedIn(w)) /\ Cardinality(CountedIn(w)) \in Nat
<1>1. CountedIn(w) \in SUBSET Hit
  BY DEF CountedIn
<1> QED
  BY <1>1, LimitAssumption, FS_Subset, FS_CardinalityType

LEMMA LimiterInitInv == LimiterInit => LimiterInv
<1> SUFFICES ASSUME LimiterInit PROVE LimiterInv
  OBVIOUS
<1>1. CountedIn(now) = {}
  BY DEF LimiterInit, CountedIn
<1>2. counter = Cardinality(CountedIn(now))
  BY <1>1, FS_EmptySet DEF LimiterInit
<1>3. CounterIsExact
  BY <1>2 DEF LimiterInit, CounterIsExact
<1>4. CountsDiffer /\ CountsAreBounded /\ PlaceTells
  BY DEF LimiterInit, CountsDiffer, CountsAreBounded, PlaceTells
<1>5. LimiterTypeOK
  <2>1. counter \in Nat /\ now \in Nat \ {0}
    BY DEF LimiterInit
  <2>2. /\ hasTtl \in BOOLEAN /\ neglected \in BOOLEAN
        /\ stage \in [Hit -> Place]
    BY DEF LimiterInit, Place
  <2>3. count \in [Hit -> Nat] /\ window \in [Hit -> Nat]
    BY DEF LimiterInit
  <2> QED
    BY <2>1, <2>2, <2>3 DEF LimiterTypeOK
<1>6. WindowIsTimed
  BY DEF LimiterInit, WindowIsTimed
<1> QED
  BY <1>3, <1>4, <1>5, <1>6 DEF LimiterInv

(* What an INCR changes: one request more has counted in this window.       *)
LEMMA OneMoreCounted ==
  ASSUME LimiterInv, NEW h \in Hit, stage[h] = "new", Counts(h)
  PROVE  /\ Cardinality({g \in Hit : window'[g] = now}) = counter + 1
         /\ \A w \in Nat \ {0, now} : {g \in Hit : window'[g] = w} = CountedIn(w)
         /\ \A g \in Hit : g # h => window'[g] = window[g]
         /\ window'[h] = now
         /\ window[h] = 0
<1> USE DEF LimiterInv, LimiterTypeOK, Counts
<1>1. window[h] = 0
  BY DEF PlaceTells
<1>2. /\ \A g \in Hit : g # h => window'[g] = window[g]
      /\ window'[h] = now
  OBVIOUS
<1>3. ASSUME NEW w \in Nat \ {0, now}
      PROVE  {g \in Hit : window'[g] = w} = CountedIn(w)
  BY <1>1, <1>2 DEF CountedIn
<1>4. {g \in Hit : window'[g] = now} = CountedIn(now) \cup {h}
  BY <1>1, <1>2 DEF CountedIn
<1>5. h \notin CountedIn(now)
  BY <1>1 DEF CountedIn
<1>6. Cardinality(CountedIn(now) \cup {h}) = counter + 1
  BY <1>5, CountedFinite, FS_AddElement DEF CounterIsExact
<1> QED
  BY <1>1, <1>2, <1>3, <1>4, <1>6

(* Requests that do not count leave the counting as it is.                  *)
LEMMA CountingStays ==
  ASSUME LimiterInv, UNCHANGED <<counter, now, window, count>>, PlaceTells'
  PROVE  CounterIsExact' /\ CountsDiffer' /\ CountsAreBounded'
<1>1. \A w : CountedIn(w)' = {h \in Hit : window'[h] = w'}
  BY DEF CountedIn
<1> QED
  BY DEF LimiterInv, CounterIsExact, CountsDiffer, CountsAreBounded, CountedIn

LEMMA IncrInv ==
  ASSUME LimiterInv, NEW h \in Hit, stage[h] = "new", Counts(h), now' = now,
         count' = count \/ count' = [count EXCEPT ![h] = counter + 1]
  PROVE  CounterIsExact' /\ CountsDiffer' /\ CountsAreBounded'
<1> DEFINE Later(w) == Cardinality({g \in Hit : window'[g] = w})
<1>1. /\ Later(now) = counter + 1
      /\ \A w \in Nat \ {0, now} : Later(w) = Cardinality(CountedIn(w))
      /\ \A g \in Hit : g # h => window'[g] = window[g]
      /\ window'[h] = now
      /\ window[h] = 0
  BY OneMoreCounted
<1>2. /\ counter' = counter + 1
      /\ counter = Cardinality(CountedIn(now))
  BY DEF Counts, LimiterInv, CounterIsExact
<1>3. /\ CounterIsExact' <=> counter' = Later(now) /\ \A g \in Hit : window'[g] <= now
      /\ CountsAreBounded' <=> \A g \in Hit : count'[g] # 0 =>
                                   window'[g] # 0 /\ count'[g] <= Later(window'[g])
  BY DEF CounterIsExact, CountsAreBounded, CountedIn
<1> HIDE DEF Later
<1> USE DEF LimiterInv, LimiterTypeOK
<1>4. CounterIsExact'
  BY <1>1, <1>2, <1>3 DEF CounterIsExact
<1>5. ASSUME NEW g \in Hit, g # h, count[g] # 0
      PROVE  /\ window[g] # 0
             /\ window[g] = now => count[g] <= counter
             /\ count[g] <= Later(window[g])
  <2>1. window[g] # 0 /\ count[g] <= Cardinality(CountedIn(window[g]))
    BY <1>5 DEF CountsAreBounded
  <2>2. CASE window[g] = now
    BY <1>1, <1>2, <2>1, <2>2
  <2>3. CASE window[g] # now
    BY <1>1, <2>1, <2>3
  <2> QED
    BY <2>1, <2>2, <2>3
<1>6. /\ count[h] = 0
      /\ count'[h] \in {0, counter + 1}
      /\ \A g \in Hit : g # h => count'[g] = count[g]
  BY DEF PlaceTells
<1>7. CountsDiffer'
  <2> SUFFICES ASSUME NEW f \in Hit, NEW g \in Hit, window'[f] = window'[g],
                      count'[f] = count'[g], count'[f] # 0
               PROVE  f = g
    BY DEF CountsDiffer
  <2>1. CASE f # h /\ g # h
    BY <1>1, <1>6, <2>1 DEF CountsDiffer
  <2>2. CASE f = h /\ g # h
    BY <1>1, <1>5, <1>6, <2>2
  <2>3. CASE f # h /\ g = h
    BY <1>1, <1>5, <1>6, <2>3
  <2> QED
    BY <2>1, <2>2, <2>3
<1>8. CountsAreBounded'
  <2> SUFFICES ASSUME NEW g \in Hit, count'[g] # 0
               PROVE  window'[g] # 0 /\ count'[g] <= Later(window'[g])
    BY <1>3
  <2>1. CASE g = h
    BY <1>1, <1>6, <2>1
  <2>2. CASE g # h
    BY <1>1, <1>5, <1>6, <2>2
  <2> QED
    BY <2>1, <2>2
<1> QED
  BY <1>4, <1>7, <1>8

(* A request of the present window is about to set the TTL, and is not the  *)
(* one that steps.                                                          *)
LEMMA StaysTimed ==
  ASSUME LimiterInv, NEW h \in Hit, NEW place, Goes(h, place), WindowIsTimed,
         stage[h] # "expire" \/ window[h] # now,
         hasTtl' = hasTtl, now' = now,
         UNCHANGED <<counter, window>> \/ (stage[h] = "new" /\ Counts(h) /\ counter # 0)
  PROVE  WindowIsTimed'
<1> SUFFICES ASSUME ~hasTtl, counter' > 0
             PROVE  \E g \in Hit : window'[g] = now /\ stage'[g] = "expire"
  BY DEF WindowIsTimed, CountedIn
<1> USE DEF LimiterInv, LimiterTypeOK
<1>1. counter > 0
  BY DEF Counts
<1>2. PICK g \in Hit : window[g] = now /\ stage[g] = "expire"
  BY <1>1 DEF WindowIsTimed, CountedIn
<1>3. g # h
  BY <1>2
<1> QED
  BY <1>2, <1>3 DEF Goes, Counts

LEMMA LimiterStepInv == LimiterInv /\ [LimiterNext]_limiterVars => LimiterInv'
<1> SUFFICES ASSUME LimiterInv, [LimiterNext]_limiterVars PROVE LimiterInv'
  OBVIOUS
<1> USE DEF LimiterInv
<1>1. ASSUME NEW h \in Hit, Incr(h)
      PROVE  LimiterInv'
  <2>1. LimiterTypeOK' /\ PlaceTells'
    BY <1>1 DEF Incr, Counts, Goes, LimiterTypeOK, Place, key, PlaceTells
  <2>2. CounterIsExact' /\ CountsDiffer' /\ CountsAreBounded'
    BY <1>1, IncrInv DEF Incr
  <2>3. CASE counter = 0
    <3>1. stage'[h] = "expire" /\ window'[h] = now'
      BY <1>1, <2>3 DEF Incr, Counts, Goes, LimiterTypeOK
    <3>2. WindowIsTimed'
      BY <3>1 DEF WindowIsTimed, CountedIn
    <3> QED
      BY <2>1, <2>2, <3>2
  <2>4. CASE counter # 0
    <3>1. Goes(h, "ttl") /\ stage[h] # "expire" /\ neglected' = neglected
      BY <1>1, <2>4 DEF Incr
    <3>2. WindowIsTimed => WindowIsTimed'
      BY <1>1, <2>4, <3>1, StaysTimed DEF Incr
    <3> QED
      BY <2>1, <2>2, <3>1, <3>2
  <2> QED
    BY <2>3, <2>4
<1>2. ASSUME NEW h \in Hit, Expire(h)
      PROVE  LimiterInv'
  <2>1. LimiterTypeOK' /\ PlaceTells'
    BY <1>2 DEF Expire, Expires, Goes, LimiterTypeOK, Place, PlaceTells
  <2>2. CounterIsExact' /\ CountsDiffer' /\ CountsAreBounded'
    BY <1>2, <2>1, CountingStays DEF Expire
  <2>3. WindowIsTimed'
    BY <1>2 DEF Expire, Expires, WindowIsTimed
  <2> QED
    BY <2>1, <2>2, <2>3
<1>3. ASSUME NEW h \in Hit, Decide(h)
      PROVE  LimiterInv'
  <2>1. LimiterTypeOK' /\ PlaceTells'
    BY <1>3, LimitAssumption DEF Decide, Goes, LimiterTypeOK, Place, key, PlaceTells
  <2>2. CounterIsExact' /\ CountsDiffer' /\ CountsAreBounded'
    BY <1>3, <2>1, CountingStays DEF Decide, key
  <2>3. ~neglected' => WindowIsTimed'
    BY <1>3, StaysTimed DEF Decide, key
  <2> QED
    BY <2>1, <2>2, <2>3
<1>4. ASSUME NEW h \in Hit, FailOpen(h)
      PROVE  LimiterInv'
  <2>1. CASE stage[h] \in {"new", "ttl"} /\ UNCHANGED <<key, count, window, neglected>>
    <3>1. LimiterTypeOK' /\ PlaceTells'
      BY <1>4, <2>1 DEF FailOpen, Goes, LimiterTypeOK, Place, key, PlaceTells
    <3>2. CounterIsExact' /\ CountsDiffer' /\ CountsAreBounded'
      BY <2>1, <3>1, CountingStays DEF key
    <3>3. ~neglected' => WindowIsTimed'
      BY <1>4, <2>1, StaysTimed DEF FailOpen, key
    <3> QED
      BY <3>1, <3>2, <3>3
  <2>2. CASE /\ stage[h] = "new" /\ Counts(h)
             /\ neglected' = (neglected \/ counter = 0)
             /\ UNCHANGED <<hasTtl, now, count>>
    <3>1. LimiterTypeOK' /\ PlaceTells'
      BY <1>4, <2>2 DEF FailOpen, Counts, Goes, LimiterTypeOK, Place, PlaceTells
    <3>2. CounterIsExact' /\ CountsDiffer' /\ CountsAreBounded'
      BY <2>2, IncrInv
    <3>3. ~neglected' => WindowIsTimed'
      BY <1>4, <2>2, StaysTimed DEF FailOpen
    <3> QED
      BY <3>1, <3>2, <3>3
  <2>3. CASE /\ stage[h] = "expire" /\ Expires
             /\ UNCHANGED <<counter, now, count, window, neglected>>
    <3>1. LimiterTypeOK' /\ PlaceTells'
      BY <1>4, <2>3 DEF FailOpen, Expires, Goes, LimiterTypeOK, Place, PlaceTells
    <3>2. CounterIsExact' /\ CountsDiffer' /\ CountsAreBounded'
      BY <2>3, <3>1, CountingStays
    <3>3. WindowIsTimed'
      BY <2>3 DEF Expires, WindowIsTimed
    <3> QED
      BY <3>1, <3>2, <3>3
  <2>4. CASE /\ stage[h] = "expire"
             /\ neglected' = (neglected \/ window[h] = now)
             /\ UNCHANGED <<key, count, window>>
    <3>1. LimiterTypeOK' /\ PlaceTells'
      BY <1>4, <2>4 DEF FailOpen, Goes, LimiterTypeOK, Place, key, PlaceTells
    <3>2. CounterIsExact' /\ CountsDiffer' /\ CountsAreBounded'
      BY <2>4, <3>1, CountingStays DEF key
    <3>3. ~neglected' => WindowIsTimed'
      BY <1>4, <2>4, StaysTimed DEF FailOpen, key
    <3> QED
      BY <3>1, <3>2, <3>3
  <2> QED
    BY <1>4, <2>1, <2>2, <2>3, <2>4 DEF FailOpen
<1>5. ASSUME NEW h \in Hit, ProcessEnds(h)
      PROVE  LimiterInv'
  <2>1. LimiterTypeOK' /\ PlaceTells'
    BY <1>5 DEF ProcessEnds, Goes, LimiterTypeOK, Place, key, PlaceTells
  <2>2. CounterIsExact' /\ CountsDiffer' /\ CountsAreBounded'
    BY <1>5, <2>1, CountingStays DEF ProcessEnds, key
  <2>3. ~neglected' => WindowIsTimed'
    BY <1>5, StaysTimed DEF ProcessEnds, key
  <2> QED
    BY <2>1, <2>2, <2>3
<1>6. CASE WindowEnds
  <2>1. LimiterTypeOK' /\ PlaceTells'
    <3>1. /\ UNCHANGED <<stage, count, window>>
          /\ counter' = 0 /\ now' = now + 1
          /\ hasTtl' \in BOOLEAN /\ neglected' \in BOOLEAN
      BY <1>6 DEF WindowEnds
    <3>2. counter' \in Nat /\ now' \in Nat \ {0}
      BY <3>1 DEF LimiterTypeOK
    <3> QED
      BY <3>1, <3>2 DEF LimiterTypeOK, PlaceTells
  <2>2. {h \in Hit : window[h] = now + 1} = {}
    BY DEF CounterIsExact, LimiterTypeOK
  <2>3. CounterIsExact'
    <3>1. {h \in Hit : window'[h] = now'} = {}
      BY <1>6, <2>2 DEF WindowEnds
    <3>2. counter' = Cardinality({h \in Hit : window'[h] = now'})
      BY <1>6, <3>1, FS_EmptySet DEF WindowEnds
    <3>3. \A h \in Hit : window'[h] <= now'
      BY <1>6 DEF WindowEnds, CounterIsExact, LimiterTypeOK
    <3> QED
      BY <3>2, <3>3 DEF CounterIsExact, CountedIn
  <2>4. CountsDiffer' /\ CountsAreBounded'
    BY <1>6 DEF WindowEnds, CountsDiffer, CountsAreBounded, CountedIn
  <2>5. WindowIsTimed'
    BY <1>6 DEF WindowEnds, WindowIsTimed
  <2> QED
    BY <2>1, <2>3, <2>4, <2>5
<1>7. CASE UNCHANGED limiterVars
  BY <1>7 DEF limiterVars, key, LimiterTypeOK, CounterIsExact, CountsDiffer, CountsAreBounded,
              PlaceTells, WindowIsTimed, CountedIn
<1> QED
  BY <1>1, <1>2, <1>3, <1>4, <1>5, <1>6, <1>7 DEF LimiterNext

(* The counts that pass the verdict in one window are different numbers     *)
(* from 1 to Limit, so they are no more than Limit.                         *)
LEMMA InvWithinLimit == LimiterInv => WithinLimit
<1> SUFFICES ASSUME LimiterInv, NEW w \in 1 .. now
             PROVE  Cardinality({h \in CountedIn(w) : stage[h] = "next"}) <= Limit
  BY DEF WithinLimit
<1> DEFINE S == {h \in CountedIn(w) : stage[h] = "next"}
           f == [h \in S |-> count[h]]
<1>1. \A h \in S : count[h] \in 1 .. Limit
  BY LimitAssumption DEF LimiterInv, LimiterTypeOK, PlaceTells, CountedIn
<1>2. \A g, h \in S : count[g] = count[h] => g = h
  BY <1>1 DEF LimiterInv, CountsDiffer, CountedIn
<1> HIDE DEF S
<1>3. f \in Injection(S, 1 .. Limit)
  <2>1. f \in [S -> 1 .. Limit]
    BY <1>1
  <2>2. \A g, h \in S : f[g] = f[h] => g = h
    BY <1>2
  <2> QED
    BY <2>1, <2>2 DEF Injection, IsInjective
<1>4. IsFiniteSet(1 .. Limit) /\ Cardinality(1 .. Limit) = Limit
  BY LimitAssumption, FS_Interval
<1>5. Cardinality(S) <= Limit
  <2> HIDE DEF f
  <2> QED
    BY <1>3, <1>4, FS_Injection
<1> QED
  BY <1>5 DEF S

(* The counter, the TTL and the places of the requests keep their types.    *)
THEOREM LimiterTypeCorrect == LimiterSpec => []LimiterTypeOK
<1>1. LimiterInv => LimiterTypeOK
  BY DEF LimiterInv
<1> QED
  BY LimiterInitInv, LimiterStepInv, <1>1, PTL DEF LimiterSpec

(* rateLimit.middleware.ts:46-121, for any number of requests and any limit: *)
(* no window passes more than its limit, nobody is refused in a window that *)
(* did not exceed it, and a window ends unless the failure of the process   *)
(* or of EXPIRE kept its TTL from being set.                                *)
THEOREM LimiterIsFair == LimiterSpec => []WindowsAreFair
<1>1. LimiterInv => RefusedForCause
  <2> SUFFICES ASSUME LimiterInv, NEW h \in Hit, stage[h] = "limited"
               PROVE  Cardinality(CountedIn(window[h])) > Limit
    BY DEF RefusedForCause
  <2>1. count[h] > Limit /\ count[h] # 0 /\ count[h] <= Cardinality(CountedIn(window[h]))
    BY DEF LimiterInv, PlaceTells, CountsAreBounded
  <2> QED
    BY <2>1, CountedFinite, LimitAssumption DEF LimiterInv, LimiterTypeOK
<1>2. LimiterInv => WindowsAreFair
  BY <1>1, InvWithinLimit DEF LimiterInv, WindowsAreFair
<1> QED
  BY LimiterInitInv, LimiterStepInv, <1>2, PTL DEF LimiterSpec
=============================================================================
