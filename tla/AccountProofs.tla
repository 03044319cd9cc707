---------------------------- MODULE AccountProofs ----------------------------
(***************************************************************************)
(* Proofs about Account, for any number of accounts, secrets and requests,  *)
(* and about Institutes, for any number of registrations.                   *)
(*                                                                          *)
(* The tables only move forward (Forward): codes get used, sessions get     *)
(* revoked, accounts become PENDING_VERIFY and, as it turns out, never      *)
(* anything else.  So what a handler has read stays true in one direction,  *)
(* and the invariant is kept request by request (Q), but for the codes that *)
(* are being generated (CodeInv), which relates requests to one another.    *)
(***************************************************************************)
EXTENDS Account, Institutes, TLAPS

(* What holds of every request, by where its handler is. *)
Q(r) ==
  /\ pc[r] = "arriving" <=> op[r] = NotArrived
  /\ pc[r] = "arriving" => past[r].spent = FALSE /\ past[r].sessions = {}
  /\ pc[r] \in {"findCommitment", "createUser", "generate"} => kind(r) = "register"
  /\ pc[r] \in {"verify", "readStatus", "gates", "client", "mint"} => kind(r) \in {"login", "authorize"}
  /\ pc[r] = "issue" => kind(r) \in {"login", "exchange"}
  /\ pc[r] \in {"findCode", "markUsed", "revokeAll"} => kind(r) = "exchange"
  /\ pc[r] \in {"findRecoveryCode", "checkCommitment", "transact"} => kind(r) = "recover"
  /\ session[r] # "none" \/ oauthCode[r] # "none" => pc[r] \in {"done", "failed"}
  \* the code or token it came with
  /\ kind(r) = "exchange" => oauthCode[op[r].code] # "none"
  /\ kind(r) = "recover" =>
       /\ recoveryCode[op[r].user] # "none"
       /\ pc[r] = "done" => status[op[r].user] = "PENDING_VERIFY"
  /\ kind(r) \in {"login", "authorize"} =>
       \A u \in op[r].token : /\ status[u] = "PENDING_VERIFY"
                              /\ pc[r] = "readStatus" => u \notin user[r]
  \* what was the case when it came
  /\ past[r].spent =>
       /\ Spent(op[r])
       /\ session[r] = "none"
       /\ pc[r] \in {"findCode", "revokeAll", "findRecoveryCode", "refused", "failed"}
  /\ \A q \in past[r].sessions :
       /\ kind(r) = "recover"
       /\ user[q] = {op[r].user}
       /\ session[q] # "none"
       /\ pc[r] = "done" => session[q] = "revoked"

RequestInv == \A r \in Request : Q(r)

(* Recovery codes are generated once for each account, by its registration. *)
CodeInv ==
  /\ \A u \in User : recoveryCode[u] # "none" => commitment[u] # {}
  /\ \A r \in Request : pc[r] = "generate" =>
       \A u \in user[r] : commitment[u] # {} /\ recoveryCode[u] = "none"
  /\ \A q, r \in Request :
       pc[q] = "generate" /\ pc[r] = "generate" /\ user[q] \intersect user[r] # {} => q = r

IInv == TypeOK /\ OneAccountPerSecret /\ PendingIffBurned /\ CodeInv /\ RequestInv

Forward ==
  /\ \A u \in User :
       /\ commitment[u] # {} => commitment'[u] # {}
       /\ status[u] = "PENDING_VERIFY" => status'[u] = "PENDING_VERIFY"
       /\ recoveryCode[u] # "none" => recoveryCode'[u] # "none"
       /\ recoveryCode[u] = "used" => recoveryCode'[u] = "used"
  /\ \A r \in Request :
       /\ oauthCode[r] # "none" => oauthCode'[r] # "none"
       /\ oauthCode[r] = "used" => oauthCode'[r] = "used"
       /\ session[r] # "none" => session'[r] # "none" /\ user'[r] = user[r]
       /\ session[r] = "revoked" => session'[r] = "revoked"

-----------------------------------------------------------------------------
LEMMA BodyFields ==
  ASSUME TypeOK, NEW r \in Request, op[r] # NotArrived
  PROVE  /\ op[r] \in Body
         /\ kind(r) \in {"register", "login", "authorize", "exchange", "recover"}
         /\ kind(r) \in {"register", "login", "authorize", "recover"} => op[r].secret \in Secret
         /\ kind(r) \in {"login", "authorize"} => op[r].token \subseteq User
         /\ kind(r) = "exchange" => op[r].code \in Request
         /\ kind(r) = "recover" => op[r].user \in User
<1>1. op[r] \in Body
  BY DEF TypeOK
<1>2. Token \subseteq SUBSET User
  BY DEF Token
<1> QED
  BY <1>1, <1>2 DEF Body, kind

LEMMA KindOfNotArrived ==
  ASSUME NEW r \in Request, op[r] = NotArrived
  PROVE  kind(r) = "none"
BY DEF NotArrived, kind

LEMMA Arrived ==
  ASSUME NEW r \in Request, Q(r), pc[r] \in Handling \union Answer
  PROVE  op[r] # NotArrived
BY DEF Q, Handling, Answer

(* A handler acts only on a request it has taken, and on no other's place. *)
LEMMA HandlerFrame ==
  ASSUME TypeOK, NEW r \in Request, pc[r] \in Handling,
         Register(r) \/ Prove(r) \/ Exchange(r) \/ Recover(r) \/ Fail(r)
  PROVE  /\ op' = op
         /\ past' = past
         /\ \A q \in Request \ {r} : pc'[q] = pc[q] /\ user'[q] = user[q]
         /\ pc'[r] \in Handling \union Answer
<1> USE DEF GoTo, TypeOK, Handling, Answer
<1>1. CASE Register(r)
  BY <1>1 DEF Register, FindCommitment, CreateUser, GenerateCode
<1>2. CASE Prove(r)
  BY <1>2 DEF Prove, VerifyProof, ReadStatus, PassGates, ValidateAuthorizeRequest,
     MintCode, IssueSession
<1>3. CASE Exchange(r)
  BY <1>3 DEF Exchange, FindCode, RevokeAll, MarkUsed
<1>4. CASE Recover(r)
  BY <1>4 DEF Recover, FindRecoveryCode, CheckCommitment, Transact
<1>5. CASE Fail(r)
  BY <1>5 DEF Fail
<1> QED
  BY <1>1, <1>2, <1>3, <1>4, <1>5

LEMMA HandlersHandle ==
  ASSUME NEW r \in Request,
         Register(r) \/ Prove(r) \/ Exchange(r) \/ Recover(r) \/ Fail(r)
  PROVE  pc[r] \in Handling
BY DEF At, Handling, Register, FindCommitment, CreateUser, GenerateCode, Prove, VerifyProof,
       ReadStatus, PassGates, ValidateAuthorizeRequest,
       MintCode, IssueSession, Exchange, FindCode, RevokeAll, MarkUsed,
       Recover, FindRecoveryCode, CheckCommitment, Transact, Fail

LEMMA TypeInv == IInv /\ [Next]_vars => TypeOK'
<1> SUFFICES ASSUME IInv, [Next]_vars PROVE TypeOK'
  OBVIOUS
<1> USE DEF IInv, RequestInv
<1>1. ASSUME NEW r \in Request, Arrive(r) PROVE TypeOK'
  <2>1. PICK b \in Body :
          /\ op' = [op EXCEPT ![r] = b]
          /\ GoTo(r, FirstStep(b))
          /\ past' = [past EXCEPT ![r] =
               [spent |-> Spent(b),
                sessions |-> IF b.kind = "recover" THEN SessionsOf(b.user) ELSE {},
                pending |-> {u \in User : status[u] = "PENDING_VERIFY"}]]
    BY <1>1 DEF Arrive
  <2>2. FirstStep(b) \in Handling
    BY DEF FirstStep, Handling
  <2>3. Spent(b) \in BOOLEAN /\ \A u : SessionsOf(u) \subseteq Request
    BY DEF Spent, SessionsOf
  <2>4. past' \in [Request -> Past]
    BY <2>1, <2>3 DEF TypeOK, Past
  <2> QED
    BY <1>1, <2>1, <2>2, <2>4 DEF Arrive, TypeOK, GoTo, tables
<1>2. ASSUME NEW r \in Request,
             Register(r) \/ Prove(r) \/ Exchange(r) \/ Recover(r) \/ Fail(r)
      PROVE  TypeOK'
  <2>1. /\ pc[r] \in Handling /\ op' = op /\ past' = past
        /\ op[r] # NotArrived /\ Q(r)
        /\ pc' \in [Request -> {"arriving"} \union Handling \union Answer]
    <3>1. pc[r] \in Handling /\ op[r] # NotArrived /\ op' = op /\ past' = past
          /\ pc'[r] \in Handling \union Answer
      BY <1>2, HandlersHandle, HandlerFrame, Arrived
    <3>2. \E step : pc' = [pc EXCEPT ![r] = step]
      BY <1>2 DEF GoTo, Register, FindCommitment, CreateUser, GenerateCode, Prove, VerifyProof,
         ReadStatus, PassGates, ValidateAuthorizeRequest,
         MintCode, IssueSession, Exchange, FindCode, RevokeAll,
         MarkUsed, Recover, FindRecoveryCode, CheckCommitment, Transact, Fail
    <3> QED
      BY <3>1, <3>2 DEF TypeOK
  <2>2. CASE Register(r)
    <3>1. pc[r] \in {"findCommitment", "createUser", "generate"}
      BY <2>2 DEF Register, FindCommitment, CreateUser, GenerateCode, At
    <3>2. op[r].secret \in Secret
      BY <2>1, <3>1, BodyFields DEF Q
    <3> QED
      BY <2>1, <2>2, <3>2 DEF Register, FindCommitment, CreateUser, GenerateCode, TypeOK, tables
  <2>3. CASE Prove(r)
    BY <2>1, <2>3 DEF Prove, VerifyProof, ReadStatus, PassGates, ValidateAuthorizeRequest,
       MintCode, IssueSession,
       TypeOK, tables, Holders
  <2>4. CASE Exchange(r)
    <3>1. op[r].code \in Request
      <4>1. pc[r] \in {"findCode", "markUsed", "revokeAll"}
        BY <2>4 DEF Exchange, FindCode, RevokeAll, MarkUsed, At
      <4> QED
        BY <2>1, <4>1, BodyFields DEF Q
    <3> QED
      BY <2>1, <2>4, <3>1 DEF Exchange, FindCode, RevokeAll, MarkUsed, TypeOK, tables, Code
  <2>5. CASE Recover(r)
    <3>1. op[r].user \in User /\ op[r].secret \in Secret
      <4>1. pc[r] \in {"findRecoveryCode", "checkCommitment", "transact"}
        BY <2>5 DEF Recover, FindRecoveryCode, CheckCommitment, Transact, At
      <4> QED
        BY <2>1, <4>1, BodyFields DEF Q
    <3> QED
      BY <2>1, <2>5, <3>1 DEF Recover, FindRecoveryCode, CheckCommitment, Transact, ReplaceKey,
         TypeOK, tables
  <2>6. CASE Fail(r)
    BY <2>1, <2>6 DEF Fail, TypeOK, tables
  <2> QED
    BY <1>2, <2>2, <2>3, <2>4, <2>5, <2>6
<1>3. CASE UNCHANGED vars
  BY <1>3 DEF vars, tables, TypeOK
<1> QED
  BY <1>1, <1>2, <1>3 DEF Next

-----------------------------------------------------------------------------
(* The branch of ReadStatus that activates an account is never taken: its   *)
(* token names an account that was PENDING_VERIFY when the proof was        *)
(* verified, and such a proof is refused.                                   *)
LEMMA StatusKept ==
  ASSUME IInv, NEW r \in Request, ReadStatus(r)
  PROVE  status' = status
<1>1. pc[r] = "readStatus" /\ Q(r)
  BY DEF ReadStatus, At, IInv, RequestInv
<1>2. op[r].token \intersect user[r] = {} /\ user[r] \subseteq User
  BY <1>1 DEF Q, IInv, TypeOK
<1>3. ASSUME NEW u \in user[r], op[r].token = user[r] PROVE FALSE
  BY <1>2, <1>3
<1>4. status' = [u \in User |-> status[u]]
  BY <1>3 DEF ReadStatus
<1> QED
  BY <1>4 DEF IInv, TypeOK

LEMMA ForwardStep == IInv /\ [Next]_vars => Forward
<1> SUFFICES ASSUME IInv, [Next]_vars PROVE Forward
  OBVIOUS
<1> USE DEF IInv, RequestInv
<1>0. TypeOK
  OBVIOUS
<1>1. ASSUME UNCHANGED tables, UNCHANGED user PROVE Forward
  BY <1>1 DEF Forward, tables
<1>2. ASSUME NEW r \in Request,
             Register(r) \/ Prove(r) \/ Exchange(r) \/ Recover(r) \/ Fail(r)
      PROVE  \A q \in Request : session[q] # "none" => user'[q] = user[q]
  <2>1. pc[r] \in Handling /\ \A q \in Request \ {r} : user'[q] = user[q]
    BY <1>2, HandlersHandle, HandlerFrame
  <2>2. session[r] = "none"
    BY <2>1 DEF Q, Handling
  <2> QED
    BY <2>1, <2>2
<1>3. ASSUME NEW r \in Request, Arrive(r) PROVE Forward
  BY <1>1, <1>3 DEF Arrive
<1>4. ASSUME NEW r \in Request, Register(r) PROVE Forward
  <2>1. CASE FindCommitment(r)
    BY <1>1, <2>1 DEF FindCommitment
  <2>2. CASE CreateUser(r)
    <3>1. UNCHANGED <<status, recoveryCode, oauthCode, session>>
      BY <2>2 DEF CreateUser
    <3>2. \A u \in User : commitment[u] # {} => commitment'[u] # {}
      BY <1>0, <2>2 DEF CreateUser, TypeOK
    <3>3. \A q \in Request : session[q] # "none" => user'[q] = user[q]
      BY <1>2, <2>2 DEF Register
    <3> QED
      BY <3>1, <3>2, <3>3 DEF Forward
  <2>3. CASE GenerateCode(r)
    <3>1. UNCHANGED <<commitment, status, oauthCode, session, user>> /\ pc[r] = "generate"
      BY <2>3 DEF GenerateCode, At
    <3>2. \A u \in User : \/ recoveryCode'[u] = recoveryCode[u]
                          \/ u \in user[r] /\ recoveryCode'[u] = "active"
      BY <1>0, <2>3 DEF GenerateCode, TypeOK
    <3>3. \A u \in user[r] : recoveryCode[u] = "none"
      BY <3>1 DEF CodeInv
    <3> QED
      BY <3>1, <3>2, <3>3 DEF Forward
  <2> QED
    BY <1>4, <2>1, <2>2, <2>3 DEF Register
<1>5. ASSUME NEW r \in Request, Prove(r) PROVE Forward
  <2>1. \A q \in Request : session[q] # "none" => user'[q] = user[q]
    BY <1>2, <1>5
  <2>2. CASE VerifyProof(r) \/ PassGates(r) \/ ValidateAuthorizeRequest(r)
    BY <2>1, <2>2 DEF VerifyProof, PassGates, ValidateAuthorizeRequest, Forward, tables
  <2>3. CASE ReadStatus(r)
    BY <2>3, StatusKept DEF ReadStatus, Forward
  <2>4. CASE MintCode(r)
    <3>1. oauthCode[r] = "none"
      BY <2>4 DEF MintCode, At, Q
    <3> QED
      BY <1>0, <2>4, <3>1 DEF MintCode, Forward, TypeOK
  <2>5. CASE IssueSession(r)
    <3>1. session[r] = "none"
      BY <2>5 DEF IssueSession, At, Q
    <3> QED
      BY <1>0, <2>5, <3>1 DEF IssueSession, Forward, TypeOK
  <2> QED
    BY <1>5, <2>2, <2>3, <2>4, <2>5 DEF Prove
<1>6. ASSUME NEW r \in Request, Exchange(r) PROVE Forward
  <2>1. \A q \in Request : session[q] # "none" => user'[q] = user[q]
    BY <1>2, <1>6
  <2>2. CASE FindCode(r)
    BY <2>1, <2>2 DEF FindCode, Forward, tables
  <2>3. CASE RevokeAll(r)
    BY <1>0, <2>3 DEF RevokeAll, Forward, TypeOK
  <2>4. CASE MarkUsed(r)
    BY <1>0, <2>4 DEF MarkUsed, Forward, TypeOK
  <2> QED
    BY <1>6, <2>2, <2>3, <2>4 DEF Exchange
<1>7. ASSUME NEW r \in Request, Recover(r) PROVE Forward
  <2>1. \A q \in Request : session[q] # "none" => user'[q] = user[q]
    BY <1>2, <1>7
  <2>2. CASE FindRecoveryCode(r) \/ CheckCommitment(r)
    BY <2>1, <2>2 DEF FindRecoveryCode, CheckCommitment, Forward, tables
  <2>3. CASE Transact(r)
    <3>1. \A q \in Request : oauthCode'[q] = oauthCode[q] /\ user'[q] = user[q]
      BY <2>3 DEF Transact
    <3>2. CASE ReplaceKey(op[r].user, op[r].secret)
      <4>1. \A u \in User :
              /\ commitment[u] # {} => commitment'[u] # {}
              /\ status[u] = "PENDING_VERIFY" => status'[u] = "PENDING_VERIFY"
              /\ recoveryCode[u] # "none" => recoveryCode'[u] # "none"
              /\ recoveryCode[u] = "used" => recoveryCode'[u] = "used"
        BY <1>0, <3>2 DEF ReplaceKey, TypeOK
      <4>2. \A q \in Request :
              /\ session[q] # "none" => session'[q] # "none"
              /\ session[q] = "revoked" => session'[q] = "revoked"
        BY <1>0, <3>2 DEF ReplaceKey, TypeOK
      <4> QED
        BY <3>1, <4>1, <4>2 DEF Forward
    <3> QED
      BY <1>1, <2>3, <3>2 DEF Transact, tables
  <2> QED
    BY <1>7, <2>2, <2>3 DEF Recover
<1>8. ASSUME NEW r \in Request, Fail(r) PROVE Forward
  BY <1>1, <1>8 DEF Fail
<1>9. CASE UNCHANGED vars
  BY <1>1, <1>9 DEF vars
<1> QED
  BY <1>3, <1>4, <1>5, <1>6, <1>7, <1>8, <1>9 DEF Next

-----------------------------------------------------------------------------
(* A request that does not move keeps its part of the invariant. *)
LEMMA Unmoved ==
  ASSUME TypeOK, Forward, NEW q \in Request, Q(q),
         op'[q] = op[q], pc'[q] = pc[q], past'[q] = past[q], user'[q] = user[q],
         session[q] = "none" => session'[q] = "none",
         oauthCode[q] = "none" => oauthCode'[q] = "none"
  PROVE  Q(q)'
<1>1. kind(q)' = kind(q)
  BY DEF kind
<1>2. past[q].sessions \subseteq Request
  BY DEF TypeOK, Past
<1>3. /\ kind(q) = "exchange" => op[q].code \in Request
      /\ kind(q) = "recover" => op[q].user \in User
      /\ kind(q) \in {"login", "authorize"} => op[q].token \subseteq User
  BY BodyFields, KindOfNotArrived
<1>4. Spent(op[q]) => (Spent(op[q]))'
  <2>1. op[q].kind = kind(q) /\ op'[q] = op[q]
    BY DEF kind
  <2> QED
    BY <1>3, <2>1 DEF Spent, Forward
<1>5. \A p \in past[q].sessions :
        /\ kind(q) = "recover" /\ user[p] = {op[q].user} /\ session[p] # "none"
        => user'[p] = {op[q].user} /\ session'[p] # "none"
  BY <1>2 DEF Forward
<1> QED
  BY <1>1, <1>2, <1>3, <1>4, <1>5 DEF Q, Forward

(* What a step of r does not touch of another request. *)
LEMMA OthersUntouched ==
  ASSUME IInv, NEW r \in Request, NEW q \in Request \ {r},
         Register(r) \/ Prove(r) \/ Exchange(r) \/ Recover(r) \/ Fail(r)
  PROVE  /\ op'[q] = op[q] /\ pc'[q] = pc[q] /\ past'[q] = past[q] /\ user'[q] = user[q]
         /\ session[q] = "none" => session'[q] = "none"
         /\ oauthCode[q] = "none" => oauthCode'[q] = "none"
<1> USE DEF IInv, RequestInv
<1>1. TypeOK /\ Q(r) /\ pc[r] \in Handling
  BY HandlersHandle
<1>2. /\ op'[q] = op[q] /\ pc'[q] = pc[q] /\ past'[q] = past[q] /\ user'[q] = user[q]
  BY <1>1, HandlerFrame
<1>3. session[q] = "none" => session'[q] = "none"
  BY <1>1 DEF Register, FindCommitment, CreateUser, GenerateCode, Prove, VerifyProof,
     ReadStatus, PassGates, ValidateAuthorizeRequest,
     MintCode, IssueSession, Exchange, FindCode, RevokeAll, MarkUsed,
     Recover, FindRecoveryCode, CheckCommitment, Transact, ReplaceKey, Fail, tables, TypeOK
<1>4. oauthCode[q] = "none" => oauthCode'[q] = "none"
  <2>1. CASE MarkUsed(r)
    <3>1. kind(r) = "exchange" /\ op[r] # NotArrived
      BY <1>1, <2>1, Arrived DEF MarkUsed, At, Q
    <3>2. op[r].code \in Request /\ oauthCode[op[r].code] # "none"
      BY <1>1, <3>1, BodyFields DEF Q
    <3> QED
      BY <1>1, <2>1, <3>2 DEF MarkUsed, Code, TypeOK
  <2>2. CASE ~MarkUsed(r)
    BY <1>1, <2>2 DEF Register, FindCommitment, CreateUser, GenerateCode, Prove, VerifyProof,
       ReadStatus, PassGates, ValidateAuthorizeRequest,
       MintCode, IssueSession, Exchange, FindCode, RevokeAll,
       Recover, FindRecoveryCode, CheckCommitment, Transact, Fail, tables, TypeOK
  <2> QED
    BY <2>1, <2>2
<1> QED
  BY <1>2, <1>3, <1>4

(* A request that arrives finds what Known(b) says.  *)
LEMMA ArriveKeeps ==
  ASSUME IInv, Forward, NEW r \in Request, Arrive(r)
  PROVE  RequestInv'
<1> USE DEF IInv, RequestInv
<1>1. PICK b \in Body :
        /\ Known(b)
        /\ op' = [op EXCEPT ![r] = b]
        /\ GoTo(r, FirstStep(b))
        /\ past' = [past EXCEPT ![r] =
             [spent |-> Spent(b),
              sessions |-> IF b.kind = "recover" THEN SessionsOf(b.user) ELSE {},
              pending |-> {u \in User : status[u] = "PENDING_VERIFY"}]]
  BY DEF Arrive
<1>2. UNCHANGED <<tables, user>> /\ pc[r] = "arriving"
  BY DEF Arrive, At
<1>3. ASSUME NEW q \in Request \ {r} PROVE Q(q)'
  <2>1. op'[q] = op[q] /\ pc'[q] = pc[q] /\ past'[q] = past[q] /\ user'[q] = user[q]
    BY <1>1, <1>2 DEF GoTo, TypeOK
  <2> QED
    BY <1>2, <2>1, Unmoved DEF tables
<1>4. Q(r)'
  <2>1. /\ op'[r] = b /\ pc'[r] = FirstStep(b) /\ kind(r)' = b.kind
        /\ past'[r].spent = Spent(b)
        /\ past'[r].sessions = IF b.kind = "recover" THEN SessionsOf(b.user) ELSE {}
    BY <1>1, <1>2 DEF GoTo, TypeOK, kind
  <2>2. b # NotArrived /\ b.kind \in {"register", "login", "authorize", "exchange", "recover"}
    BY DEF Body, NotArrived
  <2>3. /\ b.kind = "register" => pc'[r] = "findCommitment"
        /\ b.kind = "exchange" => pc'[r] = "findCode"
        /\ b.kind = "recover" => pc'[r] = "findRecoveryCode"
        /\ b.kind \in {"login", "authorize"} => pc'[r] = "verify"
    BY <2>1, <2>2 DEF FirstStep
  <2>4. session'[r] = "none" /\ oauthCode'[r] = "none"
    BY <1>2 DEF Q, tables
  <2>5. /\ b.kind = "exchange" => oauthCode[b.code] # "none"
        /\ b.kind = "recover" => recoveryCode[b.user] # "none"
    BY <1>1 DEF Known
  <2>6. b.kind \in {"login", "authorize"} => \A u \in b.token : status[u] = "PENDING_VERIFY"
    <3> SUFFICES ASSUME b.kind \in {"login", "authorize"}, NEW u \in b.token
                 PROVE  status[u] = "PENDING_VERIFY"
      OBVIOUS
    <3>1. PICK q \in Request : kind(q) = "recover" /\ At(q, "done") /\ op[q].user = u
      BY <1>1 DEF Known
    <3> QED
      BY <3>1 DEF Q, At
  <2>7. (Spent(op[r]))' = Spent(b)
    BY <1>2, <2>1 DEF Spent, tables
  <2>8. Spent(b) => b.kind \in {"exchange", "recover"}
    BY DEF Spent
  <2>9. b.kind = "recover" =>
          \A q \in SessionsOf(b.user) : user[q] = {b.user} /\ session[q] # "none"
    BY DEF SessionsOf
  <2> QED
    BY <1>2, <2>1, <2>2, <2>3, <2>4, <2>5, <2>6, <2>7, <2>8, <2>9 DEF Q, tables
<1> QED
  BY <1>3, <1>4

(* A step of its handler keeps the request's part, given what it read.  The *)
(* first lemma is about all of it that does not depend on where it goes.    *)
LEMMA MovedKeeps ==
  ASSUME IInv, Forward, NEW r \in Request,
         Register(r) \/ Prove(r) \/ Exchange(r) \/ Recover(r) \/ Fail(r)
  PROVE  /\ op'[r] = op[r] /\ past'[r] = past[r] /\ kind(r)' = kind(r)
         /\ pc[r] \in Handling /\ op[r] # NotArrived /\ pc'[r] \in Handling \union Answer
         /\ session[r] = "none" /\ oauthCode[r] = "none"
         /\ kind(r) = "exchange" => (oauthCode[op[r].code] # "none")'
         /\ kind(r) = "recover" => (recoveryCode[op[r].user] # "none")'
         /\ kind(r) \in {"login", "authorize"} =>
              \A u \in op[r].token : status'[u] = "PENDING_VERIFY"
         /\ Spent(op[r]) => (Spent(op[r]))'
         /\ \A q \in past[r].sessions :
              /\ kind(r) = "recover"
              /\ user'[q] = {op[r].user}
              /\ session'[q] # "none"
<1> USE DEF IInv, RequestInv
<1>1. /\ TypeOK /\ Q(r) /\ pc[r] \in Handling /\ op[r] # NotArrived
      /\ op' = op /\ past' = past /\ pc'[r] \in Handling \union Answer
  BY HandlersHandle, HandlerFrame, Arrived
<1>2. kind(r)' = kind(r) /\ session[r] = "none" /\ oauthCode[r] = "none"
  BY <1>1 DEF kind, Q, Handling
<1>3. /\ kind(r) = "exchange" => op[r].code \in Request
      /\ kind(r) = "recover" => op[r].user \in User
      /\ kind(r) \in {"login", "authorize"} => op[r].token \subseteq User
  BY <1>1, BodyFields
<1>4. /\ kind(r) = "exchange" => (oauthCode[op[r].code] # "none")'
      /\ kind(r) = "recover" => (recoveryCode[op[r].user] # "none")'
      /\ kind(r) \in {"login", "authorize"} =>
           \A u \in op[r].token : status'[u] = "PENDING_VERIFY"
  BY <1>1, <1>3 DEF Q, Forward
<1>5. Spent(op[r]) => (Spent(op[r]))'
  <2>1. op[r].kind = kind(r)
    BY DEF kind
  <2> QED
    BY <1>1, <1>3, <2>1 DEF Spent, Forward
<1>6. \A q \in past[r].sessions :
        /\ kind(r) = "recover"
        /\ user'[q] = {op[r].user}
        /\ session'[q] # "none"
  <2>1. past[r].sessions \subseteq Request
    BY <1>1 DEF TypeOK, Past
  <2> QED
    BY <1>1, <2>1 DEF Q, Forward
<1> QED
  BY <1>1, <1>2, <1>4, <1>5, <1>6

LEMMA MovedBy ==
  ASSUME IInv, TypeOK', Forward, NEW r \in Request,
         Register(r) \/ Prove(r) \/ Exchange(r) \/ Recover(r) \/ Fail(r)
  PROVE  Q(r)'
<1> USE DEF IInv, RequestInv
<1>1. TypeOK /\ Q(r)
  OBVIOUS
<1>0. /\ op'[r] = op[r] /\ past'[r] = past[r] /\ kind(r)' = kind(r)
      /\ pc[r] \in Handling /\ op[r] # NotArrived /\ pc'[r] \in Handling \union Answer
      /\ session[r] = "none" /\ oauthCode[r] = "none"
      /\ kind(r) = "exchange" => (oauthCode[op[r].code] # "none")'
      /\ kind(r) = "recover" => (recoveryCode[op[r].user] # "none")'
      /\ kind(r) \in {"login", "authorize"} =>
           \A u \in op[r].token : status'[u] = "PENDING_VERIFY"
      /\ Spent(op[r]) => (Spent(op[r]))'
      /\ \A q \in past[r].sessions :
           /\ kind(r) = "recover"
           /\ user'[q] = {op[r].user}
           /\ session'[q] # "none"
  BY MovedKeeps
<1>2. ASSUME pc'[r] = "failed" PROVE Q(r)'
  <2>1. past[r].spent => session'[r] = "none"
    <3>1. past[r].spent => ~IssueSession(r)
      BY <1>1 DEF Q, IssueSession, At
    <3>2. ~IssueSession(r) => session'[r] = "none"
      BY <1>1, <1>0 DEF Register, FindCommitment, CreateUser, GenerateCode, Prove,
         VerifyProof, ReadStatus, PassGates, ValidateAuthorizeRequest,
         MintCode, Exchange, FindCode, RevokeAll, MarkUsed,
         Recover, FindRecoveryCode, CheckCommitment, Transact, ReplaceKey, Fail, tables, TypeOK
    <3> QED
      BY <3>1, <3>2
  <2> QED
    BY <1>1, <1>2, <2>1, <1>0 DEF Q
<1>3. CASE Register(r)
  <2>1. /\ kind(r) = "register"
        /\ pc'[r] \in {"createUser", "generate", "done", "refused", "failed"}
        /\ session' = session /\ oauthCode' = oauthCode
    BY <1>1, <1>3 DEF Register, FindCommitment, CreateUser, GenerateCode, At, GoTo, TypeOK, Q,
       tables
  <2>2. ~past[r].spent
    BY <1>1, <1>3 DEF Q, Register, FindCommitment, CreateUser, GenerateCode, At
  <2> QED
    BY <1>1, <1>2, <2>1, <2>2, <1>0 DEF Q
<1>4. CASE Prove(r)
  <2>1. ~past[r].spent
    BY <1>1, <1>4 DEF Q, Prove, VerifyProof, ReadStatus, PassGates, ValidateAuthorizeRequest,
       MintCode, IssueSession, At
  <2>2. CASE VerifyProof(r)
    <3>1. /\ kind(r) \in {"login", "authorize"} /\ pc'[r] \in {"readStatus", "refused"}
          /\ session' = session /\ oauthCode' = oauthCode /\ status' = status
      BY <1>1, <2>2 DEF VerifyProof, At, GoTo, TypeOK, Q, tables
    <3>2. pc'[r] = "readStatus" => \A u \in user'[r] : status[u] = "ACTIVE"
      BY <1>1, <2>2 DEF VerifyProof, GoTo, TypeOK
    <3> QED
      BY <1>1, <2>1, <3>1, <3>2, <1>0 DEF Q
  <2>3. CASE ReadStatus(r) \/ PassGates(r) \/ ValidateAuthorizeRequest(r)
    <3>1. /\ kind(r) \in {"login", "authorize"}
          /\ \/ pc'[r] \in {"gates", "client", "mint", "refused"}
             \/ pc'[r] = "issue" /\ kind(r) = "login"
          /\ session' = session /\ oauthCode' = oauthCode
      BY <1>1, <2>3 DEF ReadStatus, PassGates, ValidateAuthorizeRequest, At, GoTo, TypeOK, Q, tables
    <3> QED
      BY <1>1, <2>1, <3>1, <1>0 DEF Q
  <2>4. CASE MintCode(r) \/ IssueSession(r)
    <3>1. pc'[r] \in {"done", "refused", "failed"} /\ kind(r) \in {"login", "authorize", "exchange"}
      BY <1>1, <2>4 DEF MintCode, IssueSession, At, GoTo, TypeOK, Q
    <3>2. pc'[r] = "refused" => session'[r] = "none" /\ oauthCode'[r] = "none"
      BY <1>1, <2>4, <1>0 DEF MintCode, IssueSession, GoTo, TypeOK
    <3> QED
      BY <1>1, <1>2, <2>1, <3>1, <3>2, <1>0 DEF Q
  <2> QED
    BY <1>4, <2>2, <2>3, <2>4 DEF Prove
<1>5. CASE Exchange(r)
  <2>1. kind(r) = "exchange"
    BY <1>1, <1>5 DEF Exchange, FindCode, RevokeAll, MarkUsed, At, Q
  <2>2. session'[r] = "none" /\ oauthCode'[r] = "none"
    <3>1. session'[r] = "none"
      BY <1>1, <1>5, <1>0 DEF Exchange, FindCode, RevokeAll, MarkUsed, TypeOK, tables
    <3>2. op[r].code \in Request /\ oauthCode[op[r].code] # "none" /\ oauthCode[r] = "none"
      BY <1>1, <2>1, <1>0, BodyFields DEF Q
    <3> QED
      BY <1>1, <1>5, <3>1, <3>2 DEF Exchange, FindCode, RevokeAll, MarkUsed, TypeOK, tables, Code
  <2>3. pc'[r] \in {"revokeAll", "markUsed", "issue", "refused", "failed"}
    BY <1>1, <1>5 DEF Exchange, FindCode, RevokeAll, MarkUsed, GoTo, TypeOK
  <2>4. past[r].spent => pc'[r] \in {"revokeAll", "refused"}
    <3>1. past[r].spent => oauthCode[Code(r)] = "used" /\ pc[r] # "markUsed"
      BY <1>1, <2>1 DEF Q, Spent, kind, Code
    <3> QED
      BY <1>1, <1>5, <3>1 DEF Exchange, FindCode, RevokeAll, MarkUsed, GoTo, At, TypeOK
  <2> QED
    BY <1>1, <2>1, <2>2, <2>3, <2>4, <1>0 DEF Q
<1>6. CASE Recover(r)
  <2>1. kind(r) = "recover" /\ op[r].user \in User
    <3>1. kind(r) = "recover"
      BY <1>1, <1>6 DEF Recover, FindRecoveryCode, CheckCommitment, Transact, At, Q
    <3> QED
      BY <1>1, <3>1, <1>0, BodyFields
  <2>2. session'[r] = "none" /\ oauthCode'[r] = "none"
    BY <1>1, <1>6, <1>0 DEF Recover, FindRecoveryCode, CheckCommitment, Transact,
       ReplaceKey, TypeOK, tables
  <2>3. CASE FindRecoveryCode(r) \/ CheckCommitment(r)
    <3>1. pc'[r] \in {"checkCommitment", "transact", "refused"}
      BY <1>1, <2>3 DEF FindRecoveryCode, CheckCommitment, GoTo, TypeOK
    <3>2. past[r].spent => pc'[r] = "refused"
      <4>1. past[r].spent => recoveryCode[op[r].user] = "used" /\ pc[r] # "checkCommitment"
        BY <1>1, <2>1 DEF Q, Spent, kind
      <4> QED
        BY <1>1, <2>3, <4>1 DEF FindRecoveryCode, CheckCommitment, GoTo, At, TypeOK
    <3> QED
      BY <1>1, <2>1, <2>2, <3>1, <3>2, <1>0 DEF Q
  <2>4. CASE Transact(r)
    <3>1. ~past[r].spent /\ pc'[r] \in {"done", "failed"}
      BY <1>1, <2>4 DEF Transact, At, GoTo, TypeOK, Q
    <3>2. pc'[r] = "done" => ReplaceKey(op[r].user, op[r].secret)
      BY <1>1, <2>4 DEF Transact, GoTo, TypeOK
    <3>3. pc'[r] = "done" =>
            /\ status'[op[r].user] = "PENDING_VERIFY"
            /\ \A q \in past[r].sessions : session'[q] = "revoked"
      <4>1. past[r].sessions \subseteq Request
        BY <1>1 DEF TypeOK, Past
      <4>2. \A q \in past[r].sessions : user[q] = {op[r].user} /\ session[q] # "none"
        BY <1>1 DEF Q
      <4> QED
        BY <1>1, <2>1, <3>2, <4>1, <4>2 DEF ReplaceKey, TypeOK
    <3> QED
      BY <1>1, <1>2, <2>1, <2>2, <3>1, <3>3, <1>0 DEF Q
  <2> QED
    BY <1>6, <2>3, <2>4 DEF Recover
<1>7. CASE Fail(r)
  BY <1>1, <1>2, <1>7 DEF Fail, GoTo, TypeOK
<1> QED
  BY <1>3, <1>4, <1>5, <1>6, <1>7

LEMMA RequestStep ==
  ASSUME IInv, TypeOK', Forward, [Next]_vars
  PROVE  RequestInv'
<1>1. ASSUME NEW r \in Request, Arrive(r) PROVE RequestInv'
  BY <1>1, ArriveKeeps
<1>2. ASSUME NEW r \in Request,
             Register(r) \/ Prove(r) \/ Exchange(r) \/ Recover(r) \/ Fail(r)
      PROVE  RequestInv'
  <2>1. Q(r)'
    BY <1>2, MovedBy
  <2>2. ASSUME NEW q \in Request \ {r} PROVE Q(q)'
    <3>1. /\ op'[q] = op[q] /\ pc'[q] = pc[q] /\ past'[q] = past[q] /\ user'[q] = user[q]
          /\ session[q] = "none" => session'[q] = "none"
          /\ oauthCode[q] = "none" => oauthCode'[q] = "none"
      BY <1>2, OthersUntouched
    <3> QED
      BY <3>1, Unmoved DEF IInv, RequestInv
  <2> QED
    BY <2>1, <2>2 DEF RequestInv
<1>3. CASE UNCHANGED vars
  BY <1>3, Unmoved DEF IInv, RequestInv, vars, tables
<1> QED
  BY <1>1, <1>2, <1>3 DEF Next

(* createUser takes a row that is not there, so nobody else generates its   *)
(* code; a recovery is of an account that has one.                          *)
LEMMA CodeStep ==
  ASSUME IInv, TypeOK', Forward, [Next]_vars
  PROVE  CodeInv'
<1> USE DEF IInv, RequestInv
<1>1. ASSUME UNCHANGED <<commitment, recoveryCode>>,
             \A q \in Request : pc'[q] = "generate" => pc[q] = "generate" /\ user'[q] = user[q]
      PROVE  CodeInv'
  BY <1>1 DEF CodeInv
<1>2. ASSUME NEW r \in Request, Arrive(r) PROVE CodeInv'
  <2>1. UNCHANGED <<commitment, recoveryCode, user>>
    BY <1>2 DEF Arrive, tables
  <2>2. PICK b \in Body : GoTo(r, FirstStep(b))
    BY <1>2 DEF Arrive
  <2>3. FirstStep(b) # "generate"
    BY DEF FirstStep
  <2>4. \A q \in Request : pc'[q] = "generate" => pc[q] = "generate" /\ user'[q] = user[q]
    BY <2>1, <2>2, <2>3 DEF GoTo, TypeOK
  <2> QED
    BY <1>1, <2>1, <2>4
<1>3. ASSUME NEW r \in Request, Register(r) PROVE CodeInv'
  <2>1. \A q \in Request \ {r} : pc'[q] = pc[q] /\ user'[q] = user[q]
    BY <1>3, HandlersHandle, HandlerFrame
  <2>2. CASE FindCommitment(r)
    <3>1. UNCHANGED <<commitment, recoveryCode, user>> /\ pc'[r] # "generate"
      BY <2>2 DEF FindCommitment, tables, GoTo, TypeOK
    <3> QED
      BY <1>1, <2>1, <3>1
  <2>3. CASE CreateUser(r)
    <3>1. CASE pc'[r] = "failed" /\ UNCHANGED commitment
      BY <1>1, <2>1, <2>3, <3>1 DEF CreateUser
    <3>2. ASSUME NEW u \in User, commitment[u] = {},
                 commitment' = [commitment EXCEPT ![u] = {op[r].secret}],
                 user' = [user EXCEPT ![r] = {u}]
          PROVE  CodeInv'
      <4>1. recoveryCode' = recoveryCode /\ recoveryCode[u] = "none"
        BY <2>3, <3>2 DEF CreateUser, CodeInv
      <4>2. commitment'[u] # {} /\ user'[r] = {u}
        BY <3>2 DEF TypeOK
      <4>3. \A q \in Request \ {r} : pc'[q] = "generate" => u \notin user'[q]
        BY <2>1, <3>2 DEF CodeInv
      <4>4. \A v \in User : commitment[v] # {} => commitment'[v] # {}
        BY DEF Forward
      <4> QED
        BY <2>1, <4>1, <4>2, <4>3, <4>4 DEF CodeInv, TypeOK
    <3> QED
      BY <2>3, <3>1, <3>2 DEF CreateUser, GoTo, TypeOK
  <2>4. CASE GenerateCode(r)
    <3>1. /\ UNCHANGED <<commitment, user>> /\ pc[r] = "generate" /\ pc'[r] = "done"
      BY <2>4 DEF GenerateCode, At, GoTo, TypeOK
    <3>2. \A u \in User : \/ recoveryCode'[u] = recoveryCode[u]
                          \/ u \in user[r]
      BY <2>4 DEF GenerateCode, TypeOK
    <3>3. \A u \in user[r] : commitment[u] # {}
      BY <3>1 DEF CodeInv
    <3>4. \A q \in Request \ {r} : pc[q] = "generate" => user[q] \intersect user[r] = {}
      BY <3>1 DEF CodeInv
    <3> QED
      BY <2>1, <3>1, <3>2, <3>3, <3>4 DEF CodeInv, TypeOK
  <2> QED
    BY <1>3, <2>2, <2>3, <2>4 DEF Register
<1>4. ASSUME NEW r \in Request, Prove(r) \/ Exchange(r) \/ Recover(r) \/ Fail(r)
      PROVE  CodeInv'
  <2>1. \A q \in Request \ {r} : pc'[q] = pc[q] /\ user'[q] = user[q]
    BY <1>4, HandlersHandle, HandlerFrame
  <2>2. pc'[r] # "generate"
    BY <1>4 DEF Prove, VerifyProof, ReadStatus, PassGates, ValidateAuthorizeRequest,
       MintCode, IssueSession, Exchange,
       FindCode, RevokeAll, MarkUsed, Recover, FindRecoveryCode, CheckCommitment, Transact, Fail,
       GoTo, TypeOK
  <2>3. CASE UNCHANGED <<commitment, recoveryCode>>
    BY <1>1, <2>1, <2>2, <2>3
  <2>4. CASE Transact(r) /\ ReplaceKey(op[r].user, op[r].secret)
    <3>1. kind(r) = "recover" /\ op[r] # NotArrived
      BY <2>4 DEF Transact, At, Q
    <3>2. op[r].user \in User /\ recoveryCode[op[r].user] # "none"
      BY <3>1, BodyFields DEF Q
    <3>3. \A u \in User : recoveryCode'[u] # "none" => recoveryCode[u] # "none"
      BY <2>4, <3>2 DEF ReplaceKey, TypeOK
    <3>4. \A u \in User : recoveryCode[u] = "none" => recoveryCode'[u] = "none"
      BY <2>4, <3>2 DEF ReplaceKey, TypeOK
    <3>5. \A u \in User : recoveryCode'[u] # "none" => commitment'[u] # {}
      BY <3>3 DEF CodeInv, Forward
    <3>6. \A q \in Request : pc'[q] = "generate" =>
            \A u \in user'[q] : commitment'[u] # {} /\ recoveryCode'[u] = "none"
      <4>1. \A q \in Request : user[q] \subseteq User
        BY DEF TypeOK
      <4> QED
        BY <2>1, <2>2, <3>4, <4>1 DEF CodeInv, Forward
    <3>7. \A q, p \in Request :
            pc'[q] = "generate" /\ pc'[p] = "generate" /\ user'[q] \intersect user'[p] # {}
            => q = p
      BY <2>1, <2>2 DEF CodeInv
    <3> QED
      BY <3>5, <3>6, <3>7 DEF CodeInv
  <2> QED
    BY <1>4, <2>3, <2>4 DEF Prove, VerifyProof, ReadStatus, PassGates, ValidateAuthorizeRequest,
       MintCode, IssueSession,
       Exchange, FindCode, RevokeAll, MarkUsed, Recover, FindRecoveryCode, CheckCommitment,
       Transact, Fail, tables
<1>5. CASE UNCHANGED vars
  BY <1>1, <1>5 DEF vars, tables
<1> QED
  BY <1>2, <1>3, <1>4, <1>5 DEF Next

(* The unique index, at both places that write a commitment. *)
LEMMA SecretStep ==
  ASSUME IInv, [Next]_vars
  PROVE  OneAccountPerSecret'
<1> USE DEF IInv, RequestInv
<1>1. ASSUME UNCHANGED commitment PROVE OneAccountPerSecret'
  BY <1>1 DEF OneAccountPerSecret
<1>2. ASSUME NEW u \in User, NEW s \in Secret, Unique(u, s),
             commitment' = [commitment EXCEPT ![u] = {s}]
      PROVE  OneAccountPerSecret'
  <2>1. \A v \in User \ {u} : s \notin commitment[v] /\ commitment'[v] = commitment[v]
    BY <1>2 DEF Unique, Holders, TypeOK
  <2>2. commitment'[u] = {s}
    BY <1>2 DEF TypeOK
  <2> QED
    BY <2>1, <2>2 DEF OneAccountPerSecret
<1>3. ASSUME NEW r \in Request, CreateUser(r) PROVE OneAccountPerSecret'
  <2>1. kind(r) = "register" /\ op[r] # NotArrived
    BY <1>3 DEF CreateUser, At, Q
  <2>2. op[r].secret \in Secret
    BY <2>1, BodyFields
  <2> QED
    BY <1>1, <1>2, <1>3, <2>2 DEF CreateUser
<1>4. ASSUME NEW r \in Request, Transact(r) PROVE OneAccountPerSecret'
  <2>1. kind(r) = "recover" /\ op[r] # NotArrived
    BY <1>4 DEF Transact, At, Q
  <2>2. op[r].secret \in Secret /\ op[r].user \in User
    BY <2>1, BodyFields
  <2> QED
    BY <1>1, <1>2, <1>4, <2>2 DEF Transact, ReplaceKey
<1> QED
  BY <1>1, <1>3, <1>4 DEF Next, Arrive, Register, FindCommitment, GenerateCode, Prove,
     VerifyProof, ReadStatus, PassGates, ValidateAuthorizeRequest,
     MintCode, IssueSession, Exchange, FindCode, RevokeAll,
     MarkUsed, Recover, FindRecoveryCode, CheckCommitment, Fail, tables, vars

LEMMA PendingStep ==
  ASSUME IInv, [Next]_vars
  PROVE  PendingIffBurned'
<1> USE DEF IInv, RequestInv
<1>1. ASSUME UNCHANGED <<status, recoveryCode>> PROVE PendingIffBurned'
  BY <1>1 DEF PendingIffBurned
<1>2. ASSUME NEW r \in Request, GenerateCode(r) PROVE PendingIffBurned'
  <2>1. \A u \in User : \/ recoveryCode'[u] = recoveryCode[u]
                        \/ u \in user[r] /\ recoveryCode'[u] = "active"
    BY <1>2 DEF GenerateCode, TypeOK
  <2>2. \A u \in user[r] : recoveryCode[u] = "none"
    BY <1>2 DEF GenerateCode, At, CodeInv
  <2> QED
    BY <1>2, <2>1, <2>2 DEF GenerateCode, PendingIffBurned
<1>3. ASSUME NEW r \in Request, Transact(r) PROVE PendingIffBurned'
  BY <1>1, <1>3 DEF Transact, ReplaceKey, PendingIffBurned, TypeOK
<1>4. ASSUME NEW r \in Request, ReadStatus(r) PROVE PendingIffBurned'
  BY <1>1, <1>4, StatusKept DEF ReadStatus
<1> QED
  BY <1>1, <1>2, <1>3, <1>4 DEF Next, Arrive, Register, FindCommitment, CreateUser, Prove,
     VerifyProof, PassGates, ValidateAuthorizeRequest,
     MintCode, IssueSession, Exchange, FindCode, RevokeAll,
     MarkUsed, Recover, FindRecoveryCode, CheckCommitment, Fail, tables, vars

LEMMA InitInv == Init => IInv
<1> SUFFICES ASSUME Init PROVE IInv
  OBVIOUS
<1>1. TypeOK
  <2>1. past \in [Request -> Past]
    BY DEF Init, Past
  <2> QED
    BY <2>1 DEF Init, TypeOK
<1>2. OneAccountPerSecret /\ PendingIffBurned /\ CodeInv
  BY DEF Init, OneAccountPerSecret, PendingIffBurned, CodeInv
<1>3. RequestInv
  <2> SUFFICES ASSUME NEW r \in Request PROVE Q(r)
    BY DEF RequestInv
  <2>1. /\ pc[r] = "arriving" /\ op[r] = NotArrived /\ kind(r) = "none"
        /\ past[r].spent = FALSE /\ past[r].sessions = {}
        /\ session[r] = "none" /\ oauthCode[r] = "none"
    BY DEF Init, NotArrived, kind
  <2> QED
    BY <2>1 DEF Q
<1> QED
  BY <1>1, <1>2, <1>3 DEF IInv

THEOREM Inductive == Spec => []IInv
<1>1. IInv /\ [Next]_vars => IInv'
  <2> SUFFICES ASSUME IInv, [Next]_vars PROVE IInv'
    OBVIOUS
  <2>1. TypeOK' /\ Forward
    BY TypeInv, ForwardStep
  <2> QED
    BY <2>1, SecretStep, PendingStep, CodeStep, RequestStep DEF IInv
<1> QED
  BY InitInv, <1>1, PTL DEF Spec

(* Account's variables have their types, always. *)
THEOREM AccountTypeCorrect == Spec => []TypeOK
BY Inductive, PTL DEF IInv

(* Registrations and recoveries that race for one secret leave it with one  *)
(* account, for any number of them.                                         *)
THEOREM SecretsDistinct == Spec => []OneAccountPerSecret
BY Inductive, PTL DEF IInv

(* The transaction of executeRecovery: PENDING_VERIFY and a spent recovery  *)
(* code come together and stay together.                                    *)
THEOREM RecoveryAtomic == Spec => []PendingIffBurned
BY Inductive, PTL DEF IInv

(* isUsed and is_used, once seen by a new request, are final. *)
THEOREM SpentCodes == Spec => []SpentCodeYieldsNothing
<1>1. IInv => SpentCodeYieldsNothing
  BY DEF IInv, RequestInv, Q, SpentCodeYieldsNothing, At
<1> QED
  BY <1>1, Inductive, PTL

(* A recovery that was answered has ended every session it found. *)
THEOREM RecoveryRevokes == Spec => []RecoveryEndsSessions
<1>1. IInv => RecoveryEndsSessions
  BY DEF IInv, RequestInv, Q, RecoveryEndsSessions, At
<1> QED
  BY <1>1, Inductive, PTL

(* Nothing in the backend makes an account ACTIVE again: the activating     *)
(* branch of postVerify is dead code.                                       *)
THEOREM NeverReactivated ==
  Spec => [][\A u \in User : status[u] = "PENDING_VERIFY" => status'[u] = "PENDING_VERIFY"]_vars
<1>1. IInv /\ [Next]_vars =>
        [\A u \in User : status[u] = "PENDING_VERIFY" => status'[u] = "PENDING_VERIFY"]_vars
  BY ForwardStep DEF Forward
<1> QED
  BY <1>1, Inductive, PTL DEF Spec

-----------------------------------------------------------------------------
(* The institutes.  A row never changes, so it is enough that every insert  *)
(* meets the unique indexes and that only its own attempt calls it its own. *)

(* What the handler has by the time it comes to a place.                    *)
HandlerKnows ==
  \A a \in Attempt :
    /\ handler[a] # "new" => body[a] \in Submission
    /\ handler[a] \in {"email", "create", "created"} => slugOf[a] \in Slug

(* Every institute is the row of an attempt that has ended, and the unique  *)
(* indexes hold.                                                            *)
RowsAreOwned ==
  /\ \A i \in institutes : i = Row(i.keys) /\ handler[i.keys] \in {"created", "failed"}
  /\ \A i, j \in institutes : i.slug = j.slug \/ i.email = j.email => i = j

OutcomesStand ==
  \A a \in Attempt :
    /\ handler[a] = "created" => Row(a) \in institutes
    /\ handler[a] = "conflict" => EmailTaken(a)

FormKnows ==
  \A p \in Page :
    /\ \A a, b \in request[p] : a = b
    /\ submitState[p] = "success" => \A a \in request[p] : handler[a] = "created"

InstitutesInv ==
  InstitutesTypeOK /\ HandlerKnows /\ RowsAreOwned /\ OutcomesStand /\ FormKnows

LEMMA InstitutesInitInv == InstitutesInit => InstitutesInv
<1> SUFFICES ASSUME InstitutesInit PROVE InstitutesInv
  OBVIOUS
<1>1. InstitutesTypeOK
  BY DEF InstitutesInit, InstitutesTypeOK
<1> QED
  BY <1>1 DEF InstitutesInit, InstitutesInv, HandlerKnows, RowsAreOwned, OutcomesStand, FormKnows

(* A new row that the indexes allow disturbs none that are there.           *)
LEMMA InsertInv ==
  ASSUME InstitutesInv, NEW a \in Attempt, handler[a] = "create", IndexesAllow(a),
         NEW place \in {"created", "failed"}, Proceeds(a, place),
         institutes' = institutes \union {Row(a)},
         UNCHANGED <<slugOf, body, form>>
  PROVE  InstitutesInv'
<1> USE DEF InstitutesInv
<1>1. Row(a) \in Institute
  BY DEF HandlerKnows, Row, Institute, Submission
<1>2. /\ handler' \in [Attempt -> {"new"} \union Pending \union Ended]
      /\ handler'[a] = place
      /\ \A b \in Attempt : b # a => handler'[b] = handler[b]
  BY DEF InstitutesTypeOK, Proceeds, Pending, Ended
<1>3. InstitutesTypeOK'
  BY <1>1, <1>2 DEF InstitutesTypeOK, form
<1>4. HandlerKnows'
  BY <1>2 DEF HandlerKnows
<1>5. RowsAreOwned'
  <2>1. /\ \A i \in institutes : i # Row(a) /\ i.keys # a
        /\ Row(a).keys = a
    BY DEF RowsAreOwned, Row, IndexesAllow, EmailTaken
  <2>2. \A b : Row(b)' = Row(b)
    BY DEF Row
  <2>3. \A i \in institutes : i.keys \in Attempt
    BY DEF InstitutesTypeOK, Institute
  <2>4. \A i \in institutes' : i = Row(i.keys)' /\ handler'[i.keys] \in {"created", "failed"}
    BY <1>2, <2>1, <2>2, <2>3 DEF RowsAreOwned
  <2>5. \A i \in institutes : i.slug # Row(a).slug /\ i.email # Row(a).email
    BY DEF IndexesAllow, EmailTaken, Row
  <2>6. \A i, j \in institutes' : i.slug = j.slug \/ i.email = j.email => i = j
    BY <2>5 DEF RowsAreOwned
  <2> QED
    BY <2>4, <2>6 DEF RowsAreOwned
<1>6. OutcomesStand'
  BY <1>2 DEF OutcomesStand, Row, EmailTaken
<1>7. FormKnows'
  BY <1>2 DEF FormKnows, form, InstitutesTypeOK
<1> QED
  BY <1>3, <1>4, <1>5, <1>6, <1>7

LEMMA InstitutesStepInv ==
  InstitutesInv /\ [InstitutesNext]_instituteVars => InstitutesInv'
<1> SUFFICES ASSUME InstitutesInv, [InstitutesNext]_instituteVars PROVE InstitutesInv'
  OBVIOUS
<1> USE DEF InstitutesInv
<1>1. ASSUME NEW a \in Attempt, NEW suffix \in Suffix \union {NoSuffix}, FindSlug(a, suffix)
      PROVE  InstitutesInv'
  <2>1. /\ body[a] \in Submission
        /\ <<body[a].name, suffix>> \in Slug
    BY <1>1 DEF FindSlug, HandlerKnows, Submission, Slug
  <2>2. InstitutesTypeOK'
    BY <1>1, <2>1 DEF FindSlug, Proceeds, form, InstitutesTypeOK, Pending
  <2>3. HandlerKnows'
    BY <1>1, <2>1 DEF FindSlug, Proceeds, HandlerKnows, InstitutesTypeOK
  <2>4. RowsAreOwned' /\ OutcomesStand' /\ FormKnows'
    BY <1>1 DEF FindSlug, Proceeds, form, InstitutesTypeOK, Institute, RowsAreOwned,
                OutcomesStand, FormKnows, Row, EmailTaken
  <2> QED
    BY <2>2, <2>3, <2>4
<1>2. ASSUME NEW a \in Attempt, FindEmail(a) \/ FindEmailFails(a)
      PROVE  InstitutesInv'
  <2>1. InstitutesTypeOK'
    BY <1>2 DEF FindEmail, FindEmailFails, Proceeds, form, InstitutesTypeOK, Pending, Ended
  <2>2. HandlerKnows'
    BY <1>2 DEF FindEmail, FindEmailFails, Proceeds, HandlerKnows, InstitutesTypeOK
  <2>3. RowsAreOwned' /\ OutcomesStand' /\ FormKnows'
    BY <1>2 DEF FindEmail, FindEmailFails, Proceeds, form, InstitutesTypeOK, Institute,
                RowsAreOwned, OutcomesStand, FormKnows, Row, EmailTaken
  <2> QED
    BY <2>1, <2>2, <2>3
<1>3. ASSUME NEW a \in Attempt, Create(a)
      PROVE  InstitutesInv'
  BY <1>3, InsertInv DEF Create
<1>4. ASSUME NEW a \in Attempt, HandlerFails(a)
      PROVE  InstitutesInv'
  <2>1. CASE UNCHANGED institutes
    <3>1. InstitutesTypeOK'
      BY <1>4, <2>1 DEF HandlerFails, Proceeds, form, InstitutesTypeOK, Ended
    <3>2. HandlerKnows'
      BY <1>4, <2>1 DEF HandlerFails, Proceeds, HandlerKnows, InstitutesTypeOK, Pending
    <3>3. RowsAreOwned' /\ OutcomesStand' /\ FormKnows'
      BY <1>4, <2>1 DEF HandlerFails, Proceeds, form, InstitutesTypeOK, Institute, Pending,
                  RowsAreOwned, OutcomesStand, FormKnows, Row, EmailTaken
    <3> QED
      BY <3>1, <3>2, <3>3
  <2>2. CASE /\ handler[a] = "create" /\ IndexesAllow(a)
             /\ institutes' = institutes \union {Row(a)}
    BY <1>4, <2>2, InsertInv DEF HandlerFails
  <2> QED
    BY <1>4, <2>1, <2>2 DEF HandlerFails
<1>5. ASSUME NEW p \in Page, NEW a \in Attempt, NEW name \in Name, NEW email \in Email,
             HandleRegister(p, a, name, email)
      PROVE  InstitutesInv'
  <2>1. InstitutesTypeOK'
    BY <1>5 DEF HandleRegister, Proceeds, Shows, InstitutesTypeOK, Submission, Pending
  <2>2. HandlerKnows'
    BY <1>5 DEF HandleRegister, Proceeds, HandlerKnows, InstitutesTypeOK, Submission
  <2>3. RowsAreOwned' /\ OutcomesStand'
    BY <1>5 DEF HandleRegister, Proceeds, InstitutesTypeOK, Institute,
                RowsAreOwned, OutcomesStand, Row, EmailTaken
  <2>4. FormKnows'
    BY <1>5 DEF HandleRegister, Proceeds, Shows, InstitutesTypeOK, FormKnows
  <2> QED
    BY <2>1, <2>2, <2>3, <2>4
<1>6. ASSUME NEW p \in Page, FetchAnswers(p) \/ FetchFails(p) \/ Reload(p)
      PROVE  InstitutesInv'
  <2>1. /\ UNCHANGED <<server, body>>
        /\ \E state \in {"success", "error", "idle"} : Shows(p, state)
        /\ request' = request \/ request' = [request EXCEPT ![p] = {}]
    BY <1>6 DEF FetchAnswers, FetchFails, Reload
  <2>2. InstitutesTypeOK'
    BY <2>1 DEF Shows, server, InstitutesTypeOK
  <2>3. HandlerKnows' /\ RowsAreOwned' /\ OutcomesStand'
    BY <2>1 DEF server, HandlerKnows, RowsAreOwned, OutcomesStand, Row, EmailTaken
  <2>4. FormKnows'
    BY <1>6 DEF FetchAnswers, FetchFails, Reload, Shows, server, InstitutesTypeOK, FormKnows
  <2> QED
    BY <2>2, <2>3, <2>4
<1>7. CASE UNCHANGED instituteVars
  BY <1>7 DEF instituteVars, server, form, InstitutesTypeOK, HandlerKnows, RowsAreOwned,
              OutcomesStand, FormKnows, Row, EmailTaken
<1> QED
  BY <1>1, <1>2, <1>3, <1>4, <1>5, <1>6, <1>7 DEF InstitutesNext

(* The table and the handlers keep their types.                             *)
THEOREM InstitutesTypeCorrect == InstitutesSpec => []InstitutesTypeOK
<1>1. InstitutesInv => InstitutesTypeOK
  BY DEF InstitutesInv
<1> QED
  BY InstitutesInitInv, InstitutesStepInv, <1>1, PTL DEF InstitutesSpec

(* platform.routes.ts:104-156, for any number of pages and registrations:   *)
(* the DID and the API key that a page shows are that institute's and no    *)
(* other's, and "already registered" is true.                               *)
THEOREM IdentitiesAreOwned == InstitutesSpec => []IdentityIsOwned
<1>1. InstitutesInv => IdentityIsOwned
  <2> SUFFICES ASSUME InstitutesInv PROVE IdentityIsOwned
    OBVIOUS
  <2> USE DEF InstitutesInv
  <2>1. ASSUME NEW p \in Page, NEW a \in Attempt, submitState[p] = "success", a \in request[p]
        PROVE  /\ ResolveDid(slugOf[a]) = {a}
               /\ VerifyApiKey(a) = {slugOf[a]}
               /\ \A i \in institutes : i.email = body[a].email => i.keys = a
    <3>1. Row(a) \in institutes
      BY <2>1 DEF FormKnows, OutcomesStand
    <3>2. Row(a).slug = slugOf[a] /\ Row(a).email = body[a].email /\ Row(a).keys = a
      BY DEF Row
    <3>3. \A i \in institutes :
            i.slug = slugOf[a] \/ i.email = body[a].email \/ i.keys = a => i = Row(a)
      BY <3>1, <3>2 DEF RowsAreOwned
    <3>4. ResolveDid(slugOf[a]) = {a}
      BY <3>1, <3>2, <3>3 DEF ResolveDid
    <3>5. VerifyApiKey(a) = {slugOf[a]}
      BY <3>1, <3>2, <3>3 DEF VerifyApiKey
    <3> QED
      BY <3>2, <3>3, <3>4, <3>5
  <2>2. \A a \in Attempt : handler[a] = "conflict" => EmailTaken(a)
    BY DEF OutcomesStand
  <2> QED
    BY <2>1, <2>2 DEF IdentityIsOwned
<1> QED
  BY InstitutesInitInv, InstitutesStepInv, <1>1, PTL DEF InstitutesSpec
=============================================================================
