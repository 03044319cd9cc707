------------------------------ MODULE Account ------------------------------
(***************************************************************************)
(* What happens to an account: POST /auth/register creates it,              *)
(* POST /auth/verify lets a proof of its secret in, for a session or for an *)
(* OAuth authorization code, POST /oauth/token turns the code into a        *)
(* session, and POST /auth/recover replaces a lost secret and ends all      *)
(* sessions.  Every step is one statement, or one transaction, on           *)
(* PostgreSQL:                                                              *)
(*                                                                          *)
(*   register    findCommitment, createUser, generate                       *)
(*   login       verify, readStatus, gates, issue                           *)
(*   authorize   verify, readStatus, gates, mint                            *)
(*   exchange    findCode, markUsed, issue   (or revokeAll for a used code) *)
(*   recover     findRecoveryCode, checkCommitment, transact                *)
(*                                                                          *)
(* The gates are the nullifier and the challenge of ZkpLogin; what becomes  *)
(* of a session afterwards is in Session.  A recovery presents the mnemonic *)
(* of its account, an exchange a code that was minted.                      *)
(***************************************************************************)

CONSTANTS
  User,             \* account ids: as many as are ever registered
  Secret,           \* users' secrets, one commitment each
  Request           \* HTTP requests

VARIABLES
  commitment,       \* users.commitment_hash: commitment[u], {} before u is created
  status,           \* users.status
  recoveryCode,     \* recovery_codes: the code of u
  oauthCode,        \* oauth_authorization_codes: the code minted for request r
  session,          \* sessions: the session that request r created
  op,               \* op[r]: what request r asks for, once it has arrived
  pc,               \* pc[r]: the next call of its handler, or its answer
  user,             \* user[r]: the account its handler has resolved, as a set
  past              \* past[r]: what was the case when r arrived (history)

tables == <<commitment, status, recoveryCode, oauthCode, session>>
vars == <<tables, op, pc, user, past>>

-----------------------------------------------------------------------------
(* The X-Recovery-Token header: of one account, or absent. *)
Token == {{}} \union {{u} : u \in User}

Body ==
  [kind : {"register"}, secret : Secret]
    \union [kind : {"login", "authorize"}, secret : Secret, token : Token]
    \union [kind : {"exchange"}, code : Request]
    \union [kind : {"recover"}, user : User, secret : Secret]
NotArrived == [kind |-> "none"]

Handling == {"findCommitment", "createUser", "generate", "verify", "readStatus", "gates",
             "issue", "client", "mint", "findCode", "markUsed", "revokeAll",
             "findRecoveryCode", "checkCommitment", "transact"}
Answer == {"done", "refused", "failed"}

Past == [spent : BOOLEAN, sessions : SUBSET Request, pending : SUBSET User]

TypeOK ==
  /\ commitment \in [User -> SUBSET Secret]
  /\ status \in [User -> {"ACTIVE", "PENDING_VERIFY"}]
  /\ recoveryCode \in [User -> {"none", "active", "used"}]
  /\ oauthCode \in [Request -> {"none", "fresh", "used"}]
  /\ session \in [Request -> {"none", "active", "revoked"}]
  /\ op \in [Request -> Body \union {NotArrived}]
  /\ pc \in [Request -> {"arriving"} \union Handling \union Answer]
  /\ user \in [Request -> SUBSET User]
  /\ past \in [Request -> Past]

kind(r) == op[r].kind
At(r, step) == pc[r] = step
GoTo(r, step) == pc' = [pc EXCEPT ![r] = step]

(* prisma.user.findUnique by commitment_hash *)
Holders(s) == {u \in User : s \in commitment[u]}

(* The database may hold accounts from before, with a recovery code or not. *)
Init ==
  /\ commitment \in {f \in [User -> {{}} \union {{s} : s \in Secret}] :
                       \A u, v \in User : u # v => f[u] \intersect f[v] = {}}
  /\ status = [u \in User |-> "ACTIVE"]
  /\ recoveryCode \in {f \in [User -> {"none", "active"}] :
                         \A u \in User : commitment[u] = {} => f[u] = "none"}
  /\ oauthCode = [r \in Request |-> "none"]
  /\ session = [r \in Request |-> "none"]
  /\ op = [r \in Request |-> NotArrived]
  /\ pc = [r \in Request |-> "arriving"]
  /\ user = [r \in Request |-> {}]
  /\ past = [r \in Request |-> [spent |-> FALSE, sessions |-> {}, pending |-> {}]]

-----------------------------------------------------------------------------
FirstStep(b) ==
  CASE b.kind = "register" -> "findCommitment"
    [] b.kind = "exchange" -> "findCode"
    [] b.kind = "recover" -> "findRecoveryCode"
    [] OTHER -> "verify"

(* What a client can know: a token is what a recovery answered with, a code *)
(* what an authorization answered with, a mnemonic what was generated.      *)
Known(b) ==
  CASE b.kind = "register" -> TRUE
    [] b.kind = "exchange" -> oauthCode[b.code] # "none" /\ At(b.code, "done")
    [] b.kind = "recover" -> recoveryCode[b.user] # "none"
    [] OTHER -> \A u \in b.token :
                  \E q \in Request : kind(q) = "recover" /\ At(q, "done") /\ op[q].user = u

(* Whether the one-time code b presents is already spent. *)
Spent(b) ==
  \/ b.kind = "exchange" /\ oauthCode[b.code] = "used"
  \/ b.kind = "recover" /\ recoveryCode[b.user] = "used"

SessionsOf(u) == {r \in Request : user[r] = {u} /\ session[r] = "active"}

Arrive(r) ==
  /\ At(r, "arriving")
  /\ \E b \in Body :
       /\ Known(b)
       /\ op' = [op EXCEPT ![r] = b]
       /\ GoTo(r, FirstStep(b))
       /\ past' = [past EXCEPT ![r] =
            [spent |-> Spent(b),
             sessions |-> IF b.kind = "recover" THEN SessionsOf(b.user) ELSE {},
             pending |-> {u \in User : status[u] = "PENDING_VERIFY"}]]
  /\ UNCHANGED <<tables, user>>

-----------------------------------------------------------------------------
(* postRegister                                                             *)

FindCommitment(r) ==
  /\ At(r, "findCommitment")
  /\ GoTo(r, IF Holders(op[r].secret) = {} THEN "createUser" ELSE "refused")
  /\ UNCHANGED <<tables, op, user, past>>

\* Mutant: without the unique index.
NoViolation(u, s) == TRUE

(* Writing secret s into row u respects the unique index on commitment_hash. *)
Unique(u, s) == Holders(s) \subseteq {u}

(* user.create under a fresh id; the answer may be lost. *)
CreateUser(r) ==
  /\ At(r, "createUser")
  /\ \/ \E u \in User :
          /\ commitment[u] = {}
          /\ Unique(u, op[r].secret)
          /\ commitment' = [commitment EXCEPT ![u] = {op[r].secret}]
          /\ user' = [user EXCEPT ![r] = {u}]
          /\ GoTo(r, "generate") \/ GoTo(r, "failed")
     \/ /\ Holders(op[r].secret) # {}
        /\ GoTo(r, "failed")
        /\ UNCHANGED <<commitment, user>>
  /\ UNCHANGED <<status, recoveryCode, oauthCode, session, op, past>>

(* generateForUser; its failure is logged, and the account has no code. *)
GenerateCode(r) ==
  /\ At(r, "generate")
  /\ recoveryCode' \in {recoveryCode,
       [u \in User |-> IF u \in user[r] THEN "active" ELSE recoveryCode[u]]}
  /\ GoTo(r, "done")
  /\ UNCHANGED <<commitment, status, oauthCode, session, op, user, past>>

-----------------------------------------------------------------------------
(* postVerify, from the proof to what it is good for                        *)

(* zkpService.verify: the account that holds the secret, if it is ACTIVE. *)
VerifyProof(r) ==
  /\ At(r, "verify")
  /\ \/ \E u \in Holders(op[r].secret) :
          /\ status[u] = "ACTIVE"
          /\ user' = [user EXCEPT ![r] = {u}]
          /\ GoTo(r, "readStatus")
     \/ GoTo(r, "refused") /\ UNCHANGED user
  /\ UNCHANGED <<tables, op, past>>

(* The recovery-pending check reads the status once more.  An account that  *)
(* turned PENDING_VERIFY since needs its recovery token and becomes ACTIVE; *)
(* that update is part of this step, for no behaviour reaches it: a token   *)
(* exists only once its account is PENDING_VERIFY, which VerifyProof        *)
(* refuses.                                                                 *)
ReadStatus(r) ==
  /\ At(r, "readStatus")
  /\ LET pending == \E u \in user[r] : status[u] = "PENDING_VERIFY"
         activates == pending /\ op[r].token = user[r]
     IN /\ GoTo(r, IF pending /\ ~activates THEN "refused" ELSE "gates")
        /\ status' = [u \in User |->
                        IF activates /\ u \in user[r] THEN "ACTIVE" ELSE status[u]]
  /\ UNCHANGED <<commitment, recoveryCode, oauthCode, session, op, user, past>>

(* nullifierService.register and challengeService.consume *)
PassGates(r) ==
  /\ At(r, "gates")
  /\ GoTo(r, IF kind(r) = "login" THEN "issue" ELSE "client") \/ GoTo(r, "refused")
  /\ UNCHANGED <<tables, op, user, past>>

(* validateAuthorizeRequest: the client is looked up once more, and refused *)
(* unless it is active and the redirect URI, scopes and PKCE method are its. *)
ValidateAuthorizeRequest(r) ==
  /\ At(r, "client")
  /\ GoTo(r, "mint") \/ GoTo(r, "refused")
  /\ UNCHANGED <<tables, op, user, past>>

(* issueAuthorizationCode *)
MintCode(r) ==
  /\ At(r, "mint")
  /\ \/ /\ oauthCode' = [oauthCode EXCEPT ![r] = "fresh"]
        /\ GoTo(r, "done") \/ GoTo(r, "failed")
     \/ GoTo(r, "refused") /\ UNCHANGED oauthCode
  /\ UNCHANGED <<commitment, status, recoveryCode, session, op, user, past>>

(* sessionService.issue *)
IssueSession(r) ==
  /\ At(r, "issue")
  /\ session' = [session EXCEPT ![r] = "active"]
  /\ GoTo(r, "done") \/ GoTo(r, "failed")
  /\ UNCHANGED <<commitment, status, recoveryCode, oauthCode, op, user, past>>

-----------------------------------------------------------------------------
(* exchangeCodeForToken                                                     *)

Code(r) == op[r].code

\* Mutant: isUsed is not looked at.
FindAnyCode(r) ==
  /\ At(r, "findCode")
  /\ user' = [user EXCEPT ![r] = user[Code(r)]]
  /\ GoTo(r, "markUsed") \/ GoTo(r, "refused")
  /\ UNCHANGED <<tables, op, past>>

(* The row is read, in a transaction that locks nothing.  A fresh code may  *)
(* have expired, or be another client's.                                    *)
FindCode(r) ==
  /\ At(r, "findCode")
  /\ user' = [user EXCEPT ![r] = user[Code(r)]]
  /\ IF oauthCode[Code(r)] = "used" THEN GoTo(r, "revokeAll")
                                    ELSE GoTo(r, "markUsed") \/ GoTo(r, "refused")
  /\ UNCHANGED <<tables, op, past>>

(* A used code is taken for an intercepted one; what the revocation does     *)
(* not reach is nobody's concern (catch).                                   *)
RevokeAll(r) ==
  /\ At(r, "revokeAll")
  /\ \E missed \in SUBSET {q \in Request : user[q] = user[r] /\ session[q] = "active"} :
       session' = [q \in Request |->
         IF user[q] = user[r] /\ session[q] = "active" /\ q \notin missed
         THEN "revoked" ELSE session[q]]
  /\ GoTo(r, "refused")
  /\ UNCHANGED <<commitment, status, recoveryCode, oauthCode, op, user, past>>

(* The update names the code only, not isUsed: false. *)
MarkUsed(r) ==
  /\ At(r, "markUsed")
  /\ oauthCode' = [oauthCode EXCEPT ![Code(r)] = "used"]
  /\ GoTo(r, "issue") \/ GoTo(r, "failed")
  /\ UNCHANGED <<commitment, status, recoveryCode, session, op, user, past>>

-----------------------------------------------------------------------------
(* executeRecovery                                                          *)

(* The account is named by its id or by its commitment, which may be out of *)
(* date; the mnemonic may be mistyped.                                      *)
FindRecoveryCode(r) ==
  /\ At(r, "findRecoveryCode")
  /\ IF recoveryCode[op[r].user] = "active"
     THEN GoTo(r, "checkCommitment") \/ GoTo(r, "refused")
     ELSE GoTo(r, "refused")
  /\ user' = [user EXCEPT ![r] = {op[r].user}]
  /\ UNCHANGED <<tables, op, past>>

CheckCommitment(r) ==
  /\ At(r, "checkCommitment")
  /\ GoTo(r, IF Unique(op[r].user, op[r].secret) THEN "transact" ELSE "refused")
  /\ UNCHANGED <<tables, op, user, past>>

\* Mutant: the sessions are left to expire.
ReplaceKeyOnly(u, s) ==
  /\ recoveryCode' = [recoveryCode EXCEPT ![u] = "used"]
  /\ commitment' = [commitment EXCEPT ![u] = {s}]
  /\ status' = [status EXCEPT ![u] = "PENDING_VERIFY"]
  /\ UNCHANGED session

\* Mutant: the account stays ACTIVE.
ReplaceKeyActive(u, s) ==
  /\ recoveryCode' = [recoveryCode EXCEPT ![u] = "used"]
  /\ session' = [r \in Request |-> IF user[r] = {u} /\ session[r] = "active"
                                   THEN "revoked" ELSE session[r]]
  /\ commitment' = [commitment EXCEPT ![u] = {s}]
  /\ UNCHANGED status

(* What the transaction writes: burn_recovery_code, whose answer is not     *)
(* looked at; every session of the account revoked; the new commitment.     *)
ReplaceKey(u, s) ==
  /\ recoveryCode' = [recoveryCode EXCEPT ![u] = "used"]
  /\ session' = [r \in Request |-> IF user[r] = {u} /\ session[r] = "active"
                                   THEN "revoked" ELSE session[r]]
  /\ commitment' = [commitment EXCEPT ![u] = {s}]
  /\ status' = [status EXCEPT ![u] = "PENDING_VERIFY"]

(* It commits as a whole, or the unique index aborts it as a whole.         *)
Transact(r) ==
  /\ At(r, "transact")
  /\ \/ /\ Unique(op[r].user, op[r].secret)
        /\ ReplaceKey(op[r].user, op[r].secret)
        /\ GoTo(r, "done") \/ GoTo(r, "failed")
     \/ /\ ~Unique(op[r].user, op[r].secret)
        /\ GoTo(r, "failed")
        /\ UNCHANGED <<recoveryCode, session, commitment, status>>
  /\ UNCHANGED <<oauthCode, op, user, past>>

-----------------------------------------------------------------------------
(* A call fails before it took effect, or the process dies: the handler     *)
(* goes no further.                                                         *)
Fail(r) ==
  /\ pc[r] \in Handling
  /\ GoTo(r, "failed")
  /\ UNCHANGED <<tables, op, user, past>>

Register(r) == FindCommitment(r) \/ CreateUser(r) \/ GenerateCode(r)
Prove(r) ==
  \/ VerifyProof(r) \/ ReadStatus(r) \/ PassGates(r)
  \/ ValidateAuthorizeRequest(r) \/ MintCode(r) \/ IssueSession(r)
Exchange(r) == FindCode(r) \/ RevokeAll(r) \/ MarkUsed(r)
Recover(r) == FindRecoveryCode(r) \/ CheckCommitment(r) \/ Transact(r)

Next ==
  \E r \in Request :
    Arrive(r) \/ Register(r) \/ Prove(r) \/ Exchange(r) \/ Recover(r) \/ Fail(r)

Spec == Init /\ [][Next]_vars

-----------------------------------------------------------------------------
(* postRegister and executeRecovery both look whether a commitment is taken *)
(* long before they write it.  No two accounts ever share one, so a proof,  *)
(* which names its account by nothing else, lets nobody into another's.     *)
OneAccountPerSecret ==
  \A u, v \in User : commitment[u] \intersect commitment[v] # {} => u = v

(* An account waits for its new proof exactly when its recovery code was    *)
(* spent ("Atomic recovery transaction"): no code burns for nothing, and no *)
(* account is recovered with a code that can be used again.                 *)
PendingIffBurned ==
  \A u \in User : status[u] = "PENDING_VERIFY" <=> recoveryCode[u] = "used"

(* "Codes are single-use" (oauth.service.ts) and the burn of the recovery   *)
(* code: a request that came in when its code was already spent gets        *)
(* neither a session nor a recovery, whatever requests are in flight.       *)
SpentCodeYieldsNothing ==
  \A r \in Request :
    past[r].spent => session[r] = "none" /\ ~(kind(r) = "recover" /\ At(r, "done"))

(* "Revoke ALL active sessions globally" (executeRecovery): every session   *)
(* that was there when the recovery came in is revoked once it is answered, *)
(* and stays so.                                                            *)
RecoveryEndsSessions ==
  \A r \in Request :
    kind(r) = "recover" /\ At(r, "done") =>
      \A q \in past[r].sessions : session[q] = "revoked"

(* "A user in PENDING_VERIFY can only authenticate if the request carries a *)
(* valid recovery JWT" (postVerify): who comes in when the account is       *)
(* PENDING_VERIFY gets a session only on the strength of that token.        *)
PendingNeedsToken ==
  \A r \in Request :
    session[r] # "none" /\ user[r] \subseteq past[r].pending =>
      kind(r) = "login" /\ op[r].token = user[r]
=============================================================================
