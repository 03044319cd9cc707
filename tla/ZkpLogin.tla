------------------------------ MODULE ZkpLogin ------------------------------
(***************************************************************************)
(* A proof on its way through the backend: POST /auth/challenge issues a   *)
(* challenge, POST /auth/verify and POST /session/step-up/resolve take a   *)
(* Groth16 proof that answers it.  Requests interleave at every await: each *)
(* step below is one call to Redis or PostgreSQL.                           *)
(*                                                                          *)
(*   login     fetch, exists, verify, lock, sadd, insert, release,          *)
(*             consume, mark, grant      (nullifier first)                  *)
(*   stepUp    pending, fetch, exists, verify, consume, mark, lock, sadd,   *)
(*             insert, release, grant    (challenge first)                  *)
(*                                                                          *)
(* The environment may lose Redis keys (TTL, flush, failover), fail a call  *)
(* before or after it took effect, and kill the process serving a request.  *)
(***************************************************************************)

CONSTANTS
  User,             \* accounts, each with one secret
  Challenge,        \* challenge ids; the nonce is as unique as the id
  Request           \* HTTP requests that submit a proof

VARIABLES
  body,             \* body[r]: the endpoint, the prover and the challenge of request r
  pc,               \* pc[r]: the next call of the handler serving r, or its outcome
  issuing,          \* issuing[c]: how far ChallengeService.issue() got for c
  challengeKeys,    \* Redis: the challenge:{id} keys
  nullifierSet,     \* Redis: the members of the global nullifier SET
  lockKeys,         \* Redis: the nullifier_lock:{hash} keys
  challengeRow,     \* PostgreSQL zkp_challenges: the status of each row
  nullifierRows,    \* PostgreSQL nullifiers: the rows
  disturbed         \* history: Redis lost a key, or a call or a process died half way

redisVars == <<challengeKeys, nullifierSet, lockKeys>>
pgVars == <<challengeRow, nullifierRows>>
vars == <<body, pc, issuing, challengeKeys, nullifierSet, lockKeys,
          challengeRow, nullifierRows, disturbed>>

-----------------------------------------------------------------------------
(* nullifier_hash = Poseidon(secret, nonce): one value for each prover and  *)
(* challenge, different from all others.                                    *)
Nullifier == User \X Challenge

N(r) == <<body[r].user, body[r].chal>>
C(r) == body[r].chal

Body == [kind : {"login", "stepUp"}, user : User, chal : Challenge]

Handling == {"pending", "fetch", "exists", "verify", "lock", "sadd", "insert", "rollback",
             "releaseOk", "releaseFail", "consume", "mark", "grant"}
Outcome == {"granted", "ungranted", "refused", "crashed"}

TypeOK ==
  /\ body \in [Request -> Body]
  /\ pc \in [Request -> {"arriving"} \union Handling \union Outcome]
  /\ issuing \in [Challenge -> {"idle", "stored", "cleanup", "issued", "failed"}]
  /\ challengeKeys \subseteq Challenge
  /\ nullifierSet \subseteq Nullifier
  /\ lockKeys \subseteq Nullifier
  /\ challengeRow \in [Challenge -> {"none", "PENDING", "CONSUMED"}]
  /\ nullifierRows \subseteq Nullifier
  /\ disturbed \in BOOLEAN

Init ==
  /\ body \in [Request -> Body]
  /\ pc = [r \in Request |-> "arriving"]
  /\ issuing = [c \in Challenge |-> "idle"]
  /\ challengeKeys = {}
  /\ nullifierSet = {}
  /\ lockKeys = {}
  /\ challengeRow = [c \in Challenge |-> "none"]
  /\ nullifierRows = {}
  /\ disturbed = FALSE

-----------------------------------------------------------------------------
(* ChallengeService.issue                                                   *)

(* SET challenge:{id} EX 120 NX.  Ids are fresh, so NX finds no key. *)
IssueStore(c) ==
  /\ issuing[c] = "idle"
  /\ issuing' = [issuing EXCEPT ![c] = "stored"]
  /\ challengeKeys' = challengeKeys \union {c}
  /\ UNCHANGED <<body, pc, nullifierSet, lockKeys, pgVars, disturbed>>

(* prisma.zkpChallenge.create: the caller learns the id only if it succeeds. *)
IssuePersist(c) ==
  /\ issuing[c] = "stored"
  /\ \/ /\ issuing' = [issuing EXCEPT ![c] = "issued"]
        /\ challengeRow' = [challengeRow EXCEPT ![c] = "PENDING"]
     \/ /\ issuing' = [issuing EXCEPT ![c] = "cleanup"]
        /\ UNCHANGED challengeRow
  /\ UNCHANGED <<body, pc, redisVars, nullifierRows, disturbed>>

(* The catch block: DEL the key; its own failure is logged and swallowed. *)
IssueCleanUp(c) ==
  /\ issuing[c] = "cleanup"
  /\ issuing' = [issuing EXCEPT ![c] = "failed"]
  /\ challengeKeys' \in {challengeKeys, challengeKeys \ {c}}
  /\ UNCHANGED <<body, pc, nullifierSet, lockKeys, pgVars, disturbed>>

-----------------------------------------------------------------------------
(* Moving a request along.                                                  *)

At(r, step) == pc[r] = step
GoTo(r, step) == pc' = [pc EXCEPT ![r] = step]

(* The two controllers call the same services in opposite orders. *)
FirstStep(r)    == IF body[r].kind = "login" THEN "fetch" ELSE "pending"
\* Mutant: the challenge is consumed first, and the nullifier never recorded.
ConsumeAtOnce(r) == "consume"
\* Mutant: a verified proof is enough.
TrustProof(r) == "grant"

AfterVerify(r)  == IF body[r].kind = "login" THEN "lock" ELSE "consume"
AfterRegister(r) == IF body[r].kind = "login" THEN "consume" ELSE "grant"
AfterConsume(r) == IF body[r].kind = "login" THEN "grant" ELSE "lock"

(* A client that was told the challenge id sends its proof, once or many    *)
(* times: nothing relates the requests that carry the same proof.           *)
Arrive(r) ==
  /\ At(r, "arriving")
  /\ issuing[C(r)] = "issued"
  /\ GoTo(r, FirstStep(r))
  /\ UNCHANGED <<body, issuing, redisVars, pgVars, disturbed>>

(* GET step_up:{session}.  The risk service owns the key, so either answer. *)
ReadPendingStepUp(r) ==
  /\ At(r, "pending")
  /\ GoTo(r, "fetch") \/ GoTo(r, "refused")
  /\ UNCHANGED <<body, issuing, redisVars, pgVars, disturbed>>

\* Mutant: fetch is a GETDEL.
FetchAndDelete(r) ==
  /\ At(r, "fetch")
  /\ challengeKeys' = challengeKeys \ {C(r)}
  /\ GoTo(r, IF C(r) \in challengeKeys THEN "exists" ELSE "refused")
  /\ UNCHANGED <<body, issuing, nullifierSet, lockKeys, pgVars, disturbed>>

(* ChallengeService.fetch: reads, and does not consume.  On a miss the      *)
(* PostgreSQL row only chooses which error the client sees.                 *)
FetchChallenge(r) ==
  /\ At(r, "fetch")
  /\ GoTo(r, IF C(r) \in challengeKeys THEN "exists" ELSE "refused")
  /\ UNCHANGED <<body, issuing, redisVars, pgVars, disturbed>>

(* NullifierService.exists: the pre-check, in Redis only. *)
CheckNullifier(r) ==
  /\ At(r, "exists")
  /\ GoTo(r, IF N(r) \in nullifierSet THEN "refused" ELSE "verify")
  /\ UNCHANGED <<body, issuing, redisVars, pgVars, disturbed>>

(* ZkpService.verify: an honest proof may still be refused for its account's *)
(* status; that state belongs to the account, not to the proof.              *)
VerifyProof(r) ==
  /\ At(r, "verify")
  /\ GoTo(r, AfterVerify(r)) \/ GoTo(r, "refused")
  /\ UNCHANGED <<body, issuing, redisVars, pgVars, disturbed>>

-----------------------------------------------------------------------------
(* NullifierService.register                                                *)

(* SET nullifier_lock:{hash} EX 5 NX: a taken lock is answered as a replay. *)
AcquireLock(r) ==
  /\ At(r, "lock")
  /\ lockKeys' = lockKeys \union {N(r)}
  /\ GoTo(r, IF N(r) \in lockKeys THEN "refused" ELSE "sadd")
  /\ UNCHANGED <<body, issuing, challengeKeys, nullifierSet, pgVars, disturbed>>

(* Phase A, SADD: 0 means the nullifier is already a member. *)
AddMember(r) ==
  /\ At(r, "sadd")
  /\ nullifierSet' = nullifierSet \union {N(r)}
  /\ GoTo(r, IF N(r) \in nullifierSet THEN "releaseFail" ELSE "insert")
  /\ UNCHANGED <<body, issuing, challengeKeys, lockKeys, pgVars, disturbed>>

\* Mutant: challenge_id has no unique index, as before its migration.
HashIndexOnly(r) == N(r) \in nullifierRows

(* The two unique indexes of the nullifiers table: the hash, and the        *)
(* challenge it answers.                                                    *)
UniqueViolation(r) ==
  \/ N(r) \in nullifierRows
  \/ \E n \in nullifierRows : n[2] = C(r)

\* Mutant: a PostgreSQL error other than P2002 is logged and swallowed.
InsertBestEffort(r) ==
  /\ At(r, "insert")
  /\ \/ /\ ~UniqueViolation(r)
        /\ nullifierRows' \in {nullifierRows, nullifierRows \union {N(r)}}
        /\ GoTo(r, "releaseOk")
     \/ /\ UNCHANGED nullifierRows
        /\ GoTo(r, "rollback")
  /\ UNCHANGED <<body, issuing, redisVars, challengeRow, disturbed>>

(* Phase B, INSERT: P2002 and any other error both end in a rollback.       *)
InsertRow(r) ==
  /\ At(r, "insert")
  /\ \/ /\ ~UniqueViolation(r)
        /\ nullifierRows' = nullifierRows \union {N(r)}
        /\ GoTo(r, "releaseOk")
     \/ /\ UNCHANGED nullifierRows
        /\ GoTo(r, "rollback")
  /\ UNCHANGED <<body, issuing, redisVars, challengeRow, disturbed>>

\* Mutant: the SADD is not rolled back.
NoRollBack(r) ==
  /\ At(r, "rollback")
  /\ GoTo(r, "releaseFail")
  /\ UNCHANGED <<body, issuing, redisVars, pgVars, disturbed>>

(* _rollbackRedis: SREM. *)
RollBack(r) ==
  /\ At(r, "rollback")
  /\ nullifierSet' = nullifierSet \ {N(r)}
  /\ GoTo(r, "releaseFail")
  /\ UNCHANGED <<body, issuing, challengeKeys, lockKeys, pgVars, disturbed>>

(* The finally block: DEL the lock, whoever holds it by now. *)
ReleaseLock(r) ==
  /\ pc[r] \in {"releaseOk", "releaseFail"}
  /\ lockKeys' = lockKeys \ {N(r)}
  /\ GoTo(r, IF At(r, "releaseOk") THEN AfterRegister(r) ELSE "refused")
  /\ UNCHANGED <<body, issuing, challengeKeys, nullifierSet, pgVars, disturbed>>

-----------------------------------------------------------------------------
(* ChallengeService.consume                                                 *)

\* Mutant: the count DEL returns is ignored.
ConsumeUnchecked(r) ==
  /\ At(r, "consume")
  /\ challengeKeys' = challengeKeys \ {C(r)}
  /\ GoTo(r, "mark")
  /\ UNCHANGED <<body, issuing, nullifierSet, lockKeys, pgVars, disturbed>>

(* DEL challenge:{id}: 0 means somebody else consumed it, or it expired. *)
ConsumeKey(r) ==
  /\ At(r, "consume")
  /\ challengeKeys' = challengeKeys \ {C(r)}
  /\ GoTo(r, IF C(r) \in challengeKeys THEN "mark" ELSE "refused")
  /\ UNCHANGED <<body, issuing, nullifierSet, lockKeys, pgVars, disturbed>>

(* UPDATE zkp_challenges SET status = CONSUMED: a failure is only logged.   *)
MarkConsumed(r) ==
  /\ At(r, "mark")
  /\ challengeRow' \in {challengeRow, [challengeRow EXCEPT ![C(r)] = "CONSUMED"]}
  /\ GoTo(r, AfterConsume(r))
  /\ UNCHANGED <<body, issuing, redisVars, nullifierRows, disturbed>>

(* sessionService.issue, oauthService.issueAuthorizationCode or             *)
(* riskService.resolveStepUp; any of them may fail with the proof spent.    *)
Grant(r) ==
  /\ At(r, "grant")
  /\ GoTo(r, "granted") \/ GoTo(r, "ungranted")
  /\ UNCHANGED <<body, issuing, redisVars, pgVars, disturbed>>

-----------------------------------------------------------------------------
(* What may go wrong.                                                       *)

Disturb == disturbed' = TRUE

(* The challenge lives CHALLENGE_TTL_SECONDS. *)
ChallengeExpires(c) ==
  /\ c \in challengeKeys
  /\ challengeKeys' = challengeKeys \ {c}
  /\ Disturb
  /\ UNCHANGED <<body, pc, issuing, nullifierSet, lockKeys, pgVars>>

(* The lock lives NULLIFIER_LOCK_TTL_SECONDS, however long its holder takes. *)
LockExpires(n) ==
  /\ n \in lockKeys
  /\ lockKeys' = lockKeys \ {n}
  /\ Disturb
  /\ UNCHANGED <<body, pc, issuing, challengeKeys, nullifierSet, pgVars>>

(* A Redis flush, or a failover to an empty replica. *)
RedisLost ==
  /\ challengeKeys' = {}
  /\ nullifierSet' = {}
  /\ lockKeys' = {}
  /\ Disturb
  /\ UNCHANGED <<body, pc, issuing, pgVars>>

(* A Redis call throws: before it took effect, or after, the reply lost.    *)
(* Only the SADD is inside the try that releases the lock; SREM and the     *)
(* DEL of the lock swallow the error.                                       *)
RedisCallFails(r) ==
  /\ \/ /\ pc[r] \in {"pending", "fetch", "exists"}
        /\ GoTo(r, "refused")
        /\ UNCHANGED redisVars
     \/ /\ At(r, "lock")
        /\ lockKeys' \in {lockKeys, lockKeys \union {N(r)}}
        /\ GoTo(r, "refused")
        /\ UNCHANGED <<challengeKeys, nullifierSet>>
     \/ /\ At(r, "sadd")
        /\ nullifierSet' \in {nullifierSet, nullifierSet \union {N(r)}}
        /\ GoTo(r, "releaseFail")
        /\ UNCHANGED <<challengeKeys, lockKeys>>
     \/ /\ At(r, "rollback")
        /\ GoTo(r, "releaseFail")
        /\ UNCHANGED redisVars
     \/ /\ pc[r] \in {"releaseOk", "releaseFail"}
        /\ GoTo(r, IF At(r, "releaseOk") THEN AfterRegister(r) ELSE "refused")
        /\ UNCHANGED redisVars
     \/ /\ At(r, "consume")
        /\ challengeKeys' \in {challengeKeys, challengeKeys \ {C(r)}}
        /\ GoTo(r, "refused")
        /\ UNCHANGED <<nullifierSet, lockKeys>>
  /\ Disturb
  /\ UNCHANGED <<body, issuing, pgVars>>

(* The INSERT commits and the connection drops before the answer: the       *)
(* handler sees an error that is not P2002.                                 *)
InsertReplyLost(r) ==
  /\ At(r, "insert")
  /\ ~UniqueViolation(r)
  /\ nullifierRows' = nullifierRows \union {N(r)}
  /\ GoTo(r, "rollback")
  /\ Disturb
  /\ UNCHANGED <<body, issuing, redisVars, challengeRow>>

(* The process serving r stops; its finally blocks do not run. *)
Crash(r) ==
  /\ pc[r] \in Handling
  /\ GoTo(r, "crashed")
  /\ Disturb
  /\ UNCHANGED <<body, issuing, redisVars, pgVars>>

-----------------------------------------------------------------------------
Issue(c) == IssueStore(c) \/ IssuePersist(c) \/ IssueCleanUp(c)

Register(r) ==
  AcquireLock(r) \/ AddMember(r) \/ InsertRow(r) \/ RollBack(r) \/ ReleaseLock(r)

Handle(r) ==
  \/ ReadPendingStepUp(r)
  \/ FetchChallenge(r)
  \/ CheckNullifier(r)
  \/ VerifyProof(r)
  \/ Register(r)
  \/ ConsumeKey(r)
  \/ MarkConsumed(r)
  \/ Grant(r)

Fault(r) == RedisCallFails(r) \/ InsertReplyLost(r) \/ Crash(r)

Next ==
  \/ \E c \in Challenge : Issue(c) \/ ChallengeExpires(c)
  \/ \E n \in Nullifier : LockExpires(n)
  \/ \E r \in Request : Arrive(r) \/ Handle(r) \/ Fault(r)
  \/ RedisLost

Spec == Init /\ [][Next]_vars

-----------------------------------------------------------------------------
(* How far a request got.                                                   *)

(* Both gates passed; the grant itself may have failed. *)
Accepting == {"granted", "ungranted"}

(* register() returned normally, or is about to. *)
Registered(r) ==
  \/ pc[r] \in {"releaseOk", "grant"} \union Accepting
  \/ body[r].kind = "login" /\ pc[r] \in {"consume", "mark"}

(* consume() deleted the key for r, and r is not yet refused. *)
Consumed(r) ==
  \/ pc[r] \in {"mark", "grant"} \union Accepting
  \/ /\ body[r].kind = "stepUp"
     /\ pc[r] \in {"lock", "sadd", "insert", "rollback", "releaseOk", "releaseFail"}

Answered(c) == {r \in Request : C(r) = c /\ pc[r] # "arriving"}
InFlight(r) == pc[r] \in Handling

(* The nullifier header's "Once recorded, the same nullifier MUST NEVER be  *)
(* accepted again", for any two requests, whatever Redis loses: neither of  *)
(* two requests that answer one challenge, from one user or two, through    *)
(* one endpoint or both, gets past the INSERT once the other has.           *)
OneRegistrationPerChallenge ==
  \A q, r \in Request :
    Registered(q) /\ Registered(r) /\ C(q) = C(r) => q = r

(* "Nonce is single-use: consumed atomically" (challenge.service.ts): two   *)
(* requests never both get past the DEL of one challenge, even when it      *)
(* expired, or Redis was flushed, in between.                               *)
OneConsumerPerChallenge ==
  \A q, r \in Request :
    Consumed(q) /\ Consumed(r) /\ C(q) = C(r) => q = r

(* Of all requests that answer one challenge, at most one passes either     *)
(* gate, in whatever order the two endpoints take the gates.                *)
EachGatePassesOne == OneRegistrationPerChallenge /\ OneConsumerPerChallenge

(* A session, an authorization code or a step-up resolution rests on a row  *)
(* that survives Redis, and its challenge cannot be fetched again.          *)
GrantIsDurable ==
  \A r \in Request :
    pc[r] = "granted" => N(r) \in nullifierRows /\ C(r) \notin challengeKeys

(* The ordering comment of postVerify: the durable replay guard is          *)
(* committed before the challenge is consumed.  A challenge that only       *)
(* logins answered is never CONSUMED without a nullifier row.               *)
LoginRecordsBeforeConsuming ==
  \A c \in Challenge :
    /\ challengeRow[c] = "CONSUMED"
    /\ \A r \in Answered(c) : body[r].kind = "login"
    => \E n \in nullifierRows : n[2] = c

(* The same, of every endpoint, as the README's "Nullifier ordering" says:  *)
(* at rest, no consumed challenge is without a durable nullifier record.    *)
ConsumedHasNullifier ==
  \A c \in Challenge :
    challengeRow[c] = "CONSUMED" /\ (\A r \in Request : C(r) = c => ~InFlight(r))
    => \E n \in nullifierRows : n[2] = c

(* "Spent if AND ONLY IF it exists in BOTH Redis AND PostgreSQL": as long   *)
(* as nothing was lost half way, and no registration is under way, the SET  *)
(* and the table hold the same nullifiers; PostgreSQL outages included.     *)
StoresAgree ==
  ~disturbed
  /\ (\A r \in Request : pc[r] \notin {"insert", "rollback", "releaseOk", "releaseFail"})
  => nullifierSet = nullifierRows

(* No proof is wasted: as long as nothing was lost half way, and only one   *)
(* kind of request answered the challenge, a nullifier is recorded only on  *)
(* behalf of a request that passes both gates.                              *)
RecordedProofCounts ==
  \A n \in nullifierRows :
    /\ ~disturbed
    /\ \A q, r \in Answered(n[2]) : body[q].kind = body[r].kind
    /\ \A r \in Answered(n[2]) : ~InFlight(r)
    => \E r \in Answered(n[2]) : N(r) = n /\ pc[r] \in Accepting

-----------------------------------------------------------------------------
(* The refinement: a request is decided when its handler has answered, or   *)
(* died.                                                                    *)
Decision(r) ==
  CASE pc[r] = "granted" -> "accepted"
    [] pc[r] \in {"ungranted", "refused", "crashed"} -> "refused"
    [] OTHER -> "undecided"

OneTime == INSTANCE OneTimeProof WITH
  answers <- [r \in Request |-> C(r)],
  decision <- [r \in Request |-> Decision(r)]

(* Every run of the two endpoints is a run of the one-time-proof promise.   *)
ImplementsOneTimeProof == OneTime!Spec
=============================================================================
