------------------------------- MODULE Session -------------------------------
(***************************************************************************)
(* The sessions of one user: issued after a login, rotated by               *)
(* POST /auth/refresh, checked by authMiddleware on every request, revoked  *)
(* by POST /auth/logout, DELETE /session/all and POST /session/revoke/:id.  *)
(* PostgreSQL holds the row of each session, Redis a cache entry that       *)
(* verifyAccessToken believes without asking PostgreSQL.  Every step is one *)
(* call to one of the two stores, and requests interleave between them:     *)
(*                                                                          *)
(*   issue          create, seed                                            *)
(*   rotate         find, revokeRow, dropKey, then issue                    *)
(*   verify         getKey, and on a miss findRow, reseed                   *)
(*   revokeSession  verify, then find, revokeRow, dropKey                   *)
(*   revoke device  verify, then find, dropKey, revokeRow  (Redis first)    *)
(*   revoke all     findAll, revokeRows, dropKeys                           *)
(*                                                                          *)
(* Tokens are as unforgeable as their signatures: a request carries a token *)
(* of a session that exists, and may carry it at any time after.            *)
(***************************************************************************)

CONSTANTS
  Session,          \* session ids
  Request           \* HTTP requests about this user's sessions

VARIABLES
  row,              \* PostgreSQL auth.sessions: row[s] by is_revoked
  cached,           \* Redis: the session:{id} keys
  op,               \* op[r]: what request r asks for, once it has arrived
  pc,               \* pc[r]: the next call of its handler, or its answer
  found,            \* found[r]: the ids _revokeAllForUser read
  created,          \* created[r]: the session that issue() created for r
  usable            \* usable[r]: the sessions not revoked when r arrived (history)

vars == <<row, cached, op, pc, found, created, usable>>

-----------------------------------------------------------------------------
Kind == {"login", "refresh", "access", "logout", "logoutAll", "revoke"}

(* Session is the one whose token the request carries; target the one it    *)
(* asks to revoke, another device's for "revoke", its own otherwise.        *)
Body == {b \in [kind : Kind, session : Session, target : Session] :
           b.kind # "revoke" => b.target = b.session}
NotArrived == [kind |-> "none"]

Handling == {"getKey", "findRow", "reseed", "find", "revokeRow", "dropKey",
             "findAll", "revokeRows", "dropKeys", "create", "seed"}
(* accepted: verified, and nothing more to do.  issued: 200 with new tokens. *)
(* done: 200.  reuse: 401 after revoking everything.  refused: 401 or 404.   *)
(* failed: 500, or the process died.                                         *)
Answer == {"accepted", "issued", "done", "reuse", "refused", "failed"}

TypeOK ==
  /\ row \in [Session -> {"none", "active", "revoked"}]
  /\ cached \subseteq Session
  /\ op \in [Request -> Body \union {NotArrived}]
  /\ pc \in [Request -> {"arriving"} \union Handling \union Answer]
  /\ found \in [Request -> SUBSET Session]
  /\ created \in [Request -> SUBSET Session]
  /\ usable \in [Request -> SUBSET Session]

(* The database may hold sessions from before. *)
Init ==
  /\ row \in [Session -> {"none", "active"}]
  /\ cached \in SUBSET {s \in Session : row[s] = "active"}
  /\ op = [r \in Request |-> NotArrived]
  /\ pc = [r \in Request |-> "arriving"]
  /\ found = [r \in Request |-> {}]
  /\ created = [r \in Request |-> {}]
  /\ usable = [r \in Request |-> {}]

-----------------------------------------------------------------------------
At(r, step) == pc[r] = step
GoTo(r, step) == pc' = [pc EXCEPT ![r] = step]
kind(r) == op[r].kind
target(r) == op[r].target

(* login and refresh carry no access token; the rest pass authMiddleware. *)
FirstStep(b) ==
  CASE b.kind = "login" -> "create"
    [] b.kind = "refresh" -> "find"
    [] OTHER -> "getKey"

AfterVerify(r) ==
  CASE kind(r) = "access" -> "accepted"
    [] kind(r) = "logoutAll" -> "findAll"
    [] OTHER -> "find"

Arrive(r) ==
  /\ At(r, "arriving")
  /\ \E b \in Body :
       /\ b.kind # "login" => row[b.session] # "none" /\ row[b.target] # "none"
       /\ op' = [op EXCEPT ![r] = b]
       /\ GoTo(r, FirstStep(b))
  /\ usable' = [usable EXCEPT ![r] = {s \in Session : row[s] = "active"}]
  /\ UNCHANGED <<row, cached, found, created>>

-----------------------------------------------------------------------------
(* verifyAccessToken                                                        *)

(* GET session:{id}: a hit is accepted as it is. *)
GetKey(r) ==
  /\ At(r, "getKey")
  /\ GoTo(r, IF op[r].session \in cached THEN AfterVerify(r) ELSE "findRow")
  /\ UNCHANGED <<row, cached, op, found, created, usable>>

(* The PostgreSQL fallback. *)
FindRow(r) ==
  /\ At(r, "findRow")
  /\ GoTo(r, IF row[op[r].session] = "active" THEN "reseed" ELSE "refused")
  /\ UNCHANGED <<row, cached, op, found, created, usable>>

(* SET session:{id}, on the strength of a row read one step ago; its failure *)
(* is swallowed.                                                            *)
Reseed(r) ==
  /\ At(r, "reseed")
  /\ cached' \in {cached, cached \union {op[r].session}}
  /\ GoTo(r, AfterVerify(r))
  /\ UNCHANGED <<row, op, found, created, usable>>

-----------------------------------------------------------------------------
(* rotate, revokeSession and postRevokeSession: find the row, revoke it,    *)
(* drop the key.  The first two revoke first, the third drops first.        *)

RowFirst(r) == kind(r) \in {"refresh", "logout"}

\* Mutant: rotate only checks that the row is there.
FindAny(r) ==
  /\ At(r, "find")
  /\ GoTo(r, IF RowFirst(r) THEN "revokeRow" ELSE "dropKey")
  /\ UNCHANGED <<row, cached, op, found, created, usable>>

(* A revoked refresh token is taken for a stolen one; a session to log out  *)
(* that is already revoked is a success.  The stored hash always matches: a *)
(* session row is created with its only refresh token.                      *)
Find(r) ==
  /\ At(r, "find")
  /\ \/ /\ row[target(r)] = "active"
        /\ GoTo(r, IF RowFirst(r) THEN "revokeRow" ELSE "dropKey")
     \/ /\ row[target(r)] = "revoked"
        /\ GoTo(r, IF kind(r) = "refresh" THEN "findAll" ELSE "done")
  /\ UNCHANGED <<row, cached, op, found, created, usable>>

\* Mutant: the update is not awaited, and its failure goes unseen.
RevokeRowUnawaited(r) ==
  /\ At(r, "revokeRow")
  /\ row' \in {row, [row EXCEPT ![target(r)] = "revoked"]}
  /\ GoTo(r, IF RowFirst(r) THEN "dropKey" ELSE "done")
  /\ UNCHANGED <<cached, op, found, created, usable>>

(* UPDATE sessions SET is_revoked, whatever it is by now. *)
RevokeRow(r) ==
  /\ At(r, "revokeRow")
  /\ row' = [row EXCEPT ![target(r)] = "revoked"]
  /\ GoTo(r, IF RowFirst(r) THEN "dropKey" ELSE "done")
  /\ UNCHANGED <<cached, op, found, created, usable>>

(* DEL session:{id}.  rotate and revokeSession swallow a failure. *)
DropKey(r) ==
  /\ At(r, "dropKey")
  /\ \/ cached' = cached \ {target(r)}
     \/ RowFirst(r) /\ UNCHANGED cached
  /\ GoTo(r, CASE kind(r) = "refresh" -> "create"
               [] kind(r) = "logout" -> "done"
               [] OTHER -> "revokeRow")
  /\ UNCHANGED <<row, op, found, created, usable>>

-----------------------------------------------------------------------------
(* _revokeAllForUser                                                        *)

Revoked(r) == IF kind(r) = "refresh" THEN "reuse" ELSE "done"

FindAll(r) ==
  /\ At(r, "findAll")
  /\ LET ids == {s \in Session : row[s] = "active"} IN
       /\ found' = [found EXCEPT ![r] = ids]
       /\ GoTo(r, IF ids = {} THEN Revoked(r) ELSE "revokeRows")
  /\ UNCHANGED <<row, cached, op, created, usable>>

\* Mutant: only the session the token belongs to is revoked.
RevokeOwnRow(r) ==
  /\ At(r, "revokeRows")
  /\ row' = [row EXCEPT ![target(r)] = "revoked"]
  /\ GoTo(r, "dropKeys")
  /\ UNCHANGED <<cached, op, found, created, usable>>

(* updateMany over the ids read before: a session created since is missed. *)
RevokeRows(r) ==
  /\ At(r, "revokeRows")
  /\ row' = [s \in Session |-> IF s \in found[r] THEN "revoked" ELSE row[s]]
  /\ GoTo(r, "dropKeys")
  /\ UNCHANGED <<cached, op, found, created, usable>>

(* The pipeline of DELs: some may fail, and the failure is swallowed. *)
DropKeys(r) ==
  /\ At(r, "dropKeys")
  /\ \E dropped \in SUBSET found[r] : cached' = cached \ dropped
  /\ GoTo(r, Revoked(r))
  /\ UNCHANGED <<row, op, found, created, usable>>

-----------------------------------------------------------------------------
(* issue                                                                    *)

(* INSERT under a fresh id. *)
Create(r) ==
  /\ At(r, "create")
  /\ \E s \in Session :
       /\ row[s] = "none"
       /\ row' = [row EXCEPT ![s] = "active"]
       /\ created' = [created EXCEPT ![r] = {s}]
  /\ GoTo(r, "seed")
  /\ UNCHANGED <<cached, op, found, usable>>

(* SET session:{id}; a failure is swallowed, as is that of last_login_at. *)
Seed(r) ==
  /\ At(r, "seed")
  /\ cached' \in {cached, cached \union created[r]}
  /\ GoTo(r, "issued")
  /\ UNCHANGED <<row, op, found, created, usable>>

-----------------------------------------------------------------------------
(* What else happens.                                                       *)

(* RiskService._updateSessionCache for a score of the ML service: a missing *)
(* entry is made anew.  The WebSocket that brings the scores is not closed  *)
(* when its session is revoked.                                             *)
RiskScore(s) ==
  /\ row[s] # "none"
  /\ cached' = cached \union {s}
  /\ UNCHANGED <<row, op, pc, found, created, usable>>

(* The TTL of the key, or a Redis flush. *)
CacheLoses(s) ==
  /\ cached' = cached \ {s}
  /\ UNCHANGED <<row, op, pc, found, created, usable>>

(* A call that is not caught fails, before or after it took effect, or the  *)
(* process dies: the handler goes no further.  A session whose INSERT        *)
(* committed unseen is nobody's.                                            *)
Fail(r) ==
  /\ pc[r] \in Handling
  /\ GoTo(r, "failed")
  /\ \/ UNCHANGED <<row, cached>>
     \/ /\ At(r, "revokeRow")
        /\ row' = [row EXCEPT ![target(r)] = "revoked"]
        /\ UNCHANGED cached
     \/ /\ At(r, "revokeRows")
        /\ row' = [s \in Session |-> IF s \in found[r] THEN "revoked" ELSE row[s]]
        /\ UNCHANGED cached
     \/ /\ At(r, "create")
        /\ \E s \in Session : row[s] = "none" /\ row' = [row EXCEPT ![s] = "active"]
        /\ UNCHANGED cached
     \/ /\ At(r, "dropKey")
        /\ cached' = cached \ {target(r)}
        /\ UNCHANGED row
  /\ UNCHANGED <<op, found, created, usable>>

-----------------------------------------------------------------------------
Verify(r) == GetKey(r) \/ FindRow(r) \/ Reseed(r)
Revoke(r) == Find(r) \/ RevokeRow(r) \/ DropKey(r)
RevokeAll(r) == FindAll(r) \/ RevokeRows(r) \/ DropKeys(r)
Issue(r) == Create(r) \/ Seed(r)

Handle(r) == Verify(r) \/ Revoke(r) \/ RevokeAll(r) \/ Issue(r)

Next ==
  \/ \E r \in Request : Arrive(r) \/ Handle(r) \/ Fail(r)
  \/ \E s \in Session : RiskScore(s) \/ CacheLoses(s)

Spec == Init /\ [][Next]_vars

-----------------------------------------------------------------------------
(* What request r revoked, once it is answered. *)
Victims(r) ==
  CASE pc[r] = "reuse" -> usable[r]
    [] pc[r] = "done" /\ kind(r) = "logoutAll" -> usable[r]
    [] pc[r] = "done" /\ kind(r) \in {"logout", "revoke"} -> {target(r)}
    [] pc[r] = "issued" /\ kind(r) = "refresh" -> {target(r)}
    [] OTHER -> {}

(* An answer that promises a revocation can be relied on: every session it  *)
(* is about is revoked in PostgreSQL and stays so, whatever requests ran in *)
(* between and whatever failed; for "all sessions" these are the ones that  *)
(* were there when the request came (revokeSession, _revokeAllForUser, the  *)
(* theft response of rotate).                                               *)
RevocationIsDurable ==
  \A r \in Request : \A s \in Victims(r) : row[s] = "revoked"

(* rotate revokes before it issues: at no time are a session and one that   *)
(* replaced it both good for a refresh, not even if the process dies half   *)
(* way ("limits the blast radius of a stolen refresh token to one use").    *)
NeverBothUsable ==
  \A r \in Request :
    kind(r) = "refresh" /\ created[r] # {} => row[target(r)] = "revoked"

(* "Catches token reuse after rotation": a refresh token whose session was  *)
(* already revoked when it came in, by whatever request, yields no session. *)
RevokedNeverRotates ==
  \A r \in Request :
    kind(r) = "refresh" /\ created[r] # {} => target(r) \in usable[r]

(* A session is replaced by one rotation that found it good. *)
RotationReplaces == NeverBothUsable /\ RevokedNeverRotates

(* "Each refresh token is one-time use" (rotate): it yields one session.    *)
RefreshOnce ==
  \A q, r \in Request :
    /\ kind(q) = "refresh" /\ kind(r) = "refresh" /\ target(q) = target(r)
    /\ created[q] # {} /\ created[r] # {}
    => q = r
=============================================================================
