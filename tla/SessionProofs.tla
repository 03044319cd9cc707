---------------------------- MODULE SessionProofs ----------------------------
(***************************************************************************)
(* Proofs about Session, for any number of sessions and requests, and about *)
(* MobileClient, which keeps the tokens of a session, for any number of     *)
(* calls and sessions.                                                      *)
(*                                                                          *)
(* A row only ever goes from none to active to revoked (RowsOnlyAge).  So   *)
(* whatever a handler has read of its target stays true in one direction,   *)
(* and an invariant can be kept request by request (RequestInv): a step of  *)
(* another request never breaks it.                                         *)
(***************************************************************************)
EXTENDS Session, MobileClient, TLAPS

(* What holds of every request, by where its handler is. *)
Q(r) ==
  /\ pc[r] = "arriving" <=> op[r] = NotArrived
  /\ pc[r] \in {"find", "revokeRow", "dropKey"} => kind(r) \in {"refresh", "logout", "revoke"}
  /\ pc[r] \in {"findAll", "revokeRows", "dropKeys"} => kind(r) \in {"refresh", "logoutAll"}
  /\ pc[r] \in {"create", "seed"} => kind(r) \in {"login", "refresh"}
  /\ pc[r] \in {"getKey", "findRow", "reseed"} => kind(r) \notin {"login", "refresh"}
  /\ created[r] # {} => pc[r] \in {"seed", "issued", "failed"}
  \* the rows the request may rely on
  /\ \A s \in usable[r] : row[s] # "none"
  /\ kind(r) \in Kind \ {"login"} =>
       /\ row[target(r)] # "none"
       /\ row[target(r)] = "active" => target(r) \in usable[r]
  \* how far its revocation got
  /\ kind(r) = "refresh" /\ (pc[r] \in {"revokeRow", "dropKey", "create"} \/ created[r] # {})
       => target(r) \in usable[r]
  /\ kind(r) = "refresh" /\ (pc[r] \in {"dropKey", "create", "seed", "issued"} \/ created[r] # {})
       => row[target(r)] = "revoked"
  /\ kind(r) = "logout" /\ pc[r] \in {"dropKey", "done"} => row[target(r)] = "revoked"
  /\ kind(r) = "revoke" /\ pc[r] = "done" => row[target(r)] = "revoked"
  /\ pc[r] = "revokeRows" => \A s \in usable[r] : row[s] = "active" => s \in found[r]
  /\ \/ pc[r] \in {"dropKeys", "reuse"}
     \/ pc[r] = "done" /\ kind(r) = "logoutAll"
     => \A s \in usable[r] : row[s] = "revoked"

RequestInv == \A r \in Request : Q(r)

IInv == TypeOK /\ RequestInv

RowsOnlyAge ==
  \A s \in Session :
    /\ row[s] # "none" => row'[s] # "none"
    /\ row[s] = "revoked" => row'[s] = "revoked"
    /\ row[s] = "revoked" \/ row[s] = "active" => row'[s] \in {"active", "revoked"}

-----------------------------------------------------------------------------
LEMMA BodyFields ==
  ASSUME TypeOK, NEW r \in Request, op[r] # NotArrived
  PROVE  /\ op[r] \in Body
         /\ kind(r) \in Kind
         /\ target(r) \in Session
         /\ op[r].session \in Session
BY DEF TypeOK, Body, kind, target

LEMMA KindOfNotArrived ==
  ASSUME NEW r \in Request, op[r] = NotArrived
  PROVE  kind(r) = "none"
BY DEF NotArrived, kind

(* The names of the steps are pairwise different strings, and types are     *)
(* preserved.                                                               *)
LEMMA TypeInv == IInv /\ [Next]_vars => TypeOK'
<1> SUFFICES ASSUME IInv, [Next]_vars PROVE TypeOK'
  OBVIOUS
<1> USE DEF IInv
<1>1. ASSUME NEW r \in Request, Arrive(r) PROVE TypeOK'
  <2>1. PICK b \in Body : op' = [op EXCEPT ![r] = b] /\ GoTo(r, FirstStep(b))
    BY <1>1 DEF Arrive
  <2>2. FirstStep(b) \in Handling
    BY DEF FirstStep, Handling
  <2> QED
    BY <1>1, <2>1, <2>2 DEF Arrive, TypeOK, GoTo
<1>2. ASSUME NEW r \in Request, Handle(r) \/ Fail(r) PROVE TypeOK'
  <2>1. pc[r] \in Handling
    BY <1>2 DEF Handle, Verify, Revoke, RevokeAll, Issue, GetKey, FindRow, Reseed, Find,
                RevokeRow, DropKey, FindAll, RevokeRows, DropKeys, Create, Seed, Fail, At,
                Handling
  <2>2. op[r] # NotArrived
    BY <2>1 DEF RequestInv, Q, Handling
  <2>3. target(r) \in Session /\ op[r].session \in Session
    BY <2>2, BodyFields
  <2>4. AfterVerify(r) \in Handling \union Answer /\ Revoked(r) \in Answer
    BY DEF AfterVerify, Revoked, Handling, Answer
  <2>5. CASE GetKey(r) \/ FindRow(r) \/ Reseed(r)
    BY <2>3, <2>4, <2>5 DEF GetKey, FindRow, Reseed, GoTo, TypeOK, Handling, Answer
  <2>6. CASE Find(r) \/ RevokeRow(r) \/ DropKey(r)
    BY <2>3, <2>6 DEF Find, RevokeRow, DropKey, GoTo, TypeOK, Handling, Answer
  <2>7. CASE FindAll(r) \/ RevokeRows(r) \/ DropKeys(r)
    BY <2>4, <2>7 DEF FindAll, RevokeRows, DropKeys, GoTo, TypeOK, Handling, Answer
  <2>8. CASE Create(r) \/ Seed(r)
    BY <2>8 DEF Create, Seed, GoTo, TypeOK, Handling, Answer
  <2>9. CASE Fail(r)
    BY <2>3, <2>9 DEF Fail, GoTo, TypeOK, Handling, Answer
  <2> QED
    BY <1>2, <2>5, <2>6, <2>7, <2>8, <2>9 DEF Handle, Verify, Revoke, RevokeAll, Issue
<1>3. ASSUME NEW s \in Session, RiskScore(s) \/ CacheLoses(s) PROVE TypeOK'
  BY <1>3 DEF RiskScore, CacheLoses, TypeOK
<1>4. CASE UNCHANGED vars
  BY <1>4 DEF vars, TypeOK
<1> QED
  BY <1>1, <1>2, <1>3, <1>4 DEF Next

LEMMA RowMonotone == IInv /\ [Next]_vars => RowsOnlyAge
<1> SUFFICES ASSUME IInv, [Next]_vars PROVE RowsOnlyAge
  OBVIOUS
<1> USE DEF IInv, RowsOnlyAge
<1>1. ASSUME UNCHANGED row PROVE RowsOnlyAge
  BY <1>1 DEF TypeOK
<1>2. ASSUME NEW t \in Session, row' = [row EXCEPT ![t] = "revoked"] PROVE RowsOnlyAge
  BY <1>2 DEF TypeOK
<1>3. ASSUME NEW t \in Session, row[t] = "none", row' = [row EXCEPT ![t] = "active"]
      PROVE  RowsOnlyAge
  BY <1>3 DEF TypeOK
<1>4. ASSUME NEW S, row' = [s \in Session |-> IF s \in S THEN "revoked" ELSE row[s]]
      PROVE  RowsOnlyAge
  BY <1>4 DEF TypeOK
<1>5. ASSUME NEW r \in Request, pc[r] \in Handling PROVE target(r) \in Session
  BY <1>5, BodyFields DEF RequestInv, Q, Handling
<1>6. ASSUME NEW r \in Request, Arrive(r) PROVE RowsOnlyAge
  BY <1>1, <1>6 DEF Arrive
<1>7. ASSUME NEW r \in Request, Handle(r) PROVE RowsOnlyAge
  <2>1. CASE RevokeRow(r)
    BY <1>2, <1>5, <2>1 DEF RevokeRow, At, Handling
  <2>2. CASE RevokeRows(r)
    BY <1>4, <2>2 DEF RevokeRows
  <2>3. CASE Create(r)
    BY <1>3, <2>3 DEF Create
  <2>4. CASE Verify(r) \/ Find(r) \/ DropKey(r) \/ FindAll(r) \/ DropKeys(r) \/ Seed(r)
    BY <1>1, <2>4 DEF Verify, GetKey, FindRow, Reseed, Find, DropKey, FindAll, DropKeys, Seed
  <2> QED
    BY <1>7, <2>1, <2>2, <2>3, <2>4 DEF Handle, Revoke, RevokeAll, Issue
<1>8. ASSUME NEW r \in Request, Fail(r) PROVE RowsOnlyAge
  BY <1>1, <1>2, <1>3, <1>4, <1>5, <1>8 DEF Fail
<1>9. ASSUME NEW s \in Session, RiskScore(s) \/ CacheLoses(s) PROVE RowsOnlyAge
  BY <1>1, <1>9 DEF RiskScore, CacheLoses
<1>10. CASE UNCHANGED vars
  BY <1>1, <1>10 DEF vars
<1> QED
  BY <1>6, <1>7, <1>8, <1>9, <1>10 DEF Next

(* A request that does not move keeps its part of the invariant. *)
LEMMA Unmoved ==
  ASSUME TypeOK, TypeOK', RowsOnlyAge, NEW q \in Request, Q(q),
         op'[q] = op[q], pc'[q] = pc[q], found'[q] = found[q],
         created'[q] = created[q], usable'[q] = usable[q]
  PROVE  Q(q)'
<1>1. kind(q)' = kind(q) /\ target(q)' = target(q)
  BY DEF kind, target
<1>2. kind(q) # "none" => target(q) \in Session
  BY BodyFields, KindOfNotArrived
<1>3. usable[q] \subseteq Session /\ row \in [Session -> {"none", "active", "revoked"}]
  BY DEF TypeOK
<1> QED
  BY <1>1, <1>2, <1>3 DEF Q, RowsOnlyAge, Kind

(* A step of a handler keeps the request's part, given what it read. *)
LEMMA MovedBy ==
  ASSUME TypeOK, TypeOK', RowsOnlyAge, NEW r \in Request, Q(r), Handle(r)
  PROVE  Q(r)'
<1>1. pc[r] \in Handling /\ op' = op /\ usable' = usable
  BY DEF Handle, Verify, Revoke, RevokeAll, Issue, GetKey, FindRow, Reseed, Find, RevokeRow,
         DropKey, FindAll, RevokeRows, DropKeys, Create, Seed, At, Handling
<1>2. /\ op[r] # NotArrived /\ kind(r) \in Kind /\ target(r) \in Session
      /\ kind(r)' = kind(r) /\ target(r)' = target(r) /\ usable[r] \subseteq Session
  BY <1>1, BodyFields DEF Q, Handling, kind, target, TypeOK
<1>3. /\ \A s \in usable[r] : row'[s] # "none"
      /\ kind(r) # "login" =>
           /\ row'[target(r)] # "none"
           /\ row'[target(r)] = "active" => target(r) \in usable[r]
  BY <1>2 DEF Q, RowsOnlyAge, TypeOK, Kind
<1>4. CASE Verify(r)
  <2>1. /\ pc[r] \in {"getKey", "findRow", "reseed"} /\ created' = created
        /\ pc'[r] \in {"findRow", "reseed", "refused", AfterVerify(r)}
    BY <1>4 DEF Verify, GetKey, FindRow, Reseed, At, GoTo, TypeOK
  <2>2. kind(r) \notin {"login", "refresh"} /\ created[r] = {}
    BY <2>1 DEF Q
  <2>3. \/ pc'[r] \in {"findRow", "reseed", "refused"}
        \/ kind(r) = "access" /\ pc'[r] = "accepted"
        \/ kind(r) = "logoutAll" /\ pc'[r] = "findAll"
        \/ kind(r) \in {"logout", "revoke"} /\ pc'[r] = "find"
    BY <1>2, <2>1, <2>2 DEF AfterVerify, Kind
  <2>4. pc'[r] \notin {"arriving", "revokeRow", "dropKey", "create", "seed", "issued", "done",
                       "reuse", "revokeRows", "dropKeys"}
    BY <2>3
  <2>5. /\ pc'[r] = "find" => kind(r) \in {"refresh", "logout", "revoke"}
        /\ pc'[r] = "findAll" => kind(r) \in {"refresh", "logoutAll"}
    BY <2>3
  <2> QED
    BY <1>1, <1>2, <1>3, <2>1, <2>2, <2>4, <2>5 DEF Q
<1>5. CASE Find(r)
  <2>1. /\ pc[r] = "find" /\ created' = created /\ row' = row
        /\ \/ row[target(r)] = "active" /\ kind(r) # "revoke" /\ pc'[r] = "revokeRow"
           \/ row[target(r)] = "active" /\ kind(r) = "revoke" /\ pc'[r] = "dropKey"
           \/ row[target(r)] = "revoked" /\ kind(r) = "refresh" /\ pc'[r] = "findAll"
           \/ row[target(r)] = "revoked" /\ kind(r) # "refresh" /\ pc'[r] = "done"
    BY <1>5 DEF Find, RowFirst, At, GoTo, TypeOK, Q
  <2>2. kind(r) \in {"refresh", "logout", "revoke"} /\ created[r] = {}
    BY <2>1 DEF Q
  <2> QED
    BY <1>1, <1>2, <1>3, <2>1, <2>2 DEF Q
<1>6. CASE RevokeRow(r)
  <2>1. /\ pc[r] = "revokeRow" /\ created' = created /\ row'[target(r)] = "revoked"
        /\ \/ kind(r) \in {"refresh", "logout"} /\ pc'[r] = "dropKey"
           \/ kind(r) \notin {"refresh", "logout"} /\ pc'[r] = "done"
    BY <1>2, <1>6 DEF RevokeRow, RowFirst, At, GoTo, TypeOK
  <2>2. kind(r) \in {"refresh", "logout", "revoke"} /\ created[r] = {}
    BY <2>1 DEF Q
  <2> QED
    BY <1>1, <1>2, <1>3, <2>1, <2>2 DEF Q
<1>7. CASE DropKey(r)
  <2>1. pc[r] = "dropKey" /\ created' = created /\ row' = row
    BY <1>7 DEF DropKey, At
  <2>2. kind(r) \in {"refresh", "logout", "revoke"} /\ created[r] = {}
    BY <2>1 DEF Q
  <2>3. \/ kind(r) = "refresh" /\ pc'[r] = "create"
        \/ kind(r) = "logout" /\ pc'[r] = "done"
        \/ kind(r) = "revoke" /\ pc'[r] = "revokeRow"
    BY <1>7, <2>2 DEF DropKey, GoTo, TypeOK
  <2> QED
    BY <1>1, <1>2, <1>3, <2>1, <2>2, <2>3 DEF Q
<1>8. CASE FindAll(r)
  <2> DEFINE ids == {s \in Session : row[s] = "active"}
  <2>1. /\ pc[r] = "findAll" /\ created' = created /\ row' = row /\ found'[r] = ids
        /\ pc'[r] = IF ids = {} THEN Revoked(r) ELSE "revokeRows"
    BY <1>8 DEF FindAll, At, GoTo, TypeOK
  <2>2. kind(r) \in {"refresh", "logoutAll"} /\ created[r] = {}
    BY <2>1 DEF Q
  <2>3. \/ ids = {} /\ kind(r) = "refresh" /\ pc'[r] = "reuse"
        \/ ids = {} /\ kind(r) = "logoutAll" /\ pc'[r] = "done"
        \/ pc'[r] = "revokeRows"
    BY <2>1, <2>2 DEF Revoked
  <2>4. \A s \in usable[r] : row[s] = "active" => s \in found'[r]
    BY <1>2, <2>1
  <2>5. ids = {} => \A s \in usable[r] : row'[s] = "revoked"
    BY <1>2, <1>3, <2>1 DEF TypeOK
  <2> QED
    BY <1>1, <1>2, <1>3, <2>1, <2>2, <2>3, <2>4, <2>5 DEF Q
<1>9. CASE RevokeRows(r)
  <2>1. /\ pc[r] = "revokeRows" /\ created' = created /\ pc'[r] = "dropKeys"
        /\ row' = [s \in Session |-> IF s \in found[r] THEN "revoked" ELSE row[s]]
    BY <1>9 DEF RevokeRows, At, GoTo, TypeOK
  <2>2. kind(r) \in {"refresh", "logoutAll"} /\ created[r] = {}
    BY <2>1 DEF Q
  <2>3. \A s \in usable[r] : row'[s] = "revoked"
    BY <1>2, <2>1 DEF Q, TypeOK
  <2> QED
    BY <1>1, <1>2, <1>3, <2>1, <2>2, <2>3 DEF Q
<1>10. CASE DropKeys(r)
  <2>1. pc[r] = "dropKeys" /\ created' = created /\ row' = row /\ pc'[r] = Revoked(r)
    BY <1>10 DEF DropKeys, At, GoTo, TypeOK
  <2>2. kind(r) \in {"refresh", "logoutAll"} /\ created[r] = {}
    BY <2>1 DEF Q
  <2>3. \/ kind(r) = "refresh" /\ pc'[r] = "reuse"
        \/ kind(r) = "logoutAll" /\ pc'[r] = "done"
    BY <2>1, <2>2 DEF Revoked
  <2>4. \A s \in usable[r] : row'[s] = "revoked"
    BY <2>1 DEF Q
  <2> QED
    BY <1>1, <1>2, <1>3, <2>1, <2>2, <2>3, <2>4 DEF Q
<1>11. CASE Create(r)
  <2>1. pc[r] = "create" /\ pc'[r] = "seed"
    BY <1>11 DEF Create, At, GoTo, TypeOK
  <2>2. kind(r) \in {"login", "refresh"}
    BY <2>1 DEF Q
  <2>3. kind(r) = "refresh" => target(r) \in usable[r] /\ row[target(r)] = "revoked"
    BY <2>1 DEF Q
  <2>4. kind(r) = "refresh" => row'[target(r)] = "revoked"
    BY <1>2, <2>3 DEF RowsOnlyAge
  <2> QED
    BY <1>1, <1>2, <1>3, <2>1, <2>2, <2>3, <2>4 DEF Q
<1>12. CASE Seed(r)
  <2>1. pc[r] = "seed" /\ pc'[r] = "issued" /\ created' = created /\ row' = row
    BY <1>12 DEF Seed, At, GoTo, TypeOK
  <2>2. kind(r) \in {"login", "refresh"}
    BY <2>1 DEF Q
  <2>3. kind(r) = "refresh" => row'[target(r)] = "revoked"
    BY <2>1 DEF Q
  <2>4. kind(r) = "refresh" /\ created'[r] # {} => target(r) \in usable[r]
    BY <2>1 DEF Q
  <2> QED
    BY <1>1, <1>2, <1>3, <2>1, <2>2, <2>3, <2>4 DEF Q
<1> QED
  BY <1>4, <1>5, <1>6, <1>7, <1>8, <1>9, <1>10, <1>11, <1>12
  DEF Handle, Revoke, RevokeAll, Issue

LEMMA FailKeeps ==
  ASSUME TypeOK, TypeOK', RowsOnlyAge, NEW r \in Request, Q(r), Fail(r)
  PROVE  Q(r)'
<1>1. /\ pc[r] \in Handling /\ pc'[r] = "failed" /\ op' = op
      /\ usable' = usable /\ created' = created
  BY DEF Fail, GoTo, TypeOK
<1>2. /\ op[r] # NotArrived /\ kind(r) \in Kind /\ target(r) \in Session
      /\ kind(r)' = kind(r) /\ target(r)' = target(r) /\ usable[r] \subseteq Session
  BY <1>1, BodyFields DEF Q, Handling, kind, target, TypeOK
<1>3. /\ \A s \in usable[r] : row'[s] # "none"
      /\ kind(r) # "login" =>
           /\ row'[target(r)] # "none"
           /\ row'[target(r)] = "active" => target(r) \in usable[r]
  BY <1>2 DEF Q, RowsOnlyAge, TypeOK, Kind
<1>4. kind(r) = "refresh" /\ created[r] # {} => row'[target(r)] = "revoked"
  BY <1>2 DEF Q, RowsOnlyAge
<1> QED
  BY <1>1, <1>2, <1>3, <1>4 DEF Q

(* A request begins with the sessions that are not revoked when it comes. *)
LEMMA ArriveStarts ==
  ASSUME TypeOK, TypeOK', NEW r \in Request, Q(r), Arrive(r)
  PROVE  Q(r)'
<1>1. PICK b \in Body :
         /\ b.kind # "login" => row[b.session] # "none" /\ row[b.target] # "none"
         /\ op' = [op EXCEPT ![r] = b]
         /\ GoTo(r, FirstStep(b))
  BY DEF Arrive
<1>2. /\ b.kind \in Kind /\ b.target \in Session
      /\ op'[r] = b /\ kind(r)' = b.kind /\ target(r)' = b.target
  BY <1>1 DEF Body, TypeOK, kind, target
<1>3. /\ pc[r] = "arriving" /\ row' = row /\ created' = created
      /\ usable'[r] = {s \in Session : row[s] = "active"}
  BY DEF Arrive, At, TypeOK
<1>4. created[r] = {}
  BY <1>3 DEF Q
<1>5. op'[r] # NotArrived
  BY <1>2 DEF NotArrived, Kind
<1>6. /\ b.kind = "login" => pc'[r] = "create"
      /\ b.kind = "refresh" => pc'[r] = "find"
      /\ b.kind \notin {"login", "refresh"} => pc'[r] = "getKey"
  BY <1>1 DEF FirstStep, GoTo, TypeOK
<1> QED
  BY <1>1, <1>2, <1>3, <1>4, <1>5, <1>6 DEF Q

-----------------------------------------------------------------------------
LEMMA InitInv == Init => IInv
<1> SUFFICES ASSUME Init PROVE IInv
  OBVIOUS
<1>1. TypeOK
  BY DEF Init, TypeOK
<1>2. RequestInv
  BY KindOfNotArrived DEF Init, RequestInv, Q, Kind
<1> QED
  BY <1>1, <1>2 DEF IInv

LEMMA NextInv == IInv /\ [Next]_vars => IInv'
<1> SUFFICES ASSUME IInv, [Next]_vars PROVE IInv'
  OBVIOUS
<1>1. TypeOK /\ TypeOK' /\ RowsOnlyAge
  BY TypeInv, RowMonotone DEF IInv
<1>2. ASSUME NEW q \in Request,
             op'[q] = op[q], pc'[q] = pc[q], found'[q] = found[q],
             created'[q] = created[q], usable'[q] = usable[q]
      PROVE  Q(q)'
  BY <1>1, <1>2, Unmoved DEF IInv, RequestInv
<1>3. ASSUME NEW r \in Request, Arrive(r) PROVE RequestInv'
  <2>1. Q(r)'
    BY <1>1, <1>3, ArriveStarts DEF IInv, RequestInv
  <2>2. ASSUME NEW q \in Request, q # r PROVE Q(q)'
    <3>1. op'[q] = op[q] /\ pc'[q] = pc[q] /\ found'[q] = found[q]
          /\ created'[q] = created[q] /\ usable'[q] = usable[q]
      BY <1>1, <1>3, <2>2 DEF Arrive, GoTo, TypeOK
    <3> QED
      BY <1>2, <3>1
  <2> QED
    BY <2>1, <2>2 DEF RequestInv
<1>4. ASSUME NEW r \in Request, Handle(r) \/ Fail(r) PROVE RequestInv'
  <2>1. Q(r)'
    BY <1>1, <1>4, MovedBy, FailKeeps DEF IInv, RequestInv
  <2>2. ASSUME NEW q \in Request, q # r PROVE Q(q)'
    <3>1. op'[q] = op[q] /\ pc'[q] = pc[q] /\ found'[q] = found[q]
          /\ created'[q] = created[q] /\ usable'[q] = usable[q]
      BY <1>1, <1>4, <2>2
      DEF Handle, Verify, Revoke, RevokeAll, Issue, GetKey, FindRow, Reseed, Find, RevokeRow,
          DropKey, FindAll, RevokeRows, DropKeys, Create, Seed, Fail, GoTo, TypeOK
    <3> QED
      BY <1>2, <3>1
  <2> QED
    BY <2>1, <2>2 DEF RequestInv
<1>5. ASSUME UNCHANGED <<op, pc, found, created, usable>> PROVE RequestInv'
  BY <1>2, <1>5 DEF RequestInv
<1>6. RequestInv'
  BY <1>3, <1>4, <1>5 DEF Next, RiskScore, CacheLoses, vars
<1> QED
  BY <1>1, <1>6 DEF IInv

LEMMA Invariance == Spec => []IInv
BY InitInv, NextInv, PTL DEF Spec

(* The stores and the handlers keep their types. *)
THEOREM SessionTypeCorrect == Spec => []TypeOK
BY Invariance, PTL DEF IInv

(* An answered revocation is in PostgreSQL, for good: a logout, a device    *)
(* revocation, a rotation, a logout from all devices, a theft response.     *)
THEOREM Revocation == Spec => []RevocationIsDurable
<1>1. IInv => RevocationIsDurable
  <2> SUFFICES ASSUME IInv, NEW r \in Request, NEW s \in Victims(r)
               PROVE  row[s] = "revoked"
    BY DEF RevocationIsDurable
  <2>1. Q(r)
    BY DEF IInv, RequestInv
  <2>2. CASE pc[r] = "reuse" \/ (pc[r] = "done" /\ kind(r) = "logoutAll")
    BY <2>1, <2>2 DEF Q, Victims
  <2>3. CASE pc[r] = "done" /\ kind(r) \in {"logout", "revoke"}
    BY <2>1, <2>3 DEF Q, Victims
  <2>4. CASE pc[r] = "issued" /\ kind(r) = "refresh"
    BY <2>1, <2>4 DEF Q, Victims
  <2> QED
    BY <2>2, <2>3, <2>4 DEF Victims
<1> QED
  BY Invariance, <1>1, PTL

(* rotate never leaves the old and the new refresh token both usable.       *)
THEOREM OldTokenDies == Spec => []NeverBothUsable
<1>1. IInv => NeverBothUsable
  BY DEF IInv, RequestInv, Q, NeverBothUsable
<1> QED
  BY Invariance, <1>1, PTL

(* A refresh token that comes in after its session was revoked, by whatever *)
(* request, is never rotated.                                               *)
THEOREM NoRotationAfterRevocation == Spec => []RevokedNeverRotates
<1>1. IInv => RevokedNeverRotates
  BY DEF IInv, RequestInv, Q, RevokedNeverRotates
<1> QED
  BY Invariance, <1>1, PTL

(* A rotation replaces a session that was good, and only that               *)
(* (session.service.ts, rotate).                                            *)
THEOREM RotationIsReplacement == Spec => []RotationReplaces
<1>1. NeverBothUsable /\ RevokedNeverRotates => RotationReplaces
  BY DEF RotationReplaces
<1> QED
  BY <1>1, OldTokenDies, NoRotationAfterRevocation, PTL

-----------------------------------------------------------------------------
(* The mobile client.  The property is about the past of the token that is  *)
(* presented, so the invariant says of every place that holds a token       *)
(* whether it can have been exchanged.                                      *)

(* Where a call is while it refreshes the tokens of the application.        *)
Refreshes == {"read", "refresh", "save", "retry", "clear"}
(* A session that is named anywhere has been issued.                        *)
Bounded ==
  /\ access \in 0 .. issued /\ refresh \in 0 .. issued
  /\ \A c \in Call : new[c] \in 0 .. issued
(* The flag lets one call refresh at a time.                                *)
OneRefresh ==
  \A c \in Call : call[c] \in Refreshes =>
    refreshing = TRUE /\ \A d \in Call : call[d] \in Refreshes => d = c
Holds(c) == call[c] = "save" \/ (call[c] = "done" /\ purpose[c] = "login")
(* A session that was issued and is not stored yet is known to one call     *)
(* only.                                                                    *)
FreshIsOwn ==
  \A c \in Call : Holds(c) =>
    /\ new[c] \in 1 .. issued /\ new[c] \notin rotated
    /\ new[c] # refresh
    /\ \A d \in Call : d # c /\ (Holds(d) \/ call[d] = "refresh") => new[d] # new[c]
(* The stored token is exchanged only while the one that replaces it is on  *)
(* its way into the storage, or the storage is about to be cleared ...      *)
StoredIsCurrent ==
  refresh \in rotated => crashed = TRUE \/ \E c \in Call : call[c] \in {"save", "clear"}
(* ... so the token that a refresh presents has not been exchanged.         *)
PresentedIsCurrent ==
  \A c \in Call : call[c] = "refresh" => crashed = TRUE \/ new[c] \notin rotated
Unreplayed == replayed = TRUE => crashed = TRUE
Tokens == Bounded /\ OneRefresh /\ FreshIsOwn /\ StoredIsCurrent /\ PresentedIsCurrent /\ Unreplayed
MobileInv == MobileTypeOK /\ Tokens

LEMMA Screens == DOMAIN Offers = {"noSecret", "working", "login", "error", "dashboard"}
BY DEF Offers

LEMMA MobileInitInv == MobileInit => MobileInv
<1> SUFFICES ASSUME MobileInit PROVE MobileInv
  OBVIOUS
<1>1. MobileTypeOK
  <2>1. screen \in DOMAIN Offers
    BY Screens DEF MobileInit
  <2>2. 0 \in Number /\ 0 \in Nat
    BY MaxSessionAssumption DEF Number
  <2> QED
    BY <2>1, <2>2 DEF MobileInit, MobileTypeOK, Step
<1>2. Tokens
  BY DEF MobileInit, Tokens, Bounded, OneRefresh, Refreshes, FreshIsOwn, Holds,
         StoredIsCurrent, PresentedIsCurrent, Unreplayed
<1> QED
  BY <1>1, <1>2 DEF MobileInv

(* A call that begins or is sent holds no session yet.                      *)
LEMMA SendInv ==
  ASSUME MobileInv, NEW c \in Call, NEW k \in {"get", "register", "login", "logout"},
         NEW to \in {"asked", "sent"}, call[c] \in {"idle", "asked"},
         call' = [call EXCEPT ![c] = to], purpose' = [purpose EXCEPT ![c] = k],
         token' \in {token, [token EXCEPT ![c] = access]}, UNCHANGED new,
         screen' \in {screen, "working"}, UNCHANGED <<gateway, storage, refreshing, history>>,
         \/ UNCHANGED socket
         \/ Disconnect
  PROVE  MobileInv'
<1> USE DEF MobileInv, gateway, storage, tokens, history
<1>1. MobileTypeOK'
  BY Screens DEF MobileTypeOK, Number, Step, socket, Disconnect
<1>3. /\ \A d \in Call : call'[d] = IF d = c THEN to ELSE call[d]
      /\ \A d \in Call : d # c => purpose'[d] = purpose[d]
  BY DEF MobileTypeOK
<1>4. Bounded' /\ Unreplayed'
  BY DEF Tokens, Bounded, Unreplayed
<1>5. OneRefresh'
  BY <1>3 DEF Tokens, OneRefresh, Refreshes
<1>6. FreshIsOwn'
  BY <1>3 DEF Tokens, FreshIsOwn, Holds
<1>7. StoredIsCurrent' /\ PresentedIsCurrent'
  BY <1>3 DEF Tokens, StoredIsCurrent, PresentedIsCurrent
<1> QED
  BY <1>1, <1>4, <1>5, <1>6, <1>7 DEF Tokens

LEMMA SettledInv ==
  ASSUME MobileInv, MobileTypeOK', NEW c \in Call, NEW to \in {"failed", "over", "unauthorized"},
         call[c] \in {"asked", "sent", "unauthorized", "done", "failed"},
         call' = [call EXCEPT ![c] = to],
         UNCHANGED <<gateway, purpose, new, history>>,
         access' \in {access, 0}, refresh' \in {refresh, 0},
         refreshing' \in {refreshing, TRUE}
  PROVE  MobileInv'
<1> USE DEF MobileInv, gateway, history
<1>1. \A d \in Call : call'[d] = IF d = c THEN to ELSE call[d]
  BY DEF MobileTypeOK
<1>2. Bounded' /\ Unreplayed'
  BY DEF Tokens, Bounded, Unreplayed, MobileTypeOK, Number
<1>3. OneRefresh'
  BY <1>1 DEF Tokens, OneRefresh, Refreshes
<1>4. FreshIsOwn'
  BY <1>1 DEF Tokens, FreshIsOwn, Holds
<1>5. 0 \notin rotated
  BY DEF MobileTypeOK
<1>6. StoredIsCurrent' /\ PresentedIsCurrent'
  BY <1>1, <1>5 DEF Tokens, StoredIsCurrent, PresentedIsCurrent
<1> QED
  BY <1>2, <1>3, <1>4, <1>6 DEF Tokens

(* What the gateway does for a call that it admits: it may issue a session, *)
(* which nobody else knows.                                                 *)
LEMMA AdmitInv ==
  ASSUME MobileInv, NEW c \in Call, call[c] \in {"sent", "retry"}, NEW g \in Number,
         call' = [call EXCEPT ![c] = "done"], Admit(c, g),
         refreshing' \in BOOLEAN,
         call[c] = "retry" \/ refreshing' = refreshing,
         token' \in [Call -> Number],
         UNCHANGED <<storage, purpose, screen, socket, history>>
  PROVE  MobileInv'
<1> USE DEF MobileInv, storage, tokens, history
<1>1. /\ \A d \in Call : call'[d] = IF d = c THEN "done" ELSE call[d]
      /\ call[c] \notin {"save", "clear", "refresh", "done"}
  BY DEF MobileTypeOK
<1>2. \/ UNCHANGED <<issued, rotated, expired, new>> /\ live' \subseteq live /\ purpose[c] # "login"
      \/ /\ purpose[c] = "login" /\ issued' = issued + 1 /\ issued < MaxSession
         /\ live' = live \union {issued + 1}
         /\ new' = [new EXCEPT ![c] = issued + 1]
         /\ UNCHANGED <<rotated, expired>>
  BY DEF Admit, gateway
<1>3. MobileTypeOK'
  <2>1. call' \in [Call -> Step \union {"idle", "over"}]
    BY DEF MobileTypeOK, Step
  <2>2. /\ issued' \in Number /\ new' \in [Call -> Number]
        /\ live' \subseteq 1 .. issued' /\ expired' \subseteq 1 .. issued'
        /\ rotated' \subseteq 1 .. issued'
    <3>1. CASE UNCHANGED <<issued, rotated, expired, new>> /\ live' \subseteq live
      BY <3>1 DEF MobileTypeOK
    <3>2. CASE /\ issued' = issued + 1 /\ issued < MaxSession
               /\ live' = live \union {issued + 1}
               /\ new' = [new EXCEPT ![c] = issued + 1]
               /\ UNCHANGED <<rotated, expired>>
      BY <3>2, MaxSessionAssumption DEF MobileTypeOK, Number
    <3> QED
      BY <1>2, <3>1, <3>2
  <2> QED
    BY <2>1, <2>2 DEF MobileTypeOK, socket
<1>4. OneRefresh'
  BY <1>1 DEF Tokens, OneRefresh, Refreshes
<1>5. Unreplayed'
  BY DEF Tokens, Unreplayed
<1>6. StoredIsCurrent'
  BY <1>1, <1>2 DEF Tokens, StoredIsCurrent
<1>7. CASE UNCHANGED <<issued, rotated, new>> /\ purpose[c] # "login"
  <2>1. Bounded'
    BY <1>7 DEF Tokens, Bounded
  <2>2. FreshIsOwn'
    BY <1>1, <1>7 DEF Tokens, FreshIsOwn, Holds
  <2>3. PresentedIsCurrent'
    BY <1>1, <1>7 DEF Tokens, PresentedIsCurrent
  <2> QED
    BY <1>3, <1>4, <1>5, <1>6, <2>1, <2>2, <2>3 DEF Tokens
<1>8. CASE /\ issued' = issued + 1
           /\ new' = [new EXCEPT ![c] = issued + 1]
           /\ rotated' = rotated
  <2>1. /\ issued \in Nat /\ rotated \subseteq 1 .. issued
        /\ \A d \in Call : new'[d] = IF d = c THEN issued + 1 ELSE new[d]
    BY <1>8 DEF MobileTypeOK, Number
  <2>2. Bounded'
    BY <1>8, <2>1 DEF Tokens, Bounded
  <2>3. \A d \in Call : new[d] # issued + 1 /\ refresh # issued + 1
    BY <2>1 DEF Tokens, Bounded
  <2>4. \A d \in Call : Holds(d)' => d = c \/ Holds(d)
    BY <1>1 DEF Holds
  <2>5. FreshIsOwn'
    <3>1. ASSUME NEW d \in Call, Holds(d)'
          PROVE  /\ new'[d] \in 1 .. issued' /\ new'[d] \notin rotated'
                 /\ new'[d] # refresh'
      BY <1>8, <2>1, <2>3, <2>4, <3>1 DEF Tokens, FreshIsOwn
    <3>2. ASSUME NEW d \in Call, Holds(d)', NEW e \in Call, e # d,
                 Holds(e)' \/ call'[e] = "refresh"
          PROVE  new'[e] # new'[d]
      BY <1>1, <2>1, <2>3, <2>4, <3>2 DEF Tokens, FreshIsOwn
    <3> QED
      BY <3>1, <3>2 DEF FreshIsOwn
  <2>6. PresentedIsCurrent'
    BY <1>1, <1>8, <2>1 DEF Tokens, PresentedIsCurrent
  <2> QED
    BY <1>3, <1>4, <1>5, <1>6, <2>2, <2>5, <2>6 DEF Tokens
<1> QED
  BY <1>2, <1>7, <1>8

LEMMA StartInv ==
  ASSUME MobileInv, NEW c \in Call, OnUnauthorized(c)
  PROVE  MobileInv'
<1>1. MobileTypeOK'
  BY DEF MobileInv, OnUnauthorized, CallGoes, MobileTypeOK, Step, gateway, storage, tokens, socket, history
<1>2. CASE refreshing = TRUE
  <2>1. call' = [call EXCEPT ![c] = "failed"] /\ call[c] = "unauthorized"
    BY <1>2 DEF OnUnauthorized, CallGoes
  <2> QED
    BY <1>1, <1>2, <2>1, SettledInv DEF OnUnauthorized, storage, tokens
<1>3. CASE refreshing = FALSE
  <2> USE DEF MobileInv, gateway, storage, tokens, history
  <2>1. /\ refreshing' = TRUE
        /\ \A d \in Call : call'[d] = IF d = c THEN "read" ELSE call[d]
        /\ call[c] = "unauthorized"
        /\ UNCHANGED <<gateway, storage, purpose, new, history>>
    BY <1>3 DEF OnUnauthorized, CallGoes, MobileTypeOK
  <2>2. \A d \in Call : call[d] \notin Refreshes
    BY <1>3 DEF Tokens, OneRefresh
  <2>3. Bounded' /\ Unreplayed'
    BY <2>1 DEF Tokens, Bounded, Unreplayed
  <2>4. OneRefresh'
    BY <2>1, <2>2 DEF OneRefresh
  <2>5. FreshIsOwn'
    BY <2>1 DEF Tokens, FreshIsOwn, Holds
  <2>6. StoredIsCurrent' /\ PresentedIsCurrent'
    BY <2>1 DEF Tokens, StoredIsCurrent, PresentedIsCurrent
  <2> QED
    BY <1>1, <2>3, <2>4, <2>5, <2>6 DEF Tokens
<1> QED
  BY <1>2, <1>3 DEF MobileInv, MobileTypeOK

LEMMA ReadInv ==
  ASSUME MobileInv, NEW c \in Call, ReadRefreshToken(c)
  PROVE  MobileInv'
<1> USE DEF MobileInv, gateway, storage, tokens, history
<1>1. MobileTypeOK'
  BY DEF ReadRefreshToken, CallGoes, MobileTypeOK, Step, socket
<1>2. /\ call[c] = "read"
      /\ \A d \in Call : call'[d] = IF d = c THEN (IF refresh = 0 THEN "clear" ELSE "refresh")
                                             ELSE call[d]
      /\ \A d \in Call : new'[d] = IF d = c THEN refresh ELSE new[d]
      /\ UNCHANGED <<gateway, storage, purpose, refreshing, history>>
  BY DEF ReadRefreshToken, CallGoes, MobileTypeOK
<1>3. \A d \in Call : d # c => call[d] \notin Refreshes
  BY <1>2 DEF Tokens, OneRefresh, Refreshes
<1>4. Bounded' /\ Unreplayed'
  BY <1>2 DEF Tokens, Bounded, Unreplayed
<1>5. OneRefresh'
  BY <1>2, <1>3 DEF Tokens, OneRefresh, Refreshes
<1>6. FreshIsOwn'
  <2>1. \A d \in Call : Holds(d)' => Holds(d) /\ d # c
    BY <1>2 DEF Holds
  <2> QED
    BY <1>2, <2>1 DEF Tokens, FreshIsOwn
<1>7. refresh \in rotated => crashed = TRUE
  BY <1>2, <1>3 DEF Tokens, StoredIsCurrent, Refreshes
<1>8. StoredIsCurrent' /\ PresentedIsCurrent'
  BY <1>2, <1>7, <1>3 DEF StoredIsCurrent, PresentedIsCurrent, Refreshes
<1> QED
  BY <1>1, <1>4, <1>5, <1>6, <1>8 DEF Tokens

(* The one call that refreshes: no other holds what it presents. *)
LEMMA RefreshInv ==
  ASSUME MobileInv, NEW c \in Call, Refresh(c)
  PROVE  MobileInv'
<1> USE DEF MobileInv, storage, tokens
<1>1. /\ call[c] = "refresh"
      /\ UNCHANGED <<storage, purpose, token, refreshing, screen, socket, crashed>>
      /\ \E to \in {"save", "clear"} : call' = [call EXCEPT ![c] = to]
  BY DEF Refresh, CallGoes
<1>2. PICK to \in {"save", "clear"} : call' = [call EXCEPT ![c] = to]
  BY <1>1
<1>3. \A d \in Call : call'[d] = IF d = c THEN to ELSE call[d]
  BY <1>2 DEF MobileTypeOK
<1>4. \A d \in Call : d # c => call[d] \notin Refreshes
  BY <1>1 DEF Tokens, OneRefresh, Refreshes
<1>5. OneRefresh'
  BY <1>1, <1>3, <1>4 DEF Tokens, OneRefresh, Refreshes
<1>6. StoredIsCurrent' /\ PresentedIsCurrent'
  BY <1>3, <1>4 DEF StoredIsCurrent, PresentedIsCurrent, Refreshes
<1>7. CASE /\ issued < MaxSession /\ issued' = issued + 1
           /\ live' = (live \ {new[c]}) \union {issued + 1}
           /\ new[c] \in live
           /\ rotated' = rotated \union {new[c]}
           /\ new' = [new EXCEPT ![c] = issued + 1]
           /\ UNCHANGED <<expired, replayed>>
  <2>1. MobileTypeOK'
    <3>1. /\ issued' \in Number /\ new' \in [Call -> Number]
          /\ live' \subseteq 1 .. issued' /\ expired' \subseteq 1 .. issued'
          /\ rotated' \subseteq 1 .. issued'
      <4>1. issued' \in Number /\ new' \in [Call -> Number] /\ issued \in Nat
        BY <1>7, MaxSessionAssumption DEF MobileTypeOK, Number
      <4>2. \A n \in 1 .. issued : n \in 1 .. issued'
        BY <1>7, <4>1
      <4>3. issued + 1 \in 1 .. issued'
        BY <1>7, <4>1
      <4> QED
        BY <1>7, <4>1, <4>2, <4>3 DEF MobileTypeOK
    <3>2. call' \in [Call -> Step \union {"idle", "over"}]
      BY <1>2 DEF MobileTypeOK, Step
    <3> QED
      BY <1>1, <1>7, <3>1, <3>2 DEF MobileTypeOK, socket
  <2>2. /\ issued \in Nat /\ rotated \subseteq 1 .. issued
        /\ \A d \in Call : new'[d] = IF d = c THEN issued + 1 ELSE new[d]
    BY <1>7 DEF MobileTypeOK, Number
  <2>3. Bounded' /\ Unreplayed'
    BY <1>1, <1>7, <2>2 DEF Tokens, Bounded, Unreplayed
  <2>4. \A d \in Call : new[d] # issued + 1 /\ refresh # issued + 1
    BY <2>2 DEF Tokens, Bounded
  <2>5. \A d \in Call : Holds(d)' => d = c \/ Holds(d)
    BY <1>1, <1>3 DEF Holds
  <2>6. new[c] \in 1 .. issued
    BY <1>7 DEF MobileTypeOK
  <2>7. FreshIsOwn'
    <3>1. ASSUME NEW d \in Call, Holds(d)'
          PROVE  /\ new'[d] \in 1 .. issued' /\ new'[d] \notin rotated'
                 /\ new'[d] # refresh'
      <4>1. CASE d = c
        BY <1>1, <1>7, <2>2, <2>4, <2>6, <4>1
      <4>2. CASE d # c
        BY <1>1, <1>7, <2>2, <2>5, <3>1, <4>2 DEF Tokens, FreshIsOwn
      <4> QED
        BY <4>1, <4>2
    <3>2. ASSUME NEW d \in Call, Holds(d)', NEW e \in Call, e # d,
                 Holds(e)' \/ call'[e] = "refresh"
          PROVE  new'[e] # new'[d]
      BY <1>3, <2>2, <2>4, <2>5, <3>2 DEF Tokens, FreshIsOwn
    <3> QED
      BY <3>1, <3>2 DEF FreshIsOwn
  <2> QED
    BY <1>5, <1>6, <2>1, <2>3, <2>7 DEF Tokens
<1>8. CASE /\ UNCHANGED <<issued, expired, rotated, new>> /\ live' \in {{}, live}
           /\ to = "clear"
           /\ replayed' = replayed \/ (replayed' = (replayed \/ new[c] \in rotated))
  <2>1. MobileTypeOK'
    <3>1. call' \in [Call -> Step \union {"idle", "over"}]
      BY <1>2 DEF MobileTypeOK, Step
    <3>2. replayed' \in BOOLEAN
      BY <1>8 DEF MobileTypeOK
    <3>3. live' \subseteq 1 .. issued'
      BY <1>8 DEF MobileTypeOK
    <3> QED
      BY <1>1, <1>8, <3>1, <3>2, <3>3 DEF MobileTypeOK, socket
  <2>2. Bounded'
    BY <1>1, <1>8 DEF Tokens, Bounded
  <2>3. FreshIsOwn'
    <3>1. \A d \in Call : Holds(d)' => Holds(d)
      BY <1>1, <1>3, <1>8 DEF Holds
    <3> QED
      BY <1>1, <1>3, <1>8, <3>1 DEF Tokens, FreshIsOwn
  <2>4. Unreplayed'
    <3>1. new[c] \in rotated => crashed = TRUE
      BY <1>1 DEF Tokens, PresentedIsCurrent
    <3> QED
      BY <1>1, <1>8, <3>1 DEF Tokens, Unreplayed, MobileTypeOK
  <2> QED
    BY <1>5, <1>6, <2>1, <2>2, <2>3, <2>4 DEF Tokens
<1>9. \/ /\ new[c] \in live /\ issued < MaxSession /\ issued' = issued + 1
         /\ live' = (live \ {new[c]}) \union {issued + 1}
         /\ rotated' = rotated \union {new[c]}
         /\ new' = [new EXCEPT ![c] = issued + 1]
         /\ UNCHANGED <<expired, replayed>>
      \/ /\ call' = [call EXCEPT ![c] = "clear"]
         /\ UNCHANGED <<issued, expired, rotated, new>> /\ live' = {}
         /\ replayed' = (replayed \/ new[c] \in rotated)
      \/ /\ call' = [call EXCEPT ![c] = "clear"]
         /\ UNCHANGED <<issued, expired, rotated, new, live, replayed>>
  BY DEF Refresh, CallGoes, gateway
<1>10. call' = [call EXCEPT ![c] = "clear"] => to = "clear"
  BY <1>2 DEF MobileTypeOK
<1> QED
  BY <1>7, <1>8, <1>9, <1>10

(* The tokens are written by the call that was given them, or removed. *)
LEMMA StoreInv ==
  ASSUME MobileInv, NEW c \in Call, Save(c) \/ LoggedIn(c)
  PROVE  MobileInv'
<1> USE DEF MobileInv, gateway, storage, tokens, history
<1>1. PICK to \in {"retry", "over"} :
        /\ call' = [call EXCEPT ![c] = to] /\ Holds(c)
        /\ to = "retry" => call[c] = "save"
        /\ access' = new[c] /\ refresh' = new[c]
        /\ UNCHANGED <<gateway, secret, purpose, token, new, refreshing, history>>
  BY DEF Save, LoggedIn, CallGoes, Holds
<1>2. MobileTypeOK'
  <2>1. /\ call' \in [Call -> Step \union {"idle", "over"}]
        /\ access' \in Number /\ refresh' \in Number
    BY <1>1 DEF MobileTypeOK, Step
  <2>2. /\ screen' \in DOMAIN Offers /\ wanted' \in BOOLEAN /\ channel' \in BOOLEAN
        /\ timer' \in BOOLEAN /\ forgotten' \in Nat
    <3>1. CASE Save(c)
      BY <3>1 DEF Save, MobileTypeOK, socket
    <3>2. CASE LoggedIn(c)
      BY <3>2, Screens DEF LoggedIn, Open, MobileTypeOK
    <3> QED
      BY <3>1, <3>2
  <2> QED
    BY <1>1, <2>1, <2>2 DEF MobileTypeOK
<1>3. \A d \in Call : call'[d] = IF d = c THEN to ELSE call[d]
  BY <1>1 DEF MobileTypeOK
<1>4. Bounded' /\ Unreplayed'
  BY <1>1 DEF Tokens, Bounded, Unreplayed
<1>5. OneRefresh'
  BY <1>1, <1>3 DEF Tokens, OneRefresh, Refreshes
<1>6. FreshIsOwn'
  <2>1. \A d \in Call : Holds(d)' => Holds(d) /\ d # c
    BY <1>1, <1>3 DEF Holds
  <2>2. \A d \in Call : Holds(d)' => new[d] # new[c]
    BY <1>1, <2>1 DEF Tokens, FreshIsOwn
  <2> QED
    BY <1>1, <1>3, <2>1, <2>2 DEF Tokens, FreshIsOwn
<1>7. StoredIsCurrent' /\ PresentedIsCurrent'
  BY <1>1, <1>3 DEF Tokens, FreshIsOwn, StoredIsCurrent, PresentedIsCurrent
<1> QED
  BY <1>2, <1>4, <1>5, <1>6, <1>7 DEF Tokens

LEMMA ClearInv ==
  ASSUME MobileInv, NEW c \in Call, Clear(c) \/ (CallGoes(c, "retry", "clear") /\
         UNCHANGED <<gateway, storage, purpose, token, new, refreshing, screen, socket, history>>)
  PROVE  MobileInv'
<1> USE DEF MobileInv, gateway, storage, tokens, history
<1>1. PICK to \in {"failed", "clear"} :
        /\ call' = [call EXCEPT ![c] = to] /\ call[c] \in {"clear", "retry"}
        /\ UNCHANGED <<gateway, secret, purpose, token, new, history, screen, socket>>
        /\ \/ to = "failed" /\ access' = 0 /\ refresh' = 0 /\ refreshing' = FALSE
           \/ to = "clear" /\ call[c] = "retry" /\ UNCHANGED <<tokens, refreshing>>
  BY DEF Clear, CallGoes
<1>2. \A d \in Call : call'[d] = IF d = c THEN to ELSE call[d]
  BY <1>1 DEF MobileTypeOK
<1>3. \A d \in Call : d # c => call[d] \notin Refreshes
  BY <1>1 DEF Tokens, OneRefresh, Refreshes
<1>4. MobileTypeOK'
  <2>1. call' \in [Call -> Step \union {"idle", "over"}]
    BY <1>1 DEF MobileTypeOK, Step
  <2>2. access' \in Number /\ refresh' \in Number
    BY <1>1, MaxSessionAssumption DEF MobileTypeOK, Number
  <2>3. refreshing' \in BOOLEAN
    BY <1>1 DEF MobileTypeOK
  <2> QED
    BY <1>1, <2>1, <2>2, <2>3 DEF MobileTypeOK, socket
<1>5. Bounded' /\ Unreplayed'
  BY <1>1 DEF Tokens, Bounded, Unreplayed, MobileTypeOK, Number
<1>6. OneRefresh'
  BY <1>1, <1>2, <1>3 DEF Tokens, OneRefresh, Refreshes
<1>7. FreshIsOwn'
  <2>1. \A d \in Call : Holds(d)' => Holds(d) /\ d # c
    BY <1>1, <1>2 DEF Holds
  <2> QED
    BY <1>1, <1>2, <2>1 DEF Tokens, FreshIsOwn
<1>8. 0 \notin rotated
  BY DEF MobileTypeOK
<1>9. StoredIsCurrent' /\ PresentedIsCurrent'
  BY <1>1, <1>2, <1>3, <1>8 DEF Tokens, StoredIsCurrent, PresentedIsCurrent, Refreshes
<1> QED
  BY <1>4, <1>5, <1>6, <1>7, <1>9 DEF Tokens

(* All calls end with the application, and the history says that it died. *)
LEMMA CrashInv ==
  ASSUME MobileInv, Crash
  PROVE  MobileInv'
<1> USE DEF MobileInv, gateway, storage, tokens
<1>1. /\ call' = [c \in Call |-> IF call[c] = "idle" THEN "idle" ELSE "over"]
      /\ refreshing' = FALSE /\ screen' = IF secret THEN "login" ELSE "noSecret"
      /\ Disconnect
      /\ crashed' = TRUE
      /\ UNCHANGED <<gateway, purpose, token, new, replayed, secret, refresh>>
      /\ \/ access' = access
         \/ \E c \in Call : access' = new[c]
  BY DEF Crash
<1>2. \A c \in Call : call'[c] \in {"idle", "over"}
  BY <1>1
<1>3. access' \in Number /\ access' \in 0 .. issued
  BY <1>1 DEF MobileTypeOK, Tokens, Bounded
<1>4. MobileTypeOK'
  <2>1. call' \in [Call -> Step \union {"idle", "over"}]
    BY <1>1
  <2> QED
    BY <1>1, <1>3, <2>1, Screens DEF MobileTypeOK, Disconnect
<1>5. Bounded' /\ Unreplayed'
  BY <1>1, <1>3 DEF Tokens, Bounded, Unreplayed
<1>6. OneRefresh' /\ FreshIsOwn' /\ StoredIsCurrent' /\ PresentedIsCurrent'
  BY <1>1, <1>2 DEF OneRefresh, Refreshes, FreshIsOwn, Holds, StoredIsCurrent, PresentedIsCurrent
<1> QED
  BY <1>4, <1>5, <1>6 DEF Tokens

(* Screens, channels and expiries touch no token. *)
LEMMA ElsewhereInv ==
  ASSUME MobileInv,
         UNCHANGED <<issued, live, rotated, storage, calls, refreshing, history>>,
         expired' \subseteq 1 .. issued, screen' \in DOMAIN Offers,
         wanted' \in BOOLEAN, channel' \in BOOLEAN, timer' \in BOOLEAN, forgotten' \in Nat
  PROVE  MobileInv'
<1> USE DEF MobileInv, storage, tokens, calls, history
<1>1. MobileTypeOK'
  BY DEF MobileTypeOK
<1>2. Bounded' /\ Unreplayed' /\ OneRefresh' /\ StoredIsCurrent' /\ PresentedIsCurrent'
  BY DEF Tokens, Bounded, Unreplayed, OneRefresh, StoredIsCurrent, PresentedIsCurrent
<1>3. FreshIsOwn'
  BY DEF Tokens, FreshIsOwn, Holds
<1> QED
  BY <1>1, <1>2, <1>3 DEF Tokens

LEMMA CallInv ==
  ASSUME MobileInv, NEW c \in Call,
         \/ Get(c) \/ Register(c) \/ Login(c) \/ Submit(c) \/ NoSecret(c) \/ Logout(c)
         \/ Answered(c) \/ OnUnauthorized(c) \/ ReadRefreshToken(c) \/ Refresh(c)
         \/ Save(c) \/ Retry(c) \/ Clear(c)
         \/ Registered(c) \/ RegisterFailed(c)
         \/ LoggedIn(c) \/ LoginFailed(c) \/ LoggedOut(c)
  PROVE  MobileInv'
<1>1. CASE Get(c) \/ Register(c) \/ Logout(c)
  BY <1>1, SendInv DEF Get, Register, Logout, Send, CallGoes
<1>8. CASE Login(c)
  BY <1>8, SendInv DEF Login, CallGoes
<1>9. CASE Submit(c)
  <2>1. /\ purpose[c] \in {"get", "register", "login", "logout"}
        /\ purpose' = [purpose EXCEPT ![c] = purpose[c]]
    BY <1>9 DEF Submit, MobileInv, MobileTypeOK
  <2>2. screen' \in {screen, "working"}
    BY <1>9 DEF Submit, Shows
  <2> QED
    BY <1>9, <2>1, <2>2, SendInv DEF Submit, CallGoes
<1>2. CASE Answered(c)
  <2>0. token' \in [Call -> Number]
    BY <1>2, MaxSessionAssumption DEF Answered, MobileInv, MobileTypeOK, Number
  <2>1. CASE CallGoes(c, "sent", "done") /\ Admit(c, token[c])
    <3>1. token[c] \in Number /\ refreshing \in BOOLEAN
      BY DEF MobileInv, MobileTypeOK
    <3> QED
      BY <1>2, <2>0, <2>1, <3>1, AdmitInv DEF Answered, CallGoes
  <2>2. CASE UNCHANGED <<gateway, new>> /\ \E to \in {"failed", "unauthorized"} : CallGoes(c, "sent", to)
    <3>1. PICK to \in {"failed", "unauthorized"} : CallGoes(c, "sent", to)
      BY <2>2
    <3>2. MobileTypeOK'
      BY <1>2, <2>0, <2>2, <3>1 DEF Answered, CallGoes, MobileInv, MobileTypeOK, Step,
                              gateway, storage, tokens, socket, history
    <3> QED
      BY <1>2, <2>2, <3>1, <3>2, SettledInv DEF Answered, CallGoes, storage, tokens
  <2> QED
    BY <1>2, <2>1, <2>2 DEF Answered
<1>3. CASE OnUnauthorized(c) \/ ReadRefreshToken(c) \/ Refresh(c)
  BY <1>3, StartInv, ReadInv, RefreshInv
<1>4. CASE Save(c) \/ LoggedIn(c)
  BY <1>4, StoreInv
<1>5. CASE Retry(c)
  <2>1. CASE /\ CallGoes(c, "retry", "done") /\ refreshing' = FALSE
             /\ Admit(c, IF access = 0 THEN new[c] ELSE access)
    <3>1. new[c] \in Number /\ access \in Number
      BY DEF MobileInv, MobileTypeOK
    <3> QED
      BY <1>5, <2>1, <3>1, AdmitInv DEF Retry, CallGoes, MobileInv, MobileTypeOK
  <2>2. CASE CallGoes(c, "retry", "clear") /\ UNCHANGED <<gateway, new, refreshing>>
    BY <1>5, <2>2, ClearInv DEF Retry
  <2> QED
    BY <1>5, <2>1, <2>2 DEF Retry
<1>6. CASE Clear(c)
  BY <1>6, ClearInv
<1>7. CASE Registered(c) \/ RegisterFailed(c) \/ LoginFailed(c) \/ LoggedOut(c) \/ NoSecret(c)
  <2>1. /\ call[c] \in {"asked", "done", "failed"} /\ call' = [call EXCEPT ![c] = "over"]
        /\ UNCHANGED <<gateway, purpose, token, new, refreshing, socket, history>>
        /\ access' \in {access, 0} /\ refresh' \in {refresh, 0}
        /\ secret' \in {secret, TRUE} /\ screen' \in {"login", "error", "noSecret", "dashboard"}
    BY <1>7 DEF Registered, RegisterFailed, LoginFailed, LoggedOut, NoSecret, Shows, CallGoes, storage, tokens
  <2>2. MobileTypeOK'
    <3>1. call' \in [Call -> Step \union {"idle", "over"}]
      BY <2>1 DEF MobileInv, MobileTypeOK
    <3>2. access' \in Number /\ refresh' \in Number
      BY <2>1, MaxSessionAssumption DEF MobileInv, MobileTypeOK, Number
    <3> QED
      BY <2>1, <3>1, <3>2, Screens DEF MobileInv, MobileTypeOK, gateway, socket, history
  <2> QED
    BY <2>1, <2>2, SettledInv
<1> QED
  BY <1>1, <1>2, <1>3, <1>4, <1>5, <1>6, <1>7, <1>8, <1>9

LEMMA MobileStepInv == MobileInv /\ [MobileNext]_mobileVars => MobileInv'
<1> SUFFICES ASSUME MobileInv, [MobileNext]_mobileVars PROVE MobileInv'
  OBVIOUS
<1>1. ASSUME NEW c \in Call,
             \/ Get(c) \/ Register(c) \/ Login(c) \/ Submit(c) \/ NoSecret(c) \/ Logout(c)
             \/ Answered(c) \/ OnUnauthorized(c) \/ ReadRefreshToken(c) \/ Refresh(c)
             \/ Save(c) \/ Retry(c) \/ Clear(c)
             \/ Registered(c) \/ RegisterFailed(c)
             \/ LoggedIn(c) \/ LoginFailed(c) \/ LoggedOut(c)
      PROVE  MobileInv'
  BY <1>1, CallInv
<1>2. CASE OnClose \/ TimerFires
  <2>1. CASE OnClose
    <3>1. forgotten' \in Nat
      BY <2>1 DEF OnClose, MobileInv, MobileTypeOK
    <3> QED
      BY <2>1, <3>1, ElsewhereInv DEF OnClose, MobileInv, MobileTypeOK, gateway
  <2>2. CASE TimerFires
    <3>1. forgotten' \in Nat
      BY <2>2 DEF TimerFires, Open, MobileInv, MobileTypeOK
    <3> QED
      BY <2>2, <3>1, ElsewhereInv DEF TimerFires, Open, MobileInv, MobileTypeOK, gateway
  <2> QED
    BY <1>2, <2>1, <2>2
<1>3. ASSUME NEW g \in 1 .. MaxSession, AccessExpires(g)
      PROVE  MobileInv'
  BY <1>3, ElsewhereInv DEF AccessExpires, MobileInv, MobileTypeOK, socket
<1>4. CASE Crash
  BY <1>4, CrashInv
<1>5. CASE UNCHANGED mobileVars
  BY <1>5, ElsewhereInv DEF mobileVars, MobileInv, MobileTypeOK, gateway, socket
<1> QED
  BY <1>1, <1>2, <1>3, <1>4, <1>5 DEF MobileNext

(* Every variable of the application keeps its type: a screen offers its    *)
(* buttons, a token is that of an issued session.                           *)
THEOREM MobileTypeCorrect == MobileSpec => []MobileTypeOK
<1>1. MobileInv => MobileTypeOK
  BY DEF MobileInv
<1> QED
  BY MobileInitInv, MobileStepInv, <1>1, PTL DEF MobileSpec

(* As long as the application does not die it presents no refresh token     *)
(* that the gateway has exchanged (http_client.dart:92-123): the flag lets  *)
(* one call refresh at a time, and until it has saved the new token no      *)
(* other call reads the old one.                                            *)
THEOREM PresentsNoRotatedToken == MobileSpec => []NoReplayWithoutCrash
<1>1. MobileInv => NoReplayWithoutCrash
  BY DEF MobileInv, MobileTypeOK, Tokens, Unreplayed, NoReplayWithoutCrash
<1> QED
  BY MobileInitInv, MobileStepInv, <1>1, PTL DEF MobileSpec

(* While the telemetry connection is wanted there is a channel or a timer   *)
(* (ws_telemetry.dart:134-158): a close schedules the timer after the       *)
(* clean- up, and a timer opens a channel before it is gone.                *)
THEOREM NeverDeafHolds == MobileSpec => []NeverDeaf
<1>1. MobileInit => NeverDeaf
  BY DEF MobileInit, NeverDeaf
<1>2. MobileInv /\ NeverDeaf /\ [MobileNext]_mobileVars => NeverDeaf'
  <2> SUFFICES ASSUME MobileInv, NeverDeaf, [MobileNext]_mobileVars PROVE NeverDeaf'
    OBVIOUS
  <2>1. \/ UNCHANGED socket \/ wanted' = FALSE \/ channel' = TRUE
        \/ wanted' = wanted /\ timer' = wanted
    BY DEF MobileNext, mobileVars, Get, Register, Login, Submit, Logout, Answered, OnUnauthorized,
           ReadRefreshToken, Refresh, Save, Retry, Clear, Registered, RegisterFailed, LoggedIn,
           LoginFailed, LoggedOut, NoSecret, OnClose, TimerFires, AccessExpires, Crash,
           Disconnect, Open
  <2> QED
    BY <2>1 DEF NeverDeaf, MobileInv, MobileTypeOK, socket
<1> QED
  BY MobileInitInv, MobileStepInv, <1>1, <1>2, PTL DEF MobileSpec
=============================================================================
