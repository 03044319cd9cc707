---------------------------- MODULE Presentation ----------------------------
(***************************************************************************)
(* The credentials of one user and the claims presented about them:         *)
(* credential.service.ts and issuer.controller.ts, which issue and revoke;  *)
(* verifier.controller.ts, whose one-time proof requests are answered by a  *)
(* presentation; disclosure.service.ts, which verifies the claim, also for  *)
(* POST /credential/verify-claim, which asks for no proof request.          *)
(*                                                                          *)
(* A transaction is one step (the unique index on user and type lets at     *)
(* most one of two that overlap commit); so is every other await.  Proofs   *)
(* are those an honest wallet makes from the leaves it was given; it may be *)
(* wrong about which credential they belong to.                             *)
(***************************************************************************)
EXTENDS Merkle

CONSTANTS
  Type,             \* the credential types issued with POST /credential/issue
  GovernmentID,     \* the type issued with POST /issuer/issue-id
  Attributes,       \* the sequences of attribute values that are issued
  Request,          \* the proof requests
  Claim,            \* the calls that present a claim
  Threshold,        \* the thresholds claimed
  MaxIssued         \* bound on the number of credentials

(* issueCredential refuses any other value, and more attributes than leaves. *)
ASSUME AttributesAssumption ==
  /\ \A values \in Attributes : values \in Seq(0 .. MaxValue) /\ Len(values) <= MAX_LEAVES
  /\ Threshold \subseteq Nat /\ MaxIssued \in Nat

NoRequest == "no request"

VARIABLES
  credentials,      \* zkp.credentials, in order of issue; ids are positions
  due,              \* the credentials whose expiresAt has passed
  request,          \* request[r]: the key zkauth:proofRequest:{r}
  claim,            \* claim[c]: where a claim is
  about,            \* about[c]: what c presents
  dead,             \* dead[c]: credentials revoked, replaced or due before c came (history)
  spent             \* spent[c]: requests answered with a grant before c came (history)

table == <<credentials, due>>
claims == <<claim, about, dead, spent>>
vars == <<table, request, claims>>

Id == 1 .. MaxIssued
Step == {"request", "resolve", "fetch", "issuer", "read", "verify", "spend"}
About ==
  [request : Request \union {NoRequest}, id : Id, from : Id, index : 0 .. MAX_LEAVES - 1,
   threshold : Threshold]

TypeOK ==
  /\ credentials \in Seq([type : Type \union {GovernmentID}, values : Attributes,
                          status : {"ACTIVE", "REVOKED", "DELETED"}])
  /\ Len(credentials) <= MaxIssued
  /\ due \subseteq Id
  /\ request \in [Request -> {"none", "set", "gone", "expired"}]
  /\ claim \in [Claim -> Step \union {"idle", "granted", "refused"}]
  /\ \A c \in Claim : claim[c] # "idle" => about[c] \in About
  /\ dead \in [Claim -> SUBSET Id]
  /\ spent \in [Claim -> SUBSET Request]

Init ==
  /\ credentials = << >>
  /\ due = {}
  /\ request = [r \in Request |-> "none"]
  /\ claim = [c \in Claim |-> "idle"]
  /\ about = [c \in Claim |-> << >>]
  /\ dead = [c \in Claim |-> {}]
  /\ spent = [c \in Claim |-> {}]

-----------------------------------------------------------------------------
Issued == DOMAIN credentials
OfType(type) == {id \in Issued : credentials[id].type = type /\ credentials[id].status # "DELETED"}

(* A salt of its own for every attribute of every credential. *)
Salt(id, i) == id * MAX_LEAVES + i
LeafHashes(id) ==
  LET values == credentials[id].values
  IN  [n \in 1 .. Len(values) |-> LeafHash(values[n], Salt(id, n - 1))]

(* merkle_root: of the Merkle tree, or a flat hash of the leaves. *)
MerkleRoot(id) ==
  IF credentials[id].type = GovernmentID THEN [sha256 |-> LeafHashes(id)]
  ELSE [poseidon |-> Nodes(LeafHashes(id))[1]]

(* issueCredential.  A row of this user and type that is there already, in  *)
(* any status, makes the INSERT violate the unique index, and the           *)
(* transaction with its revocation of the old credential is rolled back.    *)
IssueCredential(type, values) ==
  /\ OfType(type) = {} /\ Len(credentials) < MaxIssued
  /\ credentials' = Append(credentials, [type |-> type, values |-> values, status |-> "ACTIVE"])
  /\ UNCHANGED <<due, request, claims>>

(* postIssueId: the old row is deleted in the same transaction. *)
IssueId(values) ==
  /\ Len(credentials) < MaxIssued
  /\ credentials' =
       Append([id \in Issued |-> IF id \in OfType(GovernmentID)
                                 THEN [credentials[id] EXCEPT !.status = "DELETED"]
                                 ELSE credentials[id]],
              [type |-> GovernmentID, values |-> values, status |-> "ACTIVE"])
  /\ UNCHANGED <<due, request, claims>>

(* revokeCredential: nothing to do for one that is revoked.  It looks the   *)
(* credential up and updates it in one step here; one that is replaced in   *)
(* between would be dead either way.                                        *)
RevokeCredential(id) ==
  /\ id \in Issued /\ credentials[id].status = "ACTIVE"
  /\ credentials' = [credentials EXCEPT ![id].status = "REVOKED"]
  /\ UNCHANGED <<due, request, claims>>

FallDue(id) ==
  /\ id \in Issued \ due
  /\ due' = due \union {id}
  /\ UNCHANGED <<credentials, request, claims>>

-----------------------------------------------------------------------------
(* postRequestProof: SET with a TTL. *)
RequestProof(r) ==
  /\ request[r] = "none"
  /\ request' = [request EXCEPT ![r] = "set"]
  /\ UNCHANGED <<table, claims>>

RequestExpires(r) ==
  /\ request[r] = "set"
  /\ request' = [request EXCEPT ![r] = "expired"]
  /\ UNCHANGED <<table, claims>>

Dead == {id \in Issued : credentials[id].status # "ACTIVE"} \union due
Spent == {about[c].request : c \in {x \in Claim : claim[x] = "granted"}}

(* A wallet that holds the leaves of credential from proves a claim that is *)
(* true of them, and presents it as one about credential id.                *)
Present(c, r, id, from, index, threshold) ==
  /\ {id, from} \subseteq Issued
  /\ credentials[from].type # GovernmentID
  /\ index < Len(credentials[from].values)
  /\ threshold <= credentials[from].values[index + 1]
  /\ about' = [about EXCEPT ![c] =
       [request |-> r, id |-> id, from |-> from, index |-> index, threshold |-> threshold]]
  /\ dead' = [dead EXCEPT ![c] = Dead]
  /\ spent' = [spent EXCEPT ![c] = Spent \ {NoRequest}]
  /\ UNCHANGED <<table, request>>

ClaimGoes(c, from, to) == claim[c] = from /\ claim' = [claim EXCEPT ![c] = to]

(* The two endpoints: a verifier's, which asks for a proof request, and the *)
(* gateway's own, which does not.                                           *)
PostVerifyPresentation(c, r, id, from, index, threshold) ==
  /\ ClaimGoes(c, "idle", "request")
  /\ Present(c, r, id, from, index, threshold)

PostVerifyClaim(c, id, from, index, threshold) ==
  /\ ClaimGoes(c, "idle", "read")
  /\ Present(c, NoRequest, id, from, index, threshold)

Stay == UNCHANGED <<table, about, dead, spent>>

(* The proof request is read and its challenge compared. *)
GetRequest(c) ==
  /\ \/ ClaimGoes(c, "request", "resolve") /\ request[about[c].request] = "set"
     \/ ClaimGoes(c, "request", "refused")
  /\ Stay /\ UNCHANGED request

(* resolve: the issuer's DID document is in the cache, in the registry or   *)
(* follows from a did:key; a did:web that is none of these is fetched; for  *)
(* any other issuer there is none.                                          *)
ResolveIssuer(c) ==
  /\ \E to \in {"issuer", "fetch", "refused"} : ClaimGoes(c, "resolve", to)
  /\ Stay /\ UNCHANGED request

(* The network: no answer in time, an error, or another DID's document.     *)
FetchDocument(c) ==
  /\ ClaimGoes(c, "fetch", "issuer") \/ ClaimGoes(c, "fetch", "refused")
  /\ Stay /\ UNCHANGED request

(* The document has a key #key-1, and the credential's own proof, if it has *)
(* one, is right.                                                           *)
VerifyIssuerProof(c) ==
  /\ ClaimGoes(c, "issuer", "read") \/ ClaimGoes(c, "issuer", "refused")
  /\ Stay /\ UNCHANGED request

\* Mutant: the root of the proof is not compared with the stored one.
ReadWithoutRoot(c) ==
  /\ \/ ClaimGoes(c, "read", "verify") /\ about[c].id \notin Dead
     \/ ClaimGoes(c, "read", "refused")
  /\ Stay /\ UNCHANGED request

\* Mutant: whether the credential is still valid is not looked at.
ReadWithoutStatus(c) ==
  /\ \/ ClaimGoes(c, "read", "verify") /\ MerkleRoot(about[c].id) = MerkleRoot(about[c].from)
     \/ ClaimGoes(c, "read", "refused")
  /\ Stay /\ UNCHANGED request

(* verifyClaim: the row must be there, be neither revoked nor expired, and  *)
(* hold the root of the proof ...                                           *)
ReadCredential(c) ==
  /\ \/ /\ ClaimGoes(c, "read", "verify")
        /\ about[c].id \notin Dead
        /\ MerkleRoot(about[c].id) = MerkleRoot(about[c].from)
     \/ ClaimGoes(c, "read", "refused")
  /\ Stay /\ UNCHANGED request

ProofHolds(id, index, threshold) ==
  LET node == Nodes(LeafHashes(id))
  IN  Accepts(node[1], threshold, index, credentials[id].values[index + 1],
              Salt(id, index), Path(node, index))

\* Mutant: the proof request is deleted as soon as a proof has been looked at.
VerifyAndSpend(c) ==
  /\ LET valid == ProofHolds(about[c].from, about[c].index, about[c].threshold)
         next == IF about[c].request = NoRequest THEN "granted" ELSE "spend"
     IN  (ClaimGoes(c, "verify", next) /\ valid) \/ ClaimGoes(c, "verify", "refused")
  /\ request' = [r \in Request |-> IF r = about[c].request THEN "gone" ELSE request[r]]
  /\ Stay

(* ... then the proof is verified and the audit record written, whose       *)
(* failure is caught.  For the gateway that is all.                         *)
VerifyClaim(c) ==
  /\ LET valid == ProofHolds(about[c].from, about[c].index, about[c].threshold)
         next == IF about[c].request = NoRequest THEN "granted" ELSE "spend"
     IN  (ClaimGoes(c, "verify", next) /\ valid) \/ ClaimGoes(c, "verify", "refused")
  /\ Stay /\ UNCHANGED request

(* The proof request is deleted; how many keys that were is not asked.  A   *)
(* DEL that fails, or whose answer is lost, refuses a claim that was true.  *)
SpendRequest(c) ==
  /\ LET gone == [request EXCEPT ![about[c].request] = IF @ = "set" THEN "gone" ELSE @]
     IN  \/ ClaimGoes(c, "spend", "granted") /\ request' = gone
         \/ ClaimGoes(c, "spend", "refused") /\ request' \in {request, gone}
  /\ Stay

-----------------------------------------------------------------------------
PostIssueCredential == \E type \in Type, values \in Attributes : IssueCredential(type, values)
PostIssueId == \E values \in Attributes : IssueId(values)
PostRevokeCredential == \E id \in Id : RevokeCredential(id)

Next ==
  \/ PostIssueCredential \/ PostIssueId \/ PostRevokeCredential
  \/ \E id \in Id : FallDue(id)
  \/ \E r \in Request : RequestProof(r) \/ RequestExpires(r)
  \/ \E c \in Claim :
       \/ \E id, from \in Id, index \in 0 .. MAX_LEAVES - 1, threshold \in Threshold :
            \/ \E r \in Request : PostVerifyPresentation(c, r, id, from, index, threshold)
            \/ PostVerifyClaim(c, id, from, index, threshold)
       \/ GetRequest(c) \/ ResolveIssuer(c) \/ FetchDocument(c) \/ VerifyIssuerProof(c)
       \/ ReadCredential(c) \/ VerifyClaim(c) \/ SpendRequest(c)

Spec == Init /\ [][Next]_vars

-----------------------------------------------------------------------------
Accepted == {c \in Claim : claim[c] \in {"spend", "granted"}}

(* A claim that is accepted is true of the credential it names, also when   *)
(* the wallet made its proof from another one's leaves                      *)
(* (disclosure.service.ts:208-231).                                         *)
ClaimIsTrue ==
  \A c \in Accepted :
    /\ about[c].index < Len(credentials[about[c].id].values)
    /\ about[c].threshold <= credentials[about[c].id].values[about[c].index + 1]

(* A claim about a credential that was revoked, replaced or overdue when it *)
(* came in is not accepted, on either endpoint, whatever is issued or       *)
(* revoked while it is handled (disclosure.service.ts:168-200).             *)
DeadIsRefused == \A c \in Accepted : about[c].id \notin dead[c]

(* A proof request that was answered with a grant grants nothing to a       *)
(* presentation that comes in later; and unless it expires, what has spent  *)
(* it is a presentation about a credential that was good when it came in,   *)
(* made from leaves of that credential's root: one that is refused before   *)
(* leaves it for the next (verifier.controller.ts:33-36, 337-338).          *)
RequestIsOneTime ==
  /\ \A c \in Claim : claim[c] = "granted" => about[c].request \notin spent[c]
  /\ \A r \in Request :
       request[r] = "gone" =>
         \E c \in Claim :
           /\ claim[c] \in {"granted", "refused"}
           /\ about[c].request = r
           /\ about[c].id \notin dead[c]
           /\ MerkleRoot(about[c].id) = MerkleRoot(about[c].from)

(* The service's paths and the circuit agree: for every attribute of every  *)
(* credential with a tree the circuit accepts the service's path at the     *)
(* true value, and at no higher threshold and for no other index            *)
(* (merkle.service.ts:23-27).                                               *)
ProofsComplete ==
  \A id \in {x \in Issued : credentials[x].type # GovernmentID} :
    LET values == credentials[id].values
        node == Nodes(LeafHashes(id))
    IN  \A i \in 0 .. Len(values) - 1, j \in 0 .. MAX_LEAVES - 1,
           threshold \in Threshold :
          Accepts(node[1], threshold, j, values[i + 1], Salt(id, i), Path(node, i))
            <=> i = j /\ threshold <= values[i + 1]
=============================================================================
