----------------------------- MODULE VerifierPage -----------------------------
(***************************************************************************)
(* The verifier's portal (web/src/app/verifier/page.tsx): it makes proof    *)
(* requests, waits for the holder's decision over the socket and by a poll  *)
(* every 5 s, and shows the result.  Every fetch is answered later, by a    *)
(* callback that knows the request it was made for, while the page may have *)
(* been reset and show another.  What the gateway answers and pushes is     *)
(* arbitrary here.                                                          *)
(***************************************************************************)
EXTENDS Naturals

CONSTANTS
  ProofRequest, \* the requests that the gateway makes for this page
  NoRequest,    \* null
  MaxFetches    \* how many fetches of one kind are under way at most

ASSUME NoRequestAssumption == NoRequest \notin ProofRequest

VARIABLES
  step,         \* the page's step, or that it was left
  request,      \* the request on the page
  result,       \* the result it shows or showed: of what request, by whom
  issued,       \* the requests the gateway has made
  generating,   \* calls of request-proof under way
  simulating,   \* simulating[q]: calls of verify under way for request q
  polling,      \* polling[q]: calls of its status under way
  overtaken     \* the page changed its request before a fetch was answered

fetches == <<generating, simulating, polling>>
pageVars == <<step, request, result, issued, fetches, overtaken>>

NoResult == [of |-> NoRequest, by |-> "nobody"]
Result == [of : ProofRequest, by : {"push", "poll", "simulation"}]

VerifierTypeOK ==
  /\ step \in {"configure", "waiting", "verified", "left"}
  /\ request \in ProofRequest \union {NoRequest}
  /\ result \in Result \union {NoResult}
  /\ issued \subseteq ProofRequest
  /\ generating \in Nat
  /\ simulating \in [ProofRequest -> Nat]
  /\ polling \in [ProofRequest -> Nat]
  /\ overtaken \in BOOLEAN

(* Behind the auth guard. *)
VerifierInit ==
  /\ step = "configure"
  /\ request = NoRequest
  /\ result = NoResult
  /\ issued = {}
  /\ generating = 0
  /\ simulating = [q \in ProofRequest |-> 0]
  /\ polling = [q \in ProofRequest |-> 0]
  /\ overtaken = FALSE

-----------------------------------------------------------------------------
Mounted == step # "left"

(* What the page offers by its step: the form with its button, the QR code  *)
(* with the demo's button.                                                  *)
Configuring == step = "configure"
Waiting == step = "waiting"

(* setResult and setStep of one callback. *)
Verified(q, by) ==
  /\ step' = "verified"
  /\ result' = [of |-> q, by |-> by]

OneLess(f, q) == f' = [f EXCEPT ![q] = @ - 1]

(* Another request comes onto the page while fetches for one are under way. *)
Overtakes ==
  overtaken' = (overtaken \/ \E q \in ProofRequest : simulating[q] + polling[q] > 0)

(* The button stays until the answer comes, so it may be pressed again. *)
Generate ==
  /\ Configuring
  /\ generating < MaxFetches
  /\ generating' = generating + 1
  /\ UNCHANGED <<step, request, result, issued, simulating, polling, overtaken>>

(* The body is read twice; the second time fails, so no watch is set up. *)
Generated(q) ==
  /\ Mounted
  /\ generating > 0
  /\ q \notin issued
  /\ issued' = issued \union {q}
  /\ generating' = generating - 1
  /\ request' = q
  /\ step' = "waiting"
  /\ Overtakes
  /\ UNCHANGED <<result, simulating, polling>>

GenerateFails ==
  /\ Mounted
  /\ generating > 0
  /\ generating' = generating - 1
  /\ UNCHANGED <<step, request, result, issued, simulating, polling, overtaken>>

(* The demo's button; the result is "granted" whatever the gateway answers. *)
Simulate ==
  /\ Waiting
  /\ simulating[request] < MaxFetches
  /\ simulating' = [simulating EXCEPT ![request] = @ + 1]
  /\ UNCHANGED <<step, request, result, issued, generating, polling, overtaken>>

Simulated(q) ==
  /\ Mounted
  /\ simulating[q] > 0
  /\ OneLess(simulating, q)
  /\ Verified(q, "simulation")
  /\ UNCHANGED <<request, issued, generating, polling, overtaken>>

-----------------------------------------------------------------------------
\* Mutant: a push is not compared with the request on the page.
PushAny(q) ==
  /\ Mounted
  /\ request # NoRequest
  /\ Verified(q, "push") \/ (step' = "configure" /\ UNCHANGED result)
  /\ UNCHANGED <<request, issued, fetches, overtaken>>

(* VERIFY_REQUEST_APPROVED and VERIFY_REQUEST_REJECTED, in any step; a push *)
(* about another request is ignored.                                        *)
Push(q) ==
  /\ Mounted
  /\ q = request
  /\ \/ Verified(q, "push")
     \/ step' = "configure" /\ UNCHANGED result
  /\ UNCHANGED <<request, issued, fetches, overtaken>>

(* The interval runs while the page waits; clearing it stops no fetch. *)
Poll ==
  /\ Waiting
  /\ polling[request] < MaxFetches
  /\ polling' = [polling EXCEPT ![request] = @ + 1]
  /\ UNCHANGED <<step, request, result, issued, generating, simulating, overtaken>>

Polled(q) ==
  /\ Mounted
  /\ polling[q] > 0
  /\ OneLess(polling, q)
  /\ \/ Verified(q, "poll")
     \/ step' = "configure" /\ UNCHANGED result
     \/ UNCHANGED <<step, result>>
  /\ UNCHANGED <<request, issued, generating, simulating, overtaken>>

-----------------------------------------------------------------------------
(* "New Request" *)
Reset ==
  /\ step \in {"waiting", "verified"}
  /\ step' = "configure"
  /\ request' = NoRequest
  /\ result' = NoResult
  /\ Overtakes
  /\ UNCHANGED <<issued, fetches>>

(* "Sign Out"; React drops what later answers set. *)
SignOut ==
  /\ Mounted
  /\ step' = "left"
  /\ UNCHANGED <<request, result, issued, fetches, overtaken>>

VerifierNext ==
  \/ Generate \/ GenerateFails \/ Simulate \/ Poll \/ Reset \/ SignOut
  \/ \E q \in ProofRequest : Generated(q) \/ Simulated(q) \/ Push(q) \/ Polled(q)

VerifierSpec == VerifierInit /\ [][VerifierNext]_pageVars

-----------------------------------------------------------------------------
(* "Access Granted" is about the request on the page: always where a push   *)
(* says so, and where a fetch does, as long as the page kept its request    *)
(* until the fetches for it were answered (page.tsx:201-257, 334-380).      *)
GrantIsOfThisRequest ==
  step = "verified" /\ (result.by = "push" \/ ~overtaken) => result.of = request

(* What the page relies on: the grant it shows is of the request it shows.  *)
(* An answer that comes after "New Request" refutes it.                     *)
GrantIsOfShownRequest == step = "verified" => result.of = request
=============================================================================
