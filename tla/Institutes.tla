------------------------------ MODULE Institutes ------------------------------
(***************************************************************************)
(* The registration of institutes: the form of platform/page.tsx and the    *)
(* routes of platform.routes.ts that register an institute, resolve its DID *)
(* and look up its API key.  The handler checks slug and email in queries    *)
(* of their own before it inserts; other registrations run in between, and  *)
(* the answer, the only place where the keys are shown, may be lost.        *)
(***************************************************************************)
EXTENDS Naturals, FiniteSets

CONSTANTS
  Page,         \* the pages on which the form is open
  Attempt,      \* the calls of register-institute
  Name,         \* names of institutes, as toSlug makes slugs of them
  Suffix,       \* what crypto.randomBytes(3) may append to a taken slug
  Email

NoSuffix == "none"

ASSUME NoSuffixAssumption == NoSuffix \notin Suffix

VARIABLES
  institutes,   \* the table institutes
  handler,      \* handler[a]: the next query of attempt a, or how it ended
  body,         \* body[a]: who sent it, with what name and email
  slugOf,       \* slugOf[a]: the slug that attempt a has settled on
  submitState,  \* submitState[p]: the state of the form on page p
  request       \* request[p]: the attempt of its last call, none after loading

server == <<institutes, handler, slugOf>>
form == <<submitState, request>>
instituteVars == <<server, body, form>>

Slug == Name \X (Suffix \union {NoSuffix})
Pending == {"slug", "email", "create"}
Ended == {"created", "conflict", "failed"}

(* The DID is made of the slug, the keypair and the API key are fresh for   *)
(* every attempt: the attempt stands for them.                              *)
Institute == [slug : Slug, email : Email, keys : Attempt]

NotSent == [page |-> "none"]
Submission == [page : Page, name : Name, email : Email]

InstitutesTypeOK ==
  /\ institutes \subseteq Institute
  /\ handler \in [Attempt -> {"new"} \union Pending \union Ended]
  /\ body \in [Attempt -> Submission \union {NotSent}]
  /\ slugOf \in [Attempt -> Slug \union {<<>>}]
  /\ submitState \in [Page -> {"idle", "loading", "success", "error"}]
  /\ request \in [Page -> SUBSET Attempt]

InstitutesInit ==
  /\ institutes = {}
  /\ handler = [a \in Attempt |-> "new"]
  /\ body = [a \in Attempt |-> NotSent]
  /\ slugOf = [a \in Attempt |-> <<>>]
  /\ submitState = [p \in Page |-> "idle"]
  /\ request = [p \in Page |-> {}]

-----------------------------------------------------------------------------
(* register-institute, query by query.                                      *)

Proceeds(a, place) == handler' = [handler EXCEPT ![a] = place]

SlugTaken(a) == \E i \in institutes : i.slug = <<body[a].name, NoSuffix>>

(* A slug that is taken gets a suffix, and is not looked up again; a lookup *)
(* that fails is taken for "not there", so it leaves any slug as it is.     *)
FindSlug(a, suffix) ==
  /\ handler[a] = "slug"
  /\ suffix # NoSuffix => SlugTaken(a)
  /\ slugOf' = [slugOf EXCEPT ![a] = <<body[a].name, suffix>>]
  /\ Proceeds(a, "email")
  /\ UNCHANGED <<institutes, body, form>>

EmailTaken(a) == \E i \in institutes : i.email = body[a].email

FindEmail(a) ==
  /\ handler[a] = "email"
  /\ Proceeds(a, IF EmailTaken(a) THEN "conflict" ELSE "create")
  /\ UNCHANGED <<institutes, slugOf, body, form>>

FindEmailFails(a) ==
  /\ handler[a] = "email"
  /\ Proceeds(a, "create")
  /\ UNCHANGED <<institutes, slugOf, body, form>>

\* Mutant: the email is not unique in the table, as the handler has looked.
SlugIndexAllows(a) == \A i \in institutes : i.slug # slugOf[a]

(* The unique indexes on slug, did and email. *)
IndexesAllow(a) == ~EmailTaken(a) /\ \A i \in institutes : i.slug # slugOf[a]

Row(a) == [slug |-> slugOf[a], email |-> body[a].email, keys |-> a]

Create(a) ==
  /\ handler[a] = "create"
  /\ IndexesAllow(a)
  /\ institutes' = institutes \union {Row(a)}
  /\ Proceeds(a, "created")
  /\ UNCHANGED <<slugOf, body, form>>

(* The process ends, or the INSERT fails or its answer does not arrive. *)
HandlerFails(a) ==
  /\ handler[a] \in Pending
  /\ Proceeds(a, "failed")
  /\ \/ UNCHANGED institutes
     \/ /\ handler[a] = "create"
        /\ IndexesAllow(a)
        /\ institutes' = institutes \union {Row(a)}
  /\ UNCHANGED <<slugOf, body, form>>

-----------------------------------------------------------------------------
(* The form.  The button is disabled while a call is under way, and the     *)
(* form is replaced by the result when it succeeded.                        *)

Shows(p, state) == submitState' = [submitState EXCEPT ![p] = state]

HandleRegister(p, a, name, email) ==
  /\ submitState[p] \in {"idle", "error"}
  /\ handler[a] = "new"
  /\ body' = [body EXCEPT ![a] = [page |-> p, name |-> name, email |-> email]]
  /\ Proceeds(a, "slug")
  /\ Shows(p, "loading")
  /\ request' = [request EXCEPT ![p] = {a}]
  /\ UNCHANGED <<institutes, slugOf>>

FetchAnswers(p) ==
  /\ submitState[p] = "loading"
  /\ \E a \in request[p] :
       /\ handler[a] \in Ended
       /\ Shows(p, IF handler[a] = "created" THEN "success" ELSE "error")
  /\ UNCHANGED <<server, body, request>>

(* fetch rejects; the handler goes on. *)
FetchFails(p) ==
  /\ submitState[p] = "loading"
  /\ Shows(p, "error")
  /\ UNCHANGED <<server, body, request>>

(* "Reloading this page will not bring it back." *)
Reload(p) ==
  /\ submitState[p] # "idle"
  /\ Shows(p, "idle")
  /\ request' = [request EXCEPT ![p] = {}]
  /\ UNCHANGED <<server, body>>

-----------------------------------------------------------------------------
InstitutesNext ==
  \/ \E a \in Attempt :
       \/ \E suffix \in Suffix \union {NoSuffix} : FindSlug(a, suffix)
       \/ FindEmail(a) \/ FindEmailFails(a) \/ Create(a) \/ HandlerFails(a)
  \/ \E p \in Page :
       \/ \E a \in Attempt, name \in Name, email \in Email : HandleRegister(p, a, name, email)
       \/ FetchAnswers(p) \/ FetchFails(p) \/ Reload(p)

InstitutesSpec == InstitutesInit /\ [][InstitutesNext]_instituteVars

-----------------------------------------------------------------------------
(* GET /did/:slug and POST /verify-apikey: whose key a DID resolves to, and *)
(* whom an API key logs in.                                                 *)
ResolveDid(slug) == {i.keys : i \in {j \in institutes : j.slug = slug}}
VerifyApiKey(a) == {i.slug : i \in {j \in institutes : j.keys = a}}

(* Who is shown an identity owns it, whatever other registrations of the    *)
(* same name or email run beside it and whatever queries fail: the DID on   *)
(* the page resolves to the key on the page and to no other, the API key    *)
(* logs in as that DID, and the email is no other institute's; and "already *)
(* registered" is said of an email that is (platform.routes.ts:104-156).    *)
IdentityIsOwned ==
  /\ \A p \in Page, a \in Attempt :
       submitState[p] = "success" /\ a \in request[p] =>
         /\ ResolveDid(slugOf[a]) = {a}
         /\ VerifyApiKey(a) = {slugOf[a]}
         /\ \A i \in institutes : i.email = body[a].email => i.keys = a
  /\ \A a \in Attempt : handler[a] = "conflict" => EmailTaken(a)

(* "Private key delivered once": whoever is registered was shown the key.   *)
(* An answer that is lost refutes it, and the retry is told 409.            *)
KeyIsDelivered ==
  \A i \in institutes :
    handler[i.keys] = "created" => \E p \in Page : i.keys \in request[p]
=============================================================================
