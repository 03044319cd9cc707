------------------------------- MODULE WebTab -------------------------------
(***************************************************************************)
(* One browser tab of the holder: the login form (LoginForm.tsx), the       *)
(* dashboard's behavioural demo (BehavioralAuthDemo.tsx), the API client    *)
(* (api.ts), the prover they share (prover.ts) and the WebSocket provider   *)
(* mounted around every page (WsContext.tsx).                               *)
(*                                                                          *)
(* The three callers that fetch a challenge, prove and submit are the form, *)
(* the demo and the step-up dialog; StepUp.tla has the dialog's screens.    *)
(* The gateway answers a call in any of the ways the callers tell apart.    *)
(***************************************************************************)
EXTENDS Naturals, FiniteSets

CONSTANTS
  Socket,           \* WebSocket objects, used again once they are closed
  NoSocket,         \* null
  MaxStray          \* bound on the retry timers that retryTimer no longer names

ASSUME SocketAssumption == NoSocket \notin Socket /\ MaxStray \in Nat

VARIABLES
  page,             \* "login" or "dashboard"
  secret,           \* is the secret in localStorage?
  token,            \* is there an access token, in memory or in sessionStorage?
  lost,             \* has the token been cleared since the page was loaded? (history)
  screen,           \* the stage of the login form when it waits for nothing
  at,               \* at[c]: what caller c waits for
  http,             \* http[c]: where the call of c is in apiFetch
  worker,           \* the prover's worker: "none", "loading", "ready" or "broken"
  pending,          \* the callers with an entry in _pendingProofs
  deadline,         \* the callers whose 30-second timer is running
  sockets,          \* sockets[s]: the readyState of s
  wsRef,            \* the socket of the provider, or NoSocket
  connecting,       \* connectingRef
  connected,        \* connected, the provider's state
  retry,            \* is the timer that retryTimer names running?
  strays,           \* the retry timers running that retryTimer does not name
  poll              \* is the token poll running?

account == <<page, secret, token, lost>>
callers == <<at, http>>
prover == <<worker, pending, deadline>>
socket == <<sockets, wsRef, connecting, connected, retry, strays, poll>>
tabVars == <<account, screen, callers, prover, socket>>

Caller == {"form", "demo", "modal"}
Wait == {"idle", "register", "challenge", "prove", "submit", "mock"}

TabTypeOK ==
  /\ page \in {"login", "dashboard"}
  /\ secret \in BOOLEAN /\ token \in BOOLEAN /\ lost \in BOOLEAN
  /\ screen \in {"register", "register_done", "login", "success", "register_error", "error"}
  /\ at \in [Caller -> Wait]
  /\ http \in [Caller -> {"none", "sent", "refresh", "again"}]
  /\ worker \in {"none", "loading", "ready", "broken"}
  /\ pending \subseteq Caller /\ deadline \subseteq Caller
  /\ sockets \in [Socket -> {"closed", "connecting", "open", "closing"}]
  /\ wsRef \in Socket \union {NoSocket}
  /\ connecting \in BOOLEAN /\ connected \in BOOLEAN
  /\ retry \in BOOLEAN /\ strays \in 0 .. MaxStray /\ poll \in BOOLEAN

(* The state of a page just loaded, before the provider's effect: nothing   *)
(* survives but the two storages.                                           *)
FreshPage(p) ==
  /\ page' = p /\ lost' = FALSE
  /\ screen' = IF secret THEN "login" ELSE "register"
  /\ at' = [c \in Caller |-> "idle"]
  /\ http' = [c \in Caller |-> "none"]
  /\ worker' = "none" /\ pending' = {} /\ deadline' = {}

(* A first visit: the effect of the provider finds no token and polls.      *)
TabInit ==
  /\ page = "login" /\ secret = FALSE /\ token = FALSE /\ lost = FALSE
  /\ screen = "register"
  /\ at = [c \in Caller |-> "idle"]
  /\ http = [c \in Caller |-> "none"]
  /\ worker = "none" /\ pending = {} /\ deadline = {}
  /\ sockets = [s \in Socket |-> "closed"]
  /\ wsRef = NoSocket /\ connecting = FALSE /\ connected = FALSE
  /\ retry = FALSE /\ strays = 0 /\ poll = TRUE

-----------------------------------------------------------------------------
(* The WebSocket provider.                                                  *)

(* May connect() open a socket, when the sockets are ss? *)
Connects(ss) ==
  /\ \A s \in Socket : wsRef = s => ss[s] # "open"
  /\ ~connecting
  /\ token

(* connect(), run when the sockets are ss. *)
Connect(ss) ==
  \/ /\ ~Connects(ss)
     /\ sockets' = ss
     /\ UNCHANGED <<wsRef, connecting>>
  \/ /\ Connects(ss)
     /\ \E s \in Socket :
          /\ ss[s] = "closed"
          /\ sockets' = [ss EXCEPT ![s] = "connecting"]
          /\ wsRef' = s
     /\ connecting' = TRUE

PollTicks ==
  /\ poll
  /\ token
  /\ Connect(sockets)
  /\ UNCHANGED <<account, screen, callers, prover, connected, retry, strays, poll>>

OnOpen(s) ==
  /\ sockets[s] = "connecting"
  /\ sockets' = [sockets EXCEPT ![s] = "open"]
  /\ connecting' = FALSE
  /\ connected' = TRUE
  /\ poll' = FALSE
  /\ UNCHANGED <<account, screen, callers, prover, wsRef, retry, strays>>

(* The gateway, or the network, starts to close a socket. *)
PeerCloses(s) ==
  /\ sockets[s] = "open"
  /\ sockets' = [sockets EXCEPT ![s] = "closing"]
  /\ UNCHANGED <<account, screen, callers, prover,
                 wsRef, connecting, connected, retry, strays, poll>>

\* Mutant: a socket that never opened is left to the token poll.
OnCloseAfterOpen(s) ==
  /\ sockets[s] # "closed"
  /\ retry => strays < MaxStray
  /\ sockets' = [sockets EXCEPT ![s] = "closed"]
  /\ connecting' = FALSE
  /\ connected' = FALSE
  /\ wsRef' = NoSocket
  /\ retry' = (retry \/ sockets[s] # "connecting")
  /\ strays' = IF retry THEN strays + 1 ELSE strays
  /\ UNCHANGED <<account, screen, callers, prover, poll>>

(* A socket that never opened, or that only the network closes, needs no     *)
(* handshake.  onerror, when there is one, runs just before onclose.        *)
OnClose(s) ==
  /\ sockets[s] # "closed"
  /\ retry => strays < MaxStray
  /\ sockets' = [sockets EXCEPT ![s] = "closed"]
  /\ connecting' = FALSE
  /\ connected' = FALSE
  /\ wsRef' = NoSocket
  /\ retry' = TRUE
  /\ strays' = IF retry THEN strays + 1 ELSE strays
  /\ UNCHANGED <<account, screen, callers, prover, poll>>

RetryFires ==
  /\ \/ retry /\ retry' = FALSE /\ UNCHANGED strays
     \/ strays > 0 /\ strays' = strays - 1 /\ UNCHANGED retry
  /\ Connect(sockets)
  /\ UNCHANGED <<account, screen, callers, prover, connected, poll>>

(* reconnect(): the timer that is named is cleared, the socket is closed and *)
(* another opened if connect() agrees.                                      *)
Closing ==
  IF wsRef # NoSocket /\ sockets[wsRef] \in {"connecting", "open"}
  THEN [sockets EXCEPT ![wsRef] = "closing"]
  ELSE sockets

Reconnect ==
  /\ retry' = FALSE
  /\ Connect(Closing)
  /\ poll' = (poll \/ ~token)
  /\ UNCHANGED <<connected, strays>>

(* The buttons of the demo that call reconnect(), shown or effective only     *)
(* when it is not connected.                                                *)
PressReconnect ==
  /\ page = "dashboard" /\ ~connected
  /\ Reconnect
  /\ UNCHANGED <<account, screen, callers, prover>>

(* The page is loaded again: a link, an href of the dialog, or the reload    *)
(* button.  The effect of the provider connects, or polls for a token.      *)
Load(p) ==
  /\ FreshPage(p)
  /\ IF token
     THEN \E s \in Socket :
            /\ sockets' = [t \in Socket |-> IF t = s THEN "connecting" ELSE "closed"]
            /\ wsRef' = s
     ELSE /\ sockets' = [t \in Socket |-> "closed"]
          /\ wsRef' = NoSocket
  /\ connecting' = token
  /\ poll' = ~token
  /\ connected' = FALSE /\ retry' = FALSE /\ strays' = 0
  /\ UNCHANGED <<secret, token>>

-----------------------------------------------------------------------------
(* The prover: one worker, its pending proofs and a timer for each.         *)

(* generateAuthProof, called when nothing of c is pending. *)
AskForProof(c) ==
  /\ worker' = IF worker = "none" THEN "loading" ELSE worker
  /\ pending' = pending \union {c}
  /\ deadline' = deadline \union {c}

(* The proofs of cs are resolved or rejected: their callers go on from to[c]. *)
GoOn(cs, to) ==
  /\ at' = [c \in Caller |-> IF c \in cs THEN to[c] ELSE at[c]]
  /\ http' = [c \in Caller |-> IF c \in cs \ {"form"} /\ to[c] # "idle" THEN "sent" ELSE http[c]]

(* What a rejected proof leads to: the demo falls back to a made-up proof.  *)
Rejected == [c \in Caller |-> IF c = "demo" THEN "mock" ELSE "idle"]

(* importScripts has run, or has thrown. *)
WorkerLoads ==
  /\ worker = "loading"
  /\ worker' \in {"ready", "broken"}
  /\ UNCHANGED <<account, screen, callers, pending, deadline, socket>>

OnMessage(c) ==
  /\ worker = "ready"
  /\ c \in pending
  /\ pending' = pending \ {c} /\ deadline' = deadline \ {c}
  /\ \/ GoOn({c}, [d \in Caller |-> "submit"]) /\ UNCHANGED screen
     \/ /\ GoOn({c}, Rejected)
        /\ screen' = IF c = "form" THEN "error" ELSE screen
  /\ UNCHANGED <<account, worker, socket>>

OnError ==
  /\ worker = "broken"
  /\ GoOn(pending, Rejected)
  /\ screen' = IF "form" \in pending THEN "error" ELSE screen
  /\ pending' = {} /\ deadline' = deadline \ pending
  /\ worker' = "none"
  /\ UNCHANGED <<account, socket>>

\* Mutant: the entry is dropped, and its promise with it.
TimesOutSilently(c) ==
  /\ c \in deadline
  /\ pending' = pending \ {c} /\ deadline' = deadline \ {c}
  /\ UNCHANGED <<account, screen, callers, worker, socket>>

TimesOut(c) ==
  /\ c \in deadline
  /\ pending' = pending \ {c} /\ deadline' = deadline \ {c}
  /\ GoOn({c}, Rejected)
  /\ screen' = IF c = "form" THEN "error" ELSE screen
  /\ UNCHANGED <<account, worker, socket>>

-----------------------------------------------------------------------------
(* The login form: handleRegister and handleLogin, on the login page.       *)

FormIdle == page = "login" /\ at["form"] = "idle"

HandleRegister ==
  /\ FormIdle
  /\ screen = "register"
  /\ at' = [at EXCEPT !["form"] = "register"]
  /\ UNCHANGED <<account, screen, http, prover, socket>>

RegisterSucceeds ==
  /\ at["form"] = "register"
  /\ at' = [at EXCEPT !["form"] = "idle"]
  /\ secret' = TRUE
  /\ screen' = "register_done"
  /\ UNCHANGED <<page, token, lost, http, prover, socket>>

(* "Sign in now", "Authenticate": handleLogin. *)
HandleLogin ==
  /\ FormIdle
  /\ screen \in {"register_done", "login"}
  /\ IF secret
     THEN at' = [at EXCEPT !["form"] = "challenge"] /\ screen' = "login"
     ELSE screen' = "register" /\ UNCHANGED at
  /\ UNCHANGED <<account, http, prover, socket>>

(* The buttons that only change the screen. *)
TurnTo(s) ==
  /\ FormIdle
  /\ \/ screen = "login" /\ s = "register"
     \/ screen = "register_error" /\ s = "register"
     \/ screen = "error" /\ s = "login"
  /\ screen' = s
  /\ UNCHANGED <<account, callers, prover, socket>>

FormChallenged ==
  /\ at["form"] = "challenge"
  /\ at' = [at EXCEPT !["form"] = "prove"]
  /\ AskForProof("form")
  /\ UNCHANGED <<account, screen, http, socket>>

(* The session begins and the router shows the dashboard; the provider stays. *)
LoggedIn ==
  /\ at["form"] = "submit"
  /\ at' = [at EXCEPT !["form"] = "idle"]
  /\ screen' = "success"
  /\ token' = TRUE
  /\ page' = "dashboard"
  /\ UNCHANGED <<secret, lost, http, prover, socket>>

FormFails ==
  /\ at["form"] \in {"register", "challenge", "submit"}
  /\ at' = [at EXCEPT !["form"] = "idle"]
  /\ screen' = IF at["form"] = "register" THEN "register_error" ELSE "error"
  /\ UNCHANGED <<account, http, prover, socket>>

-----------------------------------------------------------------------------
(* Re-authentication by the demo or the step-up dialog, through apiFetch.   *)

ReAuth(c) ==
  /\ c # "form"
  /\ at[c] = "idle"
  /\ secret
  /\ c = "demo" => page = "dashboard"
  /\ at' = [at EXCEPT ![c] = "challenge"]
  /\ http' = [http EXCEPT ![c] = "sent"]
  /\ UNCHANGED <<account, screen, prover, socket>>

Calling(c) == c # "form" /\ at[c] \in {"challenge", "submit", "mock"}

(* The call of c throws: the catch of its caller. *)
Throws(c) ==
  /\ at' = [at EXCEPT ![c] = "idle"]
  /\ http' = [http EXCEPT ![c] = "none"]
  /\ UNCHANGED screen

(* The gateway answers 2xx; no made-up proof gets that. *)
Succeeds(c) ==
  /\ Calling(c)
  /\ http[c] \in {"sent", "again"}
  /\ \/ /\ at[c] = "challenge"
        /\ at' = [at EXCEPT ![c] = "prove"]
        /\ AskForProof(c)
     \/ /\ at[c] = "submit"
        /\ at' = [at EXCEPT ![c] = "idle"]
        /\ UNCHANGED prover
  /\ http' = [http EXCEPT ![c] = "none"]
  /\ UNCHANGED <<account, screen, socket>>

(* The gateway answers with an error, or nobody does. *)
Fails(c) ==
  /\ Calling(c)
  /\ http[c] \in {"sent", "again"}
  /\ Throws(c)
  /\ UNCHANGED <<account, prover, socket>>

(* The gateway answers 401: refreshTokens(), once and with a token only. *)
Unauthorized(c) ==
  /\ Calling(c)
  /\ http[c] = "sent"
  /\ token
  /\ http' = [http EXCEPT ![c] = "refresh"]
  /\ UNCHANGED <<account, screen, at, prover, socket>>

Refreshed(c) ==
  /\ http[c] = "refresh"
  /\ token' = TRUE
  /\ http' = [http EXCEPT ![c] = "again"]
  /\ UNCHANGED <<page, secret, lost, screen, at, prover, socket>>

(* The refresh is answered with an error.  One that is answered 401 is        *)
(* itself refreshed, over and over, until the rate limiter answers 429.     *)
RefreshFails(c) ==
  /\ http[c] = "refresh"
  /\ token' = FALSE
  /\ lost' = TRUE
  /\ Throws(c)
  /\ UNCHANGED <<page, secret, prover, socket>>

-----------------------------------------------------------------------------
Provider ==
  \/ PollTicks \/ RetryFires \/ PressReconnect
  \/ \E s \in Socket : OnOpen(s) \/ PeerCloses(s) \/ OnClose(s)

Prove == WorkerLoads \/ OnError \/ \E c \in Caller : OnMessage(c) \/ TimesOut(c)

Form ==
  \/ HandleRegister \/ RegisterSucceeds \/ HandleLogin \/ FormChallenged \/ LoggedIn \/ FormFails
  \/ \E s \in {"register", "login"} : TurnTo(s)

Call(c) ==
  ReAuth(c) \/ Succeeds(c) \/ Fails(c) \/ Unauthorized(c) \/ Refreshed(c) \/ RefreshFails(c)

TabNext ==
  \/ Provider \/ Prove \/ Form
  \/ \E c \in Caller : Call(c)
  \/ \E p \in {"login", "dashboard"} : Load(p)

TabSpec == TabInit /\ [][TabNext]_tabVars

(* Browsers run timers; the gateway, or the network, answers every call, and *)
(* the limiter of /auth/refresh ends a refresh that is refused for ever.    *)
FairTabSpec ==
  /\ TabSpec
  /\ \A c \in Caller :
       /\ WF_tabVars(TimesOut(c))
       /\ WF_tabVars(Fails(c))
       /\ WF_tabVars(RefreshFails(c))
  /\ WF_tabVars(FormFails)

-----------------------------------------------------------------------------
(* A tab that has a token, and has not lost one since the page was loaded,    *)
(* always has a socket, a retry or the poll that gives it one: no order of   *)
(* reconnect(), retries, polls and late close events (WsContext.tsx) leaves  *)
(* the holder signed in and out of reach of STEP_UP_REQUIRED.               *)
NeverDeaf ==
  token /\ ~lost =>
    poll \/ retry \/ strays > 0 \/ \E s \in Socket : sockets[s] # "closed"

(* Whoever waits for a challenge, a proof or an answer stops waiting: a       *)
(* worker that fails to load, hangs or answers too late (prover.ts) and a    *)
(* refresh that is refused (api.ts) leave no dialog busy for ever.          *)
CallersSettle == \A c \in Caller : at[c] # "idle" ~> at[c] = "idle"
=============================================================================
