---------------------------- MODULE MobileClient ----------------------------
(***************************************************************************)
(* The session of the mobile application: http_client.dart, whose           *)
(* interceptor refreshes tokens when a call is answered 401,                *)
(* secure_storage.dart, which keeps them, auth_bloc.dart, whose handlers    *)
(* run concurrently, login_screen.dart, which offers the buttons, and       *)
(* ws_telemetry.dart, which keeps a WebSocket open.                         *)
(*                                                                          *)
(* The gateway is as much of Session as its answers depend on.  A session   *)
(* and its two tokens are a number.  The writes of one Future.wait are      *)
(* handed to the platform together: only a crash comes between them.        *)
(***************************************************************************)
EXTENDS Naturals, FiniteSets

CONSTANTS
  Call,             \* the HTTP calls
  MaxSession        \* bound on the sessions ever issued

ASSUME MaxSessionAssumption == MaxSession \in Nat

VARIABLES
  issued,           \* the sessions issued are 1 .. issued
  live,             \* the sessions that are not revoked
  expired,          \* the sessions whose access token has expired
  rotated,          \* the sessions whose refresh token was exchanged
  secret,           \* SecureStorage: is there a secret?
  access, refresh,  \* SecureStorage: the tokens, 0 when there is no such key
  call,             \* call[c]: where a call is
  purpose,          \* purpose[c]: "get", "register", "login" or "logout"
  token,            \* token[c]: the access token in its header
  new,              \* new[c]: the session that c is given or presents for refresh
  refreshing,       \* _isRefreshing
  screen,           \* what the user sees, see Offers
  wanted,           \* has connect() been called since disconnect()?
  channel,          \* is _channel open?
  timer,            \* is a reconnect timer running?
  forgotten,        \* open channels that connect() or a timer has replaced
  crashed,          \* has the application died? (history)
  replayed          \* has a rotated refresh token been presented? (history)

gateway == <<issued, live, expired, rotated>>
tokens == <<access, refresh>>
storage == <<secret, tokens>>
calls == <<call, purpose, token, new>>
socket == <<wanted, channel, timer, forgotten>>
history == <<crashed, replayed>>
mobileVars == <<gateway, storage, calls, refreshing, screen, socket, history>>

Number == 0 .. MaxSession
Step ==
  {"asked", "sent", "unauthorized", "read", "refresh", "save", "retry", "clear", "done", "failed"}

(* The buttons of a screen: the first screen without a secret, one that     *)
(* waits, the login button, an error, and the screens after the login.      *)
Offers ==
  [noSecret |-> {"register"}, working |-> {}, login |-> {"login"},
   error |-> {"login", "register"}, dashboard |-> {"get", "logout"}]

MobileTypeOK ==
  /\ issued \in Number
  /\ live \subseteq 1 .. issued /\ expired \subseteq 1 .. issued /\ rotated \subseteq 1 .. issued
  /\ secret \in BOOLEAN /\ access \in Number /\ refresh \in Number
  /\ call \in [Call -> Step \union {"idle", "over"}]
  /\ purpose \in [Call -> {"get", "register", "login", "logout"}]
  /\ token \in [Call -> Number] /\ new \in [Call -> Number]
  /\ refreshing \in BOOLEAN
  /\ screen \in DOMAIN Offers
  /\ wanted \in BOOLEAN /\ channel \in BOOLEAN /\ timer \in BOOLEAN
  /\ forgotten \in Nat
  /\ crashed \in BOOLEAN /\ replayed \in BOOLEAN

MobileInit ==
  /\ issued = 0 /\ live = {} /\ expired = {} /\ rotated = {}
  /\ secret = FALSE /\ access = 0 /\ refresh = 0
  /\ call = [c \in Call |-> "idle"]
  /\ purpose = [c \in Call |-> "get"]
  /\ token = [c \in Call |-> 0]
  /\ new = [c \in Call |-> 0]
  /\ refreshing = FALSE
  /\ screen = "noSecret"
  /\ wanted = FALSE /\ channel = FALSE /\ timer = FALSE /\ forgotten = 0
  /\ crashed = FALSE /\ replayed = FALSE

-----------------------------------------------------------------------------
CallGoes(c, from, to) == call[c] = from /\ call' = [call EXCEPT ![c] = to]

(* onRequest: the header holds the access token there is. *)
Send(c, k) ==
  /\ k \in Offers[screen]
  /\ CallGoes(c, "idle", "sent")
  /\ purpose' = [purpose EXCEPT ![c] = k]
  /\ token' = [token EXCEPT ![c] = access]
  /\ UNCHANGED new

(* Any call of the screens after the login. *)
Get(c) ==
  /\ Send(c, "get")
  /\ UNCHANGED <<gateway, storage, refreshing, screen, socket, history>>

(* _onRegisterDevice: a new secret, of which the commitment is sent. *)
Register(c) ==
  /\ Send(c, "register")
  /\ screen' = "working"
  /\ UNCHANGED <<gateway, storage, refreshing, socket, history>>

(* _onLoginRequested: the button stays until the secret has been read. *)
Login(c) ==
  /\ "login" \in Offers[screen]
  /\ CallGoes(c, "idle", "asked")
  /\ purpose' = [purpose EXCEPT ![c] = "login"]
  /\ UNCHANGED <<gateway, storage, token, new, refreshing, screen, socket, history>>

(* The login screen shows s, unless another login has led away from it. *)
Shows(s) == screen' = IF screen = "dashboard" THEN "dashboard" ELSE s

(* ... and then, up to the proof that is submitted. *)
Submit(c) ==
  /\ secret
  /\ CallGoes(c, "asked", "sent")
  /\ token' = [token EXCEPT ![c] = access]
  /\ Shows("working")
  /\ UNCHANGED <<gateway, storage, purpose, new, refreshing, socket, history>>

(* There is no secret, after a registration that failed. *)
NoSecret(c) ==
  /\ ~secret
  /\ CallGoes(c, "asked", "over")
  /\ Shows("noSecret")
  /\ UNCHANGED <<gateway, storage, purpose, token, new, refreshing, socket, history>>

(* disconnect() *)
Disconnect == wanted' = FALSE /\ channel' = FALSE /\ timer' = FALSE /\ UNCHANGED forgotten

(* _onLogout; the dashboard stays until the gateway has answered. *)
Logout(c) ==
  /\ Send(c, "logout")
  /\ Disconnect
  /\ UNCHANGED <<gateway, storage, refreshing, screen, history>>

-----------------------------------------------------------------------------
Usable(g) == g \in live \ expired

(* What the gateway does for a call that it admits. *)
Admit(c, g) ==
  \/ purpose[c] = "register" /\ UNCHANGED <<gateway, new>>
  \/ purpose[c] = "get" /\ Usable(g) /\ UNCHANGED <<gateway, new>>
  \/ purpose[c] = "logout" /\ Usable(g) /\ live' = live \ {g}
     /\ UNCHANGED <<issued, expired, rotated, new>>
  \/ purpose[c] = "login" /\ issued < MaxSession
     /\ issued' = issued + 1 /\ live' = live \union {issued + 1}
     /\ new' = [new EXCEPT ![c] = issued + 1]
     /\ UNCHANGED <<expired, rotated>>

(* The answer of a call, 401 or another failure; its header is not looked   *)
(* at again.                                                                *)
Answered(c) ==
  /\ \/ CallGoes(c, "sent", "done") /\ Admit(c, token[c])
     \/ CallGoes(c, "sent", "failed") /\ UNCHANGED <<gateway, new>>
     \/ (purpose[c] = "login" \/ (purpose[c] # "register" /\ ~Usable(token[c]))) /\ CallGoes(c, "sent", "unauthorized")
        /\ UNCHANGED <<gateway, new>>
  /\ token' = [token EXCEPT ![c] = 0]
  /\ UNCHANGED <<storage, purpose, refreshing, screen, socket, history>>

\* Mutant: every 401 starts a refresh.
RefreshAnyhow(c) ==
  /\ CallGoes(c, "unauthorized", "read")
  /\ refreshing' = TRUE
  /\ UNCHANGED <<gateway, storage, purpose, token, new, screen, socket, history>>

(* onError: one refresh at a time; a 401 that comes meanwhile is passed on. *)
OnUnauthorized(c) ==
  /\ CallGoes(c, "unauthorized", IF refreshing THEN "failed" ELSE "read")
  /\ refreshing' = TRUE
  /\ UNCHANGED <<gateway, storage, purpose, token, new, screen, socket, history>>

ReadRefreshToken(c) ==
  /\ CallGoes(c, "read", IF refresh = 0 THEN "clear" ELSE "refresh")
  /\ new' = [new EXCEPT ![c] = refresh]
  /\ UNCHANGED <<gateway, storage, purpose, token, refreshing, screen, socket, history>>

(* POST /auth/refresh.  A revoked token ends every session.  An error or a  *)
(* lost answer leads to the catch block.                                    *)
Refresh(c) ==
  /\ LET g == new[c] IN
     \/ /\ g \in live /\ issued < MaxSession
        /\ CallGoes(c, "refresh", "save") \/ CallGoes(c, "refresh", "clear")
        /\ issued' = issued + 1
        /\ live' = (live \ {g}) \union {issued + 1}
        /\ rotated' = rotated \union {g}
        /\ new' = [new EXCEPT ![c] = issued + 1]
        /\ UNCHANGED <<expired, replayed>>
     \/ /\ g \notin live
        /\ CallGoes(c, "refresh", "clear")
        /\ live' = {}
        /\ replayed' = (replayed \/ g \in rotated)
        /\ UNCHANGED <<issued, expired, rotated, new>>
     \/ CallGoes(c, "refresh", "clear") /\ UNCHANGED <<gateway, new, replayed>>
  /\ UNCHANGED <<storage, purpose, token, refreshing, screen, socket, crashed>>

Save(c) ==
  /\ CallGoes(c, "save", "retry")
  /\ access' = new[c] /\ refresh' = new[c] /\ UNCHANGED secret
  /\ UNCHANGED <<gateway, purpose, token, new, refreshing, screen, socket, history>>

(* The call is sent again with the access token there is, and with the new  *)
(* one if the storage was cleared meanwhile; any failure is caught too.     *)
Retry(c) ==
  /\ \/ CallGoes(c, "retry", "done") /\ refreshing' = FALSE
        /\ Admit(c, IF access = 0 THEN new[c] ELSE access)
     \/ CallGoes(c, "retry", "clear") /\ UNCHANGED <<gateway, new, refreshing>>
  /\ UNCHANGED <<storage, purpose, token, screen, socket, history>>

(* The catch block: clearSession; finally the flag is lowered. *)
Clear(c) ==
  /\ CallGoes(c, "clear", "failed")
  /\ access' = 0 /\ refresh' = 0 /\ UNCHANGED secret
  /\ refreshing' = FALSE
  /\ UNCHANGED <<gateway, purpose, token, new, screen, socket, history>>

-----------------------------------------------------------------------------
(* _openConnection replaces _channel; the channel it held stays open. *)
Open ==
  /\ channel' = TRUE
  /\ forgotten' = IF channel THEN forgotten + 1 ELSE forgotten

(* _onLoginRequested, step 4: tokens saved, connect() called. *)
LoggedIn(c) ==
  /\ purpose[c] = "login" /\ CallGoes(c, "done", "over")
  /\ access' = new[c] /\ refresh' = new[c] /\ UNCHANGED secret
  /\ wanted' = TRUE /\ Open /\ UNCHANGED timer
  /\ screen' = "dashboard"
  /\ UNCHANGED <<gateway, purpose, token, new, refreshing, history>>

(* _onRegisterDevice: the secret is saved once the gateway has answered. *)
Registered(c) ==
  /\ purpose[c] = "register" /\ CallGoes(c, "done", "over")
  /\ secret' = TRUE /\ UNCHANGED tokens
  /\ screen' = "login"
  /\ UNCHANGED <<gateway, purpose, token, new, refreshing, socket, history>>

RegisterFailed(c) ==
  /\ purpose[c] = "register" /\ CallGoes(c, "failed", "over")
  /\ screen' = "error"
  /\ UNCHANGED <<gateway, storage, purpose, token, new, refreshing, socket, history>>

LoginFailed(c) ==
  /\ purpose[c] = "login" /\ CallGoes(c, "failed", "over")
  /\ Shows("error")
  /\ UNCHANGED <<gateway, storage, purpose, token, new, refreshing, socket, history>>

(* _onLogout, whether or not the gateway was reached: clearSession. *)
LoggedOut(c) ==
  /\ purpose[c] = "logout" /\ (CallGoes(c, "done", "over") \/ CallGoes(c, "failed", "over"))
  /\ access' = 0 /\ refresh' = 0 /\ UNCHANGED secret
  /\ screen' = "login"
  /\ UNCHANGED <<gateway, purpose, token, new, refreshing, socket, history>>

-----------------------------------------------------------------------------
\* Mutant: the reconnect is scheduled first and cleaned up with the rest.
ScheduledThenCleanedUp ==
  /\ \/ channel /\ UNCHANGED forgotten
     \/ forgotten > 0 /\ forgotten' = forgotten - 1
  /\ channel' = FALSE
  /\ timer' = FALSE
  /\ UNCHANGED <<gateway, storage, calls, refreshing, screen, wanted, history>>

(* _onClose, of the channel or of a forgotten one: either way _cleanup()    *)
(* closes _channel and cancels the timer; then a reconnect is scheduled.    *)
OnClose ==
  /\ \/ channel /\ UNCHANGED forgotten
     \/ forgotten > 0 /\ forgotten' = forgotten - 1
  /\ channel' = FALSE
  /\ timer' = wanted
  /\ UNCHANGED <<gateway, storage, calls, refreshing, screen, wanted, history>>

TimerFires ==
  /\ timer
  /\ timer' = FALSE
  /\ Open
  /\ UNCHANGED <<gateway, storage, calls, refreshing, screen, wanted, history>>

-----------------------------------------------------------------------------
AccessExpires(g) ==
  /\ g \in (1 .. issued) \ expired
  /\ expired' = expired \union {g}
  /\ UNCHANGED <<issued, live, rotated, storage, calls, refreshing, screen, socket, history>>

(* The application dies; of two tokens one may have been written.  It       *)
(* starts again with _onInitialised, which only looks for a secret.         *)
Crash ==
  /\ \E c \in Call : call[c] \notin {"idle", "over"}
  /\ \/ UNCHANGED storage
     \/ \E c \in Call : call[c] = "save" /\ access' = new[c] /\ UNCHANGED <<secret, refresh>>
  /\ call' = [c \in Call |-> IF call[c] = "idle" THEN "idle" ELSE "over"]
  /\ refreshing' = FALSE
  /\ screen' = IF secret THEN "login" ELSE "noSecret"
  /\ Disconnect
  /\ crashed' = TRUE
  /\ UNCHANGED <<gateway, purpose, token, new, replayed>>

MobileNext ==
  \/ \E c \in Call :
       \/ Get(c) \/ Register(c) \/ Login(c) \/ Submit(c) \/ NoSecret(c) \/ Logout(c)
       \/ Answered(c) \/ OnUnauthorized(c) \/ ReadRefreshToken(c) \/ Refresh(c)
       \/ Save(c) \/ Retry(c) \/ Clear(c)
       \/ Registered(c) \/ RegisterFailed(c)
       \/ LoggedIn(c) \/ LoginFailed(c) \/ LoggedOut(c)
  \/ OnClose \/ TimerFires
  \/ \E g \in 1 .. MaxSession : AccessExpires(g)
  \/ Crash

MobileSpec == MobileInit /\ [][MobileNext]_mobileVars

-----------------------------------------------------------------------------
(* As long as the application does not die, it never presents a refresh     *)
(* token that the gateway has exchanged, which would end every session of   *)
(* the user: not when several calls are answered 401 at once, when the      *)
(* answer of a refresh is lost, or when logins and logouts write the        *)
(* storage meanwhile (http_client.dart:92-123).                             *)
NoReplayWithoutCrash == replayed => crashed

(* While the telemetry connection is wanted there is a channel or a timer   *)
(* that will open one, whatever channels close in which order               *)
(* (ws_telemetry.dart:134-158).                                             *)
NeverDeaf == wanted => channel \/ timer
=============================================================================
