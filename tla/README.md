# A TLA+ model of ZK-Auth

ZK-Auth authenticates a user by a zero-knowledge proof of knowledge of a secret,
keeps the resulting session alive with rotating tokens, and re-checks the user's
behaviour with an LSTM while the session lasts. Around this core a user holds
credentials, proves claims about them to verifiers, and decides on verification
requests. This directory holds TLA+
modules translated from the source, TLC configurations that check them on small
instances, and TLAPS proofs for every value of their constants. Paths below are
relative to `src/`; `backend/src` is shortened to `B`.

## 1. The system

### Components

| Component | State it keeps | Operations | Talks to |
|---|---|---|---|
| Challenge service, `B/services/zkp/challenge.service.ts` | Redis `challenge:{id}` (TTL), PG `zkp_challenges.status` | `issue`, `fetch`, `consume` | Redis, PG |
| Nullifier service, `B/services/zkp/nullifier.service.ts` | Redis SET `nullifiers`, Redis lock per hash (5 s), PG `nullifiers` with two unique indexes | `exists`, `register` (lock, SADD, INSERT, roll back, release) | Redis, PG |
| Proof endpoints, `B/controllers/auth.controller.ts`, `session.controller.ts` | none | `postChallenge`, `postVerify`, `postStepUpChallenge`, `postStepUpResolve` | the two services above, `zkpService`, sessions, OAuth, risk |
| Session service, `B/services/session/session.service.ts`, `B/middleware/auth.middleware.ts` | PG `sessions`, Redis `session:{id}` | `issue`, `rotate`, `revokeSession`, `_revokeAllForUser`, `verifyAccessToken` | Redis, PG |
| Risk service and gate, `risk.service.ts`, `riskGate.middleware.ts` | risk fields of the Redis session entry, Redis `step_up:{id}` | `processScore`, `resolveStepUp`, gate | Redis, WebSocket push |
| Circuit breaker, `B/grpc/circuitBreaker.ts` | state, failure counter, probing flag, last failure time | `call` | wraps calls to the ML service |
| Behaviour streams, `B/grpc/behaviorClient.ts`, `B/websocket/*` | registry of gRPC streams, backpressure queue per stream, registry of sockets | open, write, close, drain; upgrade, message, cleanup, shutdown | ML service, risk service, telemetry |
| Telemetry, `B/services/telemetry/telemetry.service.ts` | buffers, timers | `bufferEvent`, `flushBuffer`, `writeRiskScore`, `flush` | TimescaleDB |
| Key recovery, `B/services/auth/recovery.service.ts` | PG `recovery_codes`, `users.status`, `users.commitment` | `generateForUser`, `executeRecovery` | PG, sessions |
| OAuth, `B/services/oauth/oauth.service.ts` | PG authorization codes | authorize, issue code, exchange | PG, proof endpoints, sessions |
| Verification requests, `B/controllers/verifyRequest.controller.ts`, `B/services/verifyRequest/notifier.service.ts` | PG requests with a status, the session that watches each | send, list, approve, reject, watch, deliver | Redis pub/sub, WebSocket push, the mobile inbox |
| Credentials, disclosure, Merkle trees, `B/services/credential/*`, issuer and verifier endpoints | PG credentials, Redis proof requests (TTL) | issue, revoke, request a proof, verify a claim | PG, Redis, DID registry |
| ML service, `ml-service/src` | window and EMA state per session, a thread per stream, a reaper | stream events, score, evict | the backend's streams |
| Rate limiter, `B/middleware/rateLimit.middleware.ts` | Redis counter per endpoint and client (TTL) | INCR, EXPIRE, TTL | Redis; mounted before the proof and account endpoints |
| Platform, `B/routes/platform.routes.ts`, `web/src/app/platform/page.tsx` | PG `institutes`; the form | register an institute, resolve its DID, check its API key | PG |
| Verifier's page, `web/src/app/verifier/page.tsx` | one proof request, its result, fetches under way | generate, simulate, poll, take pushes, reset | the HTTP API, WebSocket |
| Risk monitor, `web/src/components/BehavioralAuthDemo.tsx` | phase, a ref that sends events, timers | collect, imitate an attacker, lock, re-authenticate | WebSocket, the prover, the HTTP API |
| Web tab, `web/src/contexts/WsContext.tsx`, `web/src/lib/*`, `web/src/components/*` | tokens, one socket with its retries, the prover's worker, dialogs | register, log in, re-authenticate, reconnect | the HTTP API, WebSocket |
| Mobile application, `mobile/lib` | secret and tokens in secure storage, one telemetry socket, an inbox | register, log in and out, refresh, decide | the HTTP API, WebSocket |

PROJECT.json lists every other part; section 6 says why it is not modelled.

### Interactions

* `postVerify` and `postStepUpResolve` answer the same kind of challenge with the
  same two gates, the challenge and the nullifier, **in opposite orders**, and
  share both stores.
* A session is a PG row; Redis holds a copy that `verifyAccessToken` believes
  without asking PG. Four writers touch the copy: `issue`, the re-seed of
  `verifyAccessToken`, the risk service, and the revocations that delete it.
* Behaviour events go socket -> breaker -> gRPC stream -> ML service, and scores
  come back through `riskService.processScore`, which writes the session copy.
* A high score sets the pending step-up, which the gate reads, and marks the
  session copy; a resolution takes both back. The browser's modal hears of it over
  a socket that may be closed at that moment.
* A decision on a verification request goes PG -> Redis pub/sub -> notifier ->
  the socket of whoever watches, each hop on its own.
* The rate limiter stands before the proof endpoints and shares nothing with them. A
  crash of any process that serves a request may strike it too.
* The verifier's page generates a proof request and waits for the holder; its watch is
  never registered (finding 20), so what it hears comes from its own calls.
* The clients hold copies of what the gateway decides, tokens and prompts, and
  repeat calls that were answered 401.
* Node runs one handler at a time but switches at every `await`; several backend
  processes share Redis and PG. The unit of atomicity everywhere is one call to
  one store. The ML service runs threads that switch anywhere; a browser tab and
  the application run callbacks to their next `await`.

### What is hard

Two stores without a common transaction; locks and keys that expire under their
owner; check-then-act over two queries; caches that outlive what they cache;
callbacks of a replaced object; calls that settle in another state than the one
they were made in; timers that nothing cancels; a process that stops between two
calls. The `hazards` of PROJECT.json name each place by line, with the properties
that cover it.

## 2. Modules

| Module | Models |
|---|---|
| `OneTimeProof` | the promise: of all requests that answer one challenge at most one is accepted |
| `ZkpLogin` | challenges, nullifiers and both proof endpoints, one action per store call |
| `RateLimiter` | the fixed-window counter before the routes |
| `LoginProofs` | theorems about `ZkpLogin`, `WebTab` and `RateLimiter` |
| `CircuitBreaker` | `CircuitBreaker.call` |
| `Session`, `SessionHistory` | one user's sessions, and a history variable for one question |
| `SessionProofs` | theorems about `Session` and `MobileClient` |
| `Account` | registration, recovery and OAuth codes on PostgreSQL |
| `Institutes` | registration of institutes: the handler's queries and the form |
| `AccountProofs` | theorems about `Account` and `Institutes` |
| `Telemetry` | the operations of the telemetry buffer |
| `BehaviorStreams`, `BehaviorStreamsProofs` | sockets, gRPC streams, `Telemetry` and the shutdown, and theorems |
| `SlidingWindows` | the ML service's registry, threads and reaper |
| `MlPathProofs` | theorems about `CircuitBreaker` and `SlidingWindows` |
| `StepUp` | scores, the pending step-up, its resolution and the browser's modal |
| `BehaviorDemo` | the risk monitor's phases and timers |
| `StepUpProofs` | theorems about `StepUp` and `BehaviorDemo` |
| `VerifyRequests` | one verification request from its INSERT to the pushes and inboxes |
| `VerifierPage` | the verifier's portal |
| `VerifyRequestsProofs` | theorems about `VerifyRequests` and `VerifierPage` |
| `Merkle` | the tree of a credential's attributes, its paths, the disclosure circuit |
| `Presentation` | credentials, proof requests and claims about them; extends `Merkle` |
| `PresentationProofs` | theorems about `Merkle` and `Presentation` |
| `MobileClient` | tokens, refresh and the telemetry socket of the application |
| `WebTab` | socket, prover, login form and API client of a browser tab |
| `MC*` | the same for TLC, with symmetry sets; four of them hold two modules each |

`BehaviorStreams` instantiates `Telemetry`, `ZkpLogin` instantiates `OneTimeProof` under the
refinement mapping, and `Presentation` extends `Merkle`. Where two modules meet, one of
them is an answer or an arrival in the other, as the sections say.

### ZkpLogin

`pc[r]` is the next store call of the handler that serves request `r`;
`body[r]` says which endpoint it is for, who made the proof and what challenge it
answers. `challengeKeys`, `nullifierSet` and `lockKeys` are Redis, `challengeRow`
and `nullifierRows` are PG.

| Code | Actions |
|---|---|
| `issue` | `IssueStore`, `IssuePersist`, `IssueCleanUp` |
| `fetch`, `exists`, `zkpService.verify` | `FetchChallenge`, `CheckNullifier`, `VerifyProof` |
| `register` | `AcquireLock`, `AddMember`, `InsertRow`, `RollBack`, `ReleaseLock` |
| `consume` | `ConsumeKey`, `MarkConsumed` |
| what the proof was for | `Grant` |
| environment | `Arrive`, `ReadPendingStepUp`, `ChallengeExpires`, `LockExpires`, `RedisLost`, `RedisCallFails`, `InsertReplyLost`, `Crash` |

`AfterVerify`, `AfterRegister` and `AfterConsume` hold the order in which each
endpoint calls the services. Abstracted: the arithmetic of Groth16 (its verdict
is either answer), the value of the nullifier (one value per prover and
challenge, which is what `Poseidon(secret, nonce)` is for), timestamps (a TTL may
run out at any time). `disturbed` is a history variable that separates what must
hold always from what may only be expected while nothing is lost half way.

A login and a step-up that answer one challenge at the same moment can each take
the gate the other needs, and both are refused. No document promises otherwise,
so no property forbids it; `RecordedProofCounts` is stated for challenges that
one kind of request answers.

### RateLimiter

| Code | Actions |
|---|---|
| `rateLimit` | `Incr`, `Expire`, `Decide`, one per call of Redis |
| its `catch` | `FailOpen`, before or after the call took effect |
| environment | `ProcessEnds`, `WindowEnds` |

One endpoint and one client; keys of others are other instances. A window is a life
of the key, numbered by the history variable `now`. `neglected` says that the request
that made the key could not give it a TTL: this is the only way in which a window does
not end, and a finding (32).

### CircuitBreaker

`Admit`, `RejectOpen`, `Probe` and `RejectProbing` are the head of `call`;
`Succeed`, `Fail` and `TimeOut` are its settling, with the `finally` block. Time is
one bit: whether `_resetMs` have passed since the last failure, so the model
covers every value of the reset period and of the call timeout.

### Session

One user, whose requests arrive with a token of any session that exists, at any
later time. `row` is PG, `cached` the Redis keys.

| Code | Actions |
|---|---|
| `verifyAccessToken` | `GetKey`, `FindRow`, `Reseed` |
| `rotate`, `revokeSession`, `postRevokeSession` | `Find`, `RevokeRow`, `DropKey` in the order of each (`RowFirst`) |
| `_revokeAllForUser` | `FindAll`, `RevokeRows`, `DropKeys` |
| `issue` | `Create`, `Seed` |
| `_updateSessionCache` | `RiskScore` |
| environment | `Arrive`, `CacheLoses`, `Fail` |

Left out: expiry of tokens and rows, timestamps, and the ownership check against
other users (a request about somebody else's session ends in 404 before it
changes anything). Calls whose failure the code swallows may silently do nothing;
calls whose failure it does not swallow may fail before or after they took effect.

### Account

What `ZkpLogin` calls one acceptance is here what follows it: `postVerify` from the
look-up of the account on, and the other ways an account is created, entered and
taken back. Each step is one statement or one transaction on PG.

| Code | Actions |
|---|---|
| `postRegister` | `FindCommitment`, `CreateUser`, `GenerateCode` |
| `postVerify` | `VerifyProof`, `ReadStatus`, `PassGates`, then `ValidateAuthorizeRequest` and `MintCode`, or `IssueSession` |
| `exchangeCodeForToken` | `FindCode`, then `MarkUsed` and `IssueSession`, or `RevokeAll` |
| `executeRecovery` | `FindRecoveryCode`, `CheckCommitment`, `Transact` |
| environment | `Arrive`, `Fail` |

A secret stands for its commitment. A request arrives with something a client can
have: a code that was answered, the token of a recovery that was answered, a
mnemonic of an account that has one. `past[r]` is a history variable: what was
spent, running or pending when `r` came in. The gates of `ZkpLogin` are one step
that passes or refuses; client validation, PKCE, expiry of a code and a mistyped
mnemonic are refusals that may happen. A code that is superseded by a second
generation is left out, for nothing calls `generateForUser` a second time, and so
is SUSPENDED, which nothing sets.

### Institutes

| Code | Actions |
|---|---|
| `POST /register-institute` | `FindSlug`, `FindEmail` or `FindEmailFails`, `Create`, `HandlerFails` |
| the form of `platform/page.tsx` | `HandleRegister`, `FetchAnswers`, `FetchFails`, `Reload` |
| `GET /did/:slug`, `POST /verify-apikey` | the operators `ResolveDid` and `VerifyApiKey` |

A name stands for the slug that `toSlug` makes of it, a suffix for the three random
bytes that are appended when the slug is taken, the number of the attempt for the
keypair and the API key that are generated for it. The unique indexes of slug and
email decide in `Create`. A handler goes on when its page has given up or was reloaded.

### BehaviorStreams and Telemetry

One session in one process. Everything here is a callback that runs to
completion, so an action is a callback, and the hard part is which object it
finds: `_connections`, `_contexts` and `_streams` are keyed by the session id, and
callbacks of earlier sockets and streams look up and delete by that id.
`connection` and `registered` are what the maps hold for the session (none or one);
`stream[c]` is the gRPC stream that was opened for socket `c`, registered or not.

| Code | Actions |
|---|---|
| upgrade handler, `connection` | `Upgrade`, `Refuse`, `Connect` |
| `cleanup` on `error` and `close` | `SocketFails`, `SocketCloses` |
| stream `end`, `error`, `drain` | `StreamEnds`, `StreamFails`, `Drain` |
| `handleBehaviorEvent`, with `write` and `bufferEvent` | `Message` |
| the telemetry timer, answers to INSERTs | `Background` |
| `shutdown` | `Shutdown`, `Flushed`, `Disconnect`, `Exit`, `ForceExit` |

`_streams` holds an entry only while it is registered, and an entry that is not
registered is never looked at again, so `draining`, `queue` and `written` are those of
the registered one. Events are numbered as they come in. gRPC decides how much it
takes before it says that it is full, within what Node promises: a stream that is
full says so until it drains, and drains at most once for that. `Telemetry` holds
the operations of the buffer; `BehaviorStreams` instantiates it and says who calls
them. Whether the circuit breaker lets a stream be opened is either answer. An
INSERT may take for ever, and whether it fails makes no difference to the process.
The early return of `open` for a session that has a stream is in the model and is never
taken: `RegistryIsLive` leaves no registered stream without a registered socket.

Other sessions have their own sockets and entries; they share the telemetry
buffer, where their events count as any others. Left out: scores that come back
(they are `StepUp`'s), the pushes, and the payload of events.

### SlidingWindows

`pc[t]` is where the thread of stream `t` is, `window[t]` its local variable;
`windows` is the registry, `ema` the predictor's state per session. What happens
under the registry's lock is one step, and a thread may lose the processor
between any two.

| Code | Actions |
|---|---|
| the thread pool | `Accept` |
| `StreamEvents`, its loop | `NextEvent` (with `get_or_create`), `Push`, `GetArray`, `Predict`, `Reset` |
| its end | `StreamEnds`, or `LeaveLoop` within the steps that may raise, then `Evict` and `Forget` (the `finally` block) |
| `_reap_orphans` | `Sweep` under the lock, `Reap` once per id under it again |
| environment | `Leave` (the gateway ends or cancels), `GrowIdle` (`ORPHAN_TTL_SECONDS` pass) |

Of a window its length and flags are kept, of features and scores nothing; extraction,
the assertion on the shape, inference and scoring may each raise, which leaves the
loop with the window registered and the EMA state stored or not. Two
streams of one session happen when the gateway has opened a successor while the
old call is still served; then they share one window, each may evict it under the
other, and no more is claimed than that nothing leaks (`shared` and `reaped` are
the history variables that say so).

### StepUp

| Code | Actions |
|---|---|
| `processScore`, `_updateSessionCache`, `_triggerStepUp` | `ScoreArrives`, `ReadEntry`, `WriteEntry`, `ReadPending`, `SetPending`, `Notify` |
| `/session/dev/trigger-stepup` | `DevTrigger` |
| `postStepUpChallenge`, `postStepUpResolve`, `resolveStepUp` | `LookForPending`, `Verify`, `Clear`, `ReadEntryToClear`, `ClearEntry` |
| `postRevokeSession` | `FindTarget`, `DelEntry`, `DelKey`, `RevokeRow`, `PushTerminated` |
| `executeRecovery`, its pipeline within the transaction | `RecoveryDeletes`, `RevokeRow` |
| `verifyAccessToken` on a miss | `Reseed` |
| `StepUpModal.tsx` | `ReAuth`, `Prove`, `Answer`, `Deliver`, `Countdown`, `HideTimer`, `LeaveTimer` |
| `riskGateMiddleware` | `GateClosed` |
| environment | `EntryGoes`, `Disconnect`, `Reconnect`, `KeyExpires` |

Of a score only matters whether it reaches a step-up threshold, of the cache entry
whether it says `stepUpRequired`; the four service calls of the resolution that
may refuse are one answer here, for they are `ZkpLogin`. Each call of Redis may
fail, with what the code does then: caught, or the handler ends. A revocation is
here for the key that it deletes, before it revokes the row; what it does to tokens
is `Session`'s. A token of a live row may write the entry anew at any time, and the
entry may go by its TTL, a logout or a rotation, none of which touches the key.

Four history variables say what the promises do not cover. The gate of a live
session may be open after a high score because Redis did not take the SET (`lost`,
finding 16), because a proof or the TTL opened it (`opened`, which is what they are
for), or because a revocation deleted the key (`withdrawn`) and then failed
(`LeftOpen`, finding 36). While the revocation is under way the gate is open too,
and once it was answered the row is revoked: `HighScoreIsGated` says that there is
no other way. `disturbed` are the resolutions that a score overlaps.

### BehaviorDemo

| Code | Actions |
|---|---|
| `startCollecting` and its timeout | `StartCollecting`, `StartFires` |
| `simulateAttacker` and its interval | `SimulateAttacker`, `LateTick` |
| scores and prompts over the socket | `Alarm` |
| `handleReAuth` and its timeout | `HandleReAuth`, `ReAuthAnswers`, `RestoreFires` |
| `AnimatePresence` in its mode `wait` | `PanelChanges`, and `Shown` for the buttons |
| `reset`, the effects' clean-ups | `ResetDemo`, `Unmount` |

`attacker` is what the ref names, `ticking` what runs; a component that was unmounted
keeps its timers. `phase` is the state and `panel` what is on the page, for a panel
that fades out takes clicks until it is gone: "Simulate Attacker" may be clicked
twice, or after a lock or a stop, and checks nothing. A score and the result of a
proof are either answer: what the gateway makes of them is `StepUp`'s and
`ZkpLogin`'s. `strayed` is a history variable: a delayed callback fired during an
attack, or an attack began when the phase was no longer "collecting" (finding 37). The
next lock or reset that leaves no timer running takes it back. Charts and
explanations are left out.

### VerifyRequests

| Code | Actions |
|---|---|
| `postSendVerificationRequest` | `PostSend` |
| `getPendingRequests` and the inbox that calls it | `Load`, `ExpireOverdue`, `FindPending` |
| approve, reject | `Decide` (the button), `Find`, `Expire`, `Update`, `Publish`, `Answer`, `DismissDialog` |
| `notifier.service.ts` | `Watch`, `Deliver`, `Sweep` |
| environment | `FallDue`, `LoseMessages`, `Connect` |

Requests do not interact, so there is one. An UPDATE may be done and its answer
lost. `contested` separates decisions that pass the check together, of which the
last one wins: nothing in the code forbids that, and `UncontestedStands` says what
holds otherwise.

### VerifierPage

| Code | Actions |
|---|---|
| `generate` | `Generate`, `Generated`, `GenerateFails` |
| `simulate` | `Simulate`, `Simulated` |
| the poll | `Poll`, `Polled` |
| the callbacks of the socket | `Push` |
| `reset`, sign-out | `Reset`, `SignOut` |

The handlers know the request they were made for, the page the one that it shows.
What the gateway answers and pushes is arbitrary: the watch is never set up and the
poll's route is not served (finding 20), so nothing in the source bounds it.

### Merkle and Presentation

`Merkle` writes tree, path and climb as recursive functions over a symbolic hash:
Poseidon of a pair is the pair, which is what its being free of collisions means.
`Presentation` gives every attribute a salt of its own and takes the circuit's
`Accepts` for the verdict of the verifier.

| Code | Actions |
|---|---|
| `issueCredential`, `revokeCredential`, `postIssueId` | `IssueCredential`, `RevokeCredential`, `IssueId` (a transaction is one step) |
| `postRequestProof` | `RequestProof` |
| `postVerifyPresentation` | `PostVerifyPresentation`, `GetRequest`, `ResolveIssuer`, `FetchDocument`, `VerifyIssuerProof`, then `verifyClaim`, then `SpendRequest` |
| `POST /credential/verify-claim` | `PostVerifyClaim`, then `verifyClaim` |
| `verifyClaim` | `ReadCredential`, `VerifyClaim` |
| environment | `FallDue`, `RequestExpires` |

A wallet proves only what is true of the leaves it holds, but may name another
credential than the one they belong to. Whether the issuer's document is found,
has the key and the signature is right is either answer. One user: the index that
lets a type be issued once is per user.

### MobileClient

| Code | Actions |
|---|---|
| the interceptor of `http_client.dart` | `Answered`, `OnUnauthorized`, `ReadRefreshToken`, `Refresh`, `Save`, `Retry`, `Clear` |
| `auth_bloc.dart` | `Register`, `Registered`, `RegisterFailed`, `Login`, `Submit`, `NoSecret`, `LoggedIn`, `LoginFailed`, `Logout`, `LoggedOut` |
| `ws_telemetry.dart` | `Open` and `Disconnect` within these, `OnClose`, `TimerFires` |
| any other call | `Get` |
| environment | `AccessExpires`, `Crash` |

A session and its tokens are a number; the gateway is as much of `Session` as its
answers depend on (`issued`, `live`, `rotated`). A crash may leave one of two
tokens written. The handlers of the bloc run concurrently, and a button is only
there on the screens that show it (`Offers`); the login button stays until the secret
has been read, so two logins may overlap, of which the later changes the screen only
if the earlier has not led away from it (`Shows`). A call that is sent again takes
its token from the storage, as `onRequest` does.

### WebTab

| Code | Actions |
|---|---|
| `WsContext.tsx` | `PollTicks`, `RetryFires`, `OnOpen`, `OnClose`, `PressReconnect`, and `Load` for its effect |
| `prover.ts` | `AskForProof`, `WorkerLoads`, `OnMessage`, `OnError`, `TimesOut` |
| `LoginForm.tsx` | `Register`, `Registered`, `Login`, `TurnTo`, `FormChallenged`, `LoggedIn`, `FormFails` |
| `api.ts` and its callers | `ReAuth`, `Succeeds`, `Fails`, `Unauthorized`, `Refreshed`, `RefreshFails` |
| environment | `PeerCloses` |

Three callers (form, demo, step-up dialog) share the prover and the API client;
which screens the dialog shows is `StepUp`'s matter. A close event comes for any
socket, replaced or not, and clears the provider's reference as it does in the code.

## 3. Runs

| Run | Instance | Shows |
|---|---|---|
| `login` | 2 users, 1 challenge, 3 requests of either kind; beside it 3 requests to a limiter of 2; 429,728 states | at most one request per challenge passes either gate, the stores stay consistent, and it implements `OneTimeProof`; a window passes no more than its limit and ends |
| `account` | 2 accounts, 3 secrets, 3 requests; beside it 3 registrations of institutes from 2 pages; 377,900 states | one account per secret, recovery is all or nothing and ends every session, spent codes yield nothing; an institute's identity is its own |
| `breaker` | 5 calls, threshold 2; 7,097 states | the trip condition, one probe at a time, every call settles |
| `session` | 2 sessions, 3 requests; about 2,270,000 states up to symmetry | revocation is durable; `RotationReplaces`: a revoked token never rotates, and a session and its successor are never both usable |
| `session_revoked` (violation) | 2 sessions, 2 requests | a risk score revives a revoked session |
| `streams` | 3 sockets, 1 signal, queue of 1, batches of 2, 3 events; 1,306,977 states | what is registered is alive, backpressure is never stuck and keeps the order, timers have what they are for (`TimersMatch`), a clean exit has flushed |
| `windows` | 3 streams of 2 sessions, 2 threads, window of 2, 2 events each, exceptions; 464,311 states | no window leaks, a session's only stream is undisturbed, every stream that is given up returns its thread |
| `stepup` | 2 scores, 2 attempts, 1 revocation, of which 4 take place; beside it the monitor with 3 attacker timers; 572,143 states | a high score closes the gate, which a revocation opens only by failing half way; a resolution clears both records, the modal leaves the screen; the monitor sends only what it shows, and shows what it does unless a callback or click strayed |
| `verify_requests` | 3 decisions, 1 device, 1 watcher; beside it the verifier's page with 2 requests; 825,280 states | `DecisionsStand`: a late decision is refused, an uncontested one stands and is what was announced; cards unlock; a grant is of the request on the page |
| `presentation` | depth 2, 2 credentials of 2 types, 1 proof request, 2 claims; 519,895 states | accepted claims are true of a credential that was alive, a proof request grants once, service and circuit agree on every path |
| `mobile` | 5 calls, 3 sessions; 323,750 states up to symmetry | no refresh token is replayed without a crash, the telemetry socket comes back |
| `web` | 2 sockets, 1 stray timer; 142,416 states | a signed-in tab always has a socket or something that opens one, every caller settles |

Four runs check two modules that share no state: the variable `subject` says of which
one a behaviour is, so the state space is the sum of two, not their product. Each
property speaks of one of them, and the proofs are about each module's own
specification.

The type invariants are theorems (section 4) and are not repeated in the runs.

**Bounds.** Challenges do not interact (each has its own keys, rows and nullifiers),
so one is enough; three requests let two race while a third comes late; two users
are needed for two different nullifiers of one challenge. In the breaker, two
calls trip it, one probes, and two more settle late or are rejected. In `Session`,
a request involves at most two sessions, its own and its target or successor; the
third request is the one that interferes. In `BehaviorStreams` it takes three
sockets for the `drain` of a stream nobody registers any more to reach another's
entry: one whose late `end` unregisters the second, and a third that connects next; three events fill
a stream and a queue of one and overflow it, and a batch of two leaves one in the
buffer. One signal is checked, several are covered by the proof. In `Account` two requests race for one
code or one secret and the third comes after; three secrets let both accounts be
recovered. In `SlidingWindows` two streams of one session overlap while a third, of
another session, waits for one of two workers; a window of two becomes full, is
halved and fills again with two events. In `StepUp` two scores race for the key
beside two resolutions, or one of the four makes room for a revocation (`MaxBegun`),
which may come between any two of their calls. In `VerifyRequests` two decisions
contest and a third comes late; one device already has several decisions in flight, for reloading forgets
them. In `Presentation` depth 2 has every shape of path (left and right at either
level) and the attribute lists leave a padded leaf; the credential that a claim is
about is revoked or falls due while it is under way, and two claims race for one
request. In `MobileClient` two calls are refused at once while a third refreshes, logs
in or logs out, and two logins overlap; three sessions are a login, a rotation and one
more. In `WebTab` two
sockets are the one replaced and its successor, and one stray timer is the one
that a late close has orphaned. In `RateLimiter`
a third request exceeds a limit of two, in a window that two others have filled. In
`Institutes` two pages compete for one name, which has one suffix, with the same or
different emails, and one of them tries again. In `VerifierPage` a page goes from one
request to the next while up to two fetches of a kind are unanswered. In
`BehaviorDemo` a third timer starts, by a second click or after a lock, while the first
is orphaned and the second named;
two callbacks of a kind are pending at most. Values in `Presentation` reach 1, for
the claim is a comparison. The proofs lift these bounds from every safety property.

**Deadlock** is not checked: requests, calls, events and timers are finite, and when they
have all been answered nothing is left to do; in `BehaviorStreams` the process exits.

**Fairness.** Five properties are liveness, each under the least its scheduler gives:

* `CallsSettle`: the timer that `_withTimeout` sets fires; nothing is assumed of the
  ML service.
* `StreamsDrain`: the operating system schedules each stream's thread. No client owes
  an event or an end: the property starts where the gateway is gone.
* `ModalLeaves`: the browser runs the countdown and the two timeouts, and a request
  or a proof under way comes to an end (the prover gives up after 30 s, `fetch` when
  the connection breaks). Nobody need press a button.
* `CardUnlocks`: a query or push in hand is answered or fails (timeouts of the pool
  and of Dio), and the inbox goes on with what it has.
* `CallersSettle`: the prover's 30-second timer fires, a call is answered or fails,
  and a refresh that is refused again and again is ended by the rate limiter.

The other properties are safety properties and assume none.

**Symmetry** is used in `MCZkpLogin`, `MCSession`, `MCAccount`, `MCBehaviorStreams` and
`MCMobileClient`, which check no liveness under fairness. The others use none.

## 4. What is proved

Every invariant of the passing runs is a theorem, and so are the refinement and the
type invariants. All theorems hold for arbitrary
sets of users, requests, sessions, sockets and whatever else the modules are
parameterised by; the only finite set that is assumed is `Hit`, for windows are
counted. The other assumptions are named in the modules: `OpenThreshold`, `Limit`,
`DEPTH`, `MaxQueue` and `BatchSize` are positive (the proofs about streams need not even
that of the last two), bounds such as `MaxSession`, `MaxStray`, `MaxEvents` and
`MaxValue` are naturals, a window holds at least two entries, every stream has a
session, the attribute lists that are issued fit into the tree and hold naturals up to
`MaxValue` (`AttributesAssumption`), and the null values `NoWindow`, `NoSocket`,
`NoRequest`, `NoSuffix` and `Nobody` are none of the values they stand beside.

Few of the properties are inductive as they stand, together with the types: those are
named. Of the others, what the strengthening adds is the argument.

### The login path

* `ZkpLogin`, in `LoginProofs`: `TypeCorrect`, `OneRegistration`, `OneConsumer`,
  `GatesPassOne`, `GrantDurable`, `LoginOrder`, `StoresInStep`, `NoProofWasted`,
  `Refinement`. The strengthening adds: a request that arrived answers a challenge
  that was issued (so its key is never made again), a request past its INSERT has its
  row, one past its DEL has no key, and a CONSUMED row has a request that consumed it.
  `StoresInStep` and `NoProofWasted` rest on a second invariant, `Quiet`, of the runs
  in which nothing was lost so far: the lock is held from SADD to DEL by one request
  per nullifier (`LockHeld`), so the SET is ahead of the table by exactly the
  registrations under way (`SetAhead`); and a challenge key is gone only when a
  step-up answered it or a request consumed it (`KeyConsumed`), so where only logins
  answer, the one that has registered finds the key (`RowPasses`). `Refinement`
  follows from one registration per challenge: the step that grants maps to `Accept`,
  the steps that refuse to `Refuse`, all other steps stutter.
* `RateLimiter`, in `LoginProofs`: `LimiterTypeCorrect`, `LimiterIsFair`. That at most
  `Limit` requests of a window pass is a matter of counting: the key holds the number
  of the requests that counted in its window (`CounterIsExact`), each of them was
  answered another number (`CountsDiffer`), so those that pass are no more than the
  numbers from 1 to `Limit`. The other way round a number is at most how many counted
  (`CountsAreBounded`), so who was refused had that many before it. That windows end
  is inductive with it: whoever found no key goes to EXPIRE (`PlaceTells`).
* `WebTab`, in `LoginProofs`: `TabTypeCorrect`, `TabIsReachable`, `EveryProofIsTimed`.
  A tab that is signed in can reach the gateway because the guard against a second
  connection is up only while a socket exists, whose close lowers it
  (`ConnectingHasSocket`), a signed-out tab polls and has no socket
  (`SignedOutPolls`), and poll, retry, stray timer or socket is always left
  (`Reachable`). `ProofsAreTimed`: a caller waits for the prover just while the prover
  has an entry and a timer for it, which is what `CallersSettle` needs of safety.

### The behaviour path

* `CircuitBreaker`, in `MlPathProofs`: `BreakerTypeCorrect`, `TripsExactly`,
  `OneProbe`. The strengthening is that a running probe has raised the flag.
* `BehaviorStreams`, in `BehaviorStreamsProofs`: `StreamsTypeCorrect`,
  `RegistriesLive`, `BackpressureNeverStuck`, `EventsInOrder`, `TelemetryScheduled`,
  `TimersCleared`, `TimersAreMatched`, `CleanShutdown`. The strengthening adds that
  the registered stream belongs to the registered socket and is open or full
  (`Registry`), so that a `drain` of any stream flushes into one that can take it;
  that the queue is sorted and later than what was written (`Sorted`); that a running
  timer belongs to the registered socket (`Timers`); and that once a signal came the
  buffer and, before its exit, the INSERTs on their way hold only later events
  (`Flushing`).
* `SlidingWindows`, in `MlPathProofs`: `WindowsTypeCorrect`, `Leakless`,
  `Undisturbed`. That nothing leaks is inductive with the types alone. The other needs
  to know who can touch a window: a registered window is open and registered once
  (`Registered`), the threads that hold one are of one session, the registry's if it
  is registered, and are in their loop, which an exception leaves without it
  (`Holders`); and two served streams of a session are marked as sharing
  it (`Sharing`).
* `StepUp`, in `StepUpProofs`: `StepUpTypeCorrect`, `HighScoresGate`,
  `ResolutionsClear`. `Gated` adds the score that has set the key and not yet told the
  client. Of a revocation it needs that each place between its DEL and its end counts
  among those of `LeftOpen`, and that it leaves them only with the row revoked or by
  failing (`RevokingGated`). `Quiet` says that from the DEL of an undisturbed
  resolution on no score is in hand, so that nobody sets the key or writes back an old entry.
* `BehaviorDemo`, in `StepUpProofs`: `DemoTypeCorrect`, `MonitorHonest`, for any
  number of timers and late callbacks and clicks. `MonitorIsHonest` is inductive with
  the types and `AttackPanel`: during an attack the panel on the page is its own or
  still that of "collecting", neither of which starts the collecting or re-authenticates.

### Sessions and accounts

* `Session`, in `SessionProofs`: `SessionTypeCorrect`, `Revocation`, `OldTokenDies`,
  `NoRotationAfterRevocation`, `RotationIsReplacement`. Rows only age (none, active,
  revoked), and each handler's place says what it knows about the rows (`RequestInv`);
  since no step makes a row younger, what one request knows no other request can undo.
* `MobileClient`, in `SessionProofs`: `MobileTypeCorrect`, `PresentsNoRotatedToken`,
  `NeverDeafHolds`. `NeverDeaf` is inductive with the types. That no token is
  presented twice needs four facts: one refresh runs at a time (`OneRefresh`); a
  session that was issued and is not stored is known to one call (`FreshIsOwn`); the
  stored token has been exchanged only while its successor is about to be written or
  the storage about to be cleared (`StoredIsCurrent`); hence what a refresh presents
  was not exchanged (`PresentedIsCurrent`), unless a crash left it so.
* `Account`, in `AccountProofs`: `AccountTypeCorrect`, `SecretsDistinct`,
  `RecoveryAtomic`, `SpentCodes`, `RecoveryRevokes`, `NeverReactivated`.
  `SecretsDistinct` rests on the unique index alone, whatever the handlers checked
  before. The others need what each handler's place says (`RequestInv`: a request that
  came in with a spent code has not got past the read of it; a recovery that was
  answered has left its account's old sessions revoked) and that codes and sessions
  only age (`Forward`). `NeverReactivated` adds that a recovery token belongs to an
  account whose code is burned, hence PENDING_VERIFY, hence refused by `verify`.
* `Institutes`, in `AccountProofs`: `InstitutesTypeCorrect`, `IdentitiesAreOwned`. A
  row is never changed, so it is enough that an insert meets the unique indexes and
  that every row is that of an attempt which has ended (`RowsAreOwned`), that what was
  answered stays true (`OutcomesStand`), and that a form shows the outcome of its own
  last attempt (`FormKnows`). None of it uses what the handler looked up.

### Verification and disclosure

* `VerifyRequests`, in `VerifyRequestsProofs`: `RequestsTypeCorrect`, `LateDecisions`,
  `UncontestedDecisions`, `DecisionsHold`. A row that was decided never becomes
  PENDING again (`Decided`), so no further decision passes the check (`LateInv`).
  Without contest who is past the check is alone past it (`Alone`), what is on the bus
  or was pushed is the row's (`Stored`), and nothing is announced before a decision is
  answered.
* `VerifierPage`, in `VerifyRequestsProofs`: `VerifierTypeCorrect`,
  `GrantsAreOfTheirRequest`. Until the page was overtaken, every fetch under way is
  about the request on it (`FetchesAreOfThePage`); a push needs no such condition.
* `Merkle`, in `PresentationProofs`: `RootBinds` (two lists of leaves with one root
  are the same row of the tree) and `PathAccepted` (the circuit accepts the service's
  path for the leaf it was made for and for no other index), for trees of every depth.
  The tree, the path and the climb are recursive functions; that each exists and
  satisfies its equation (`ShiftIs`, `HalvedIs`, `NodesAre`, `ClimbIs`) is proved
  first, by an induction that is stated of a set of naturals (`SetInduction`, from
  well-foundedness), for the library's induction over a predicate is beyond the
  provers. Then each node over a leaf is the leaf's number halved so many times
  (`Over`, `Above`), the path climbs through them to the root (`ClimbsToRoot`), and
  its turns are the bits of the index, which no other index has (`TurnsAreBits`,
  `BitsBind`).
* `Presentation`, in `PresentationProofs`: `TypeCorrect`, `NoDeadCredentialAccepted`,
  `RequestAnswersOnce`, `AcceptedIsTrue`, `HonestProofsAccepted`. The invariant says
  of a claim what it was when it came in (`Presented`), that the dead stay dead
  (`DeadStays`), that what the row was compared with stays so because roots never
  change (`Checked`), that a request which was spent stays spent and opens nothing to
  later claims (`SpentStays`, `Opened`, `Closed`), and that only a verified claim
  spends one (`SpentByAccepted`). `AcceptedIsTrue` follows with `RootBinds`: the roots
  are equal, so the leaves are, and salts differ from credential to credential and
  from the zero leaf's.

### Only model-checked

* `CallsSettle`, `StreamsDrain`, `ModalLeaves`, `CardUnlocks` and `CallersSettle`:
  liveness under fairness, which is beyond the prover.
* The violation of `RevokedIsRefused`, which is a counterexample.

## 5. Where code and documentation disagree

`session_revoked` shows the fourth; the others are behaviours of the modules, or of
code the modules leave out, met while modelling. The `findings` of PROJECT.json quote
the lines. Nine of the promises are written down beside the properties of their
modules, for whoever changes the code, and TLC refutes them when they are named in a
configuration: `ConsumedHasNullifier` (1), `HalfOpenIsProbing` (2), `RefreshOnce` (3, with
three sessions), `PendingNeedsToken` (8), `StreamsEnd` (11), `WindowIsTimed` (32),
`GrantIsOfShownRequest` (33), `LockHolds` (34) and `KeyIsDelivered` (35).

1. `postStepUpResolve` consumes the challenge before it records the nullifier; the
   README and `postVerify` say the reverse order is what keeps the replay guard.
2. `_halfOpenProbing` is never lowered: the `finally` block tests for the state
   the handlers have just left. The circuit probes once in its life; if it trips
   again, it can only be closed by a call admitted before.
3. `rotate` reads `is_revoked` and sets it in two queries, so one refresh token
   can yield two sessions.
4. `_updateSessionCache` re-creates the entry of a revoked session, whose access
   token is then accepted until the entry expires (`session_revoked`).
5. `zkpService.verify` refuses PENDING_VERIFY accounts, so the branch of
   `postVerify` that activates a recovered account is not reached: an account that
   was recovered stays PENDING_VERIFY (theorem `NeverReactivated`).
6. If PG fails after the DEL in `postRevokeSession`, the session lives on: the
   next request re-seeds its entry from the row.
7. The breaker's failure counter has no measurement window.
8. `exchangeCodeForToken` does not read `users.status`: a code minted before a
   recovery opens a session on the recovered account.
9. `executeRecovery` ignores what `burn_recovery_code` returns: two recoveries that
   overlap both succeed with one code, although the procedure exists to prevent it.
10. The exchange reads `is_used` and sets it in two statements of a READ COMMITTED
    transaction: two exchanges that overlap both succeed with one code.
11. The `end` and `error` callbacks of a gRPC stream delete by session id: the late
    `end` of an old stream unregisters its successor, which is then not ended when
    its socket closes, and keeps its window in the ML service.
12. `error` and `close` of one socket both clean up by session id: the second
    unregisters a socket that reconnected in between, and a further upgrade is
    accepted beside it. (In `BehaviorStreams` two sockets may be open at once; that is
    why `RegistryIsLive` says nothing about sockets that are not registered.)
13. `closeAllConnections` is to stop new connections, but upgrades are accepted until
    the later `server.close`; the socket of a late upgrade is not terminated by anyone.
14. The timer of the forced exit is set after the awaited flush: an INSERT that is
    not answered hangs the shutdown.
15. The classifier's VELOCITY_SPIKE_REVERSE branch asks for a score that is both at
    least and less than the MEDIUM threshold: it is dead.
16. A SET of the pending step-up that fails is caught, and the prompt is pushed all
    the same; the resolution is then refused and the countdown ends in the login page.
17. Step-ups are said to be triggered once, atomically; it is a GET and a later SET
    without NX, and two scores both trigger.
18. The risk gate is to block all requests, and is mounted on `GET /session/me` alone.
19. The gateway's second EMA, which a comment describes, does not exist.
20. The verifier page reads one response body twice and so never registers its watch;
    its fallback polls a route that no router serves.
21. A proof request is read before the proof and deleted after it, the count unread:
    two presentations that overlap are both granted.
22. A credential type can be issued once: a revoked row still holds the unique index.
23. The root of a GovernmentID is a flat SHA-256, from which no claim can be proved.
24. The issuer's Ed25519 key is looked for where the registry does not put it.
25. Two logouts in the application are two calls, the later of which may clear the
    tokens of the login in between.
26. The application's refresh clears a good session when the retried call fails.
27. The telemetry socket's backoff starts again on every attempt.
28. The application's step-up screen is dead code.
29. `refreshTokens` in the web client refreshes its own 401, until the limiter ends it.
30. `onclose` in the web client forgets whichever socket is current, so a retry may
    open a second one; and a retry that finds no token relies on a poll that was
    cleared when the first socket opened.
31. The demo masks a prover that fails with a made-up proof, which the prover's
    comment forbids.
32. The limiter's TTL is set after the INCR and by the first request alone: when the
    process dies in between, or EXPIRE fails, the counter stays, and once it is past the
    limit the client is refused for good, though windows are to reset automatically.
33. Answers of a call or a poll that come after "New Request" put the verifier's page
    back to "Access Granted", with another request on it or none; a push is compared.
34. The monitor's delayed start after a reconnect leads out of "SESSION LOCKED" without
    a proof.
35. Of two registrations with one email that overlap, the second is answered 500 and
    not 409; and an answer that is lost loses the institute's private key for good, for
    the retry is refused.
36. A revocation deletes the pending step-up before it revokes the row: if it fails in
    between, the session lives on and its gate is open without a proof, though the
    document of `postRevokeSession` calls such a session effectively dead.
37. "Simulate Attacker" takes clicks while its panel fades out. A second one starts a
    second interval and loses the first, which nothing clears any more and which locks
    every later monitoring; one after a lock or a stop shows an attack in which nothing is
    sent and which no button leads out of.

Two more behaviours that no document speaks of: of two overlapping decisions on one
verification request the last one wins; and a login and a step-up on one challenge
may both be refused.

## 6. Not modelled

* **The rest of the platform routes**: the public list only reads, `verify-token` compares
  with a constant, the issuer's role check reads a header.
* **Idempotency middleware**: no route mounts it.
* **Client intent queues**: `replayPending` has no caller in either client, so nothing
  that is queued is ever replayed.
* **Groth16, Poseidon, the auth circuit's constraints, Ed25519 signatures**: field
  arithmetic. Verdicts are either answer, or those of a symbolic hash.
* **The LSTM and the features**: floating point. Scores are high or not.
* **DID documents and VC builder**: data; resolution is an answer in `Presentation`.
* **Pages that make one call at a time and show its answer** (issuer, wallet, vault,
  scanner), formatting, logging, configuration, startup, benchmarks.
* **Expiry of access tokens and rows in `Session`**, last-seen timestamps, and the
  payload of behaviour events.
