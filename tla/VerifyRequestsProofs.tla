------------------------- MODULE VerifyRequestsProofs -------------------------
(* Theorems about VerifyRequests, for any decisions, devices and watchers,  *)
(* and about VerifierPage, for any number of requests and fetches.          *)
EXTENDS VerifyRequests, VerifierPage, TLAPS

(* The row of a decision that was stored never becomes PENDING again, so no *)
(* further decision passes the check; and who came late came after one that *)
(* was answered.                                                            *)
Decided ==
  \A c \in Decision : call[c] \in {"publish", "answered"} => row \notin {"none", "PENDING"}
LateInv ==
  /\ late # {} => Answered # {}
  /\ \A c \in late : call[c] \in {"find", "refused", "failed"}

(* Without contest: who is past the check is alone past it, what was stored *)
(* and what was announced is the row's, and an announcement was answered.   *)
Alone ==
  \A c, d \in Decision :
    call[c] \in {"expire", "update"} /\ call[d] \in {"expire", "update", "publish", "answered"}
      => c = d
Stored ==
  /\ \A c \in Decision : call[c] \in {"publish", "answered"} => row = verdict[c]
  /\ \A i \in 1 .. Len(bus) : bus[i] = row
  /\ \A w \in Watcher : told[w] \in {"nothing", row}
Announced == bus # << >> \/ (\E w \in Watcher : told[w] # "nothing")

Uncontested == ~contested => Alone /\ Stored /\ (Announced => Answered # {})

IInv == TypeOK /\ Decided /\ LateInv /\ Uncontested

-----------------------------------------------------------------------------
LEMMA InitInv == Init => IInv
<1> SUFFICES ASSUME Init PROVE IInv
  OBVIOUS
<1> USE DEF Init
<1>1. bus \in Seq(Verdict)
  OBVIOUS
<1>2. TypeOK
  BY <1>1 DEF TypeOK, Verdict, Inbox, Step
<1>3. Decided /\ LateInv
  BY DEF Decided, LateInv
<1>4. Alone
  BY DEF Alone
<1>5. Stored /\ ~Announced
  BY DEF Stored, Announced
<1> QED
  BY <1>2, <1>3, <1>4, <1>5 DEF IInv, Uncontested

LEMMA TypeStep == TypeOK /\ [Next]_vars => TypeOK'
<1> SUFFICES ASSUME TypeOK, [Next]_vars PROVE TypeOK'
  OBVIOUS
<1> USE DEF TypeOK, Verdict, Step, Inbox, vars, table, calls, notifier, CallGoes, InboxGoes
<1>1. CASE PostSend \/ FallDue \/ Sweep
  BY <1>1 DEF PostSend, FallDue, Sweep
<1>2. CASE Deliver
  <2>1. Tail(bus) \in Seq(Verdict) /\ Head(bus) \in Verdict
    BY <1>2 DEF Deliver
  <2> QED
    BY <1>2, <2>1 DEF Deliver
<1>3. CASE LoseMessages
  <2>1. << >> \in Seq(Verdict)
    OBVIOUS
  <2> QED
    BY <1>3, <2>1 DEF LoseMessages
<1>4. ASSUME NEW c \in Decision, Serve(c) PROVE TypeOK'
  <2>1. CASE Find(c)
    BY <2>1 DEF Find
  <2>2. CASE Expire(c)
    BY <2>2 DEF Expire
  <2>3. CASE Update(c)
    BY <2>3 DEF Update
  <2>4. CASE Publish(c)
    <3>1. Append(bus, verdict[c]) \in Seq(Verdict)
      OBVIOUS
    <3> QED
      BY <2>4, <3>1 DEF Publish
  <2> QED
    BY <1>4, <2>1, <2>2, <2>3, <2>4 DEF Serve
<1>5. ASSUME NEW v \in Device, Load(v) \/ Show(v) \/ DismissDialog(v) PROVE TypeOK'
  <2>1. CASE Load(v)
    BY <2>1 DEF Load
  <2>2. CASE ExpireOverdue(v)
    BY <2>2 DEF ExpireOverdue
  <2>3. CASE FindPending(v) \/ DismissDialog(v)
    BY <2>3 DEF FindPending, DismissDialog
  <2>4. ASSUME NEW c \in Decision, Answer(v, c) PROVE TypeOK'
    BY <2>4 DEF Answer
  <2> QED
    BY <1>5, <2>1, <2>2, <2>3, <2>4 DEF Show
<1>6. ASSUME NEW v \in Device, NEW c \in Decision, NEW d \in Verdict, Decide(v, c, d)
      PROVE  TypeOK'
  BY <1>6 DEF Decide, Answered
<1>7. ASSUME NEW w \in Watcher, Watch(w) \/ Connect(w) PROVE TypeOK'
  BY <1>7 DEF Watch, Connect
<1>8. CASE UNCHANGED vars
  BY <1>8
<1> QED
  BY <1>1, <1>2, <1>3, <1>4, <1>5, <1>6, <1>7, <1>8 DEF Next

-----------------------------------------------------------------------------
(* Most actions leave the decisions, the row and the announcements alone.   *)
Quiet == UNCHANGED <<row, call, verdict, late, contested, bus, told>>

LEMMA QuietStep == ASSUME IInv, Quiet PROVE Decided' /\ LateInv' /\ Uncontested'
<1> USE DEF IInv, Quiet
<1>1. Answered' = Answered
  BY DEF Answered
<1>2. Decided' /\ LateInv'
  BY <1>1 DEF Decided, LateInv
<1>3. (Alone => Alone') /\ (Stored => Stored') /\ (Announced' <=> Announced)
  BY DEF Alone, Stored, Announced
<1> QED
  BY <1>1, <1>2, <1>3 DEF Uncontested

(* The one who passes the check is the first, or there is a contest.        *)
LEMMA FindStep ==
  ASSUME IInv, NEW c \in Decision, Find(c)
  PROVE  Decided' /\ LateInv' /\ Uncontested'
<1> USE DEF IInv, TypeOK, Find, CallGoes, table
<1>1. \A d \in Decision : d # c => call'[d] = call[d]
  OBVIOUS
<1>2. Answered' = Answered
  BY <1>1 DEF Answered
<1>3. Decided' /\ LateInv'
  <2>1. Decided'
    BY <1>1 DEF Decided
  <2>2. c \in late => row # "PENDING"
    BY DEF LateInv, Answered, Decided
  <2>3. c \in late => call'[c] \in {"refused", "failed"}
    BY <2>2
  <2> QED
    BY <1>1, <1>2, <2>1, <2>3 DEF LateInv
<1>4. ASSUME ~contested' PROVE Alone' /\ Stored' /\ (Announced' => Answered' # {})
  <2>1. Alone /\ Stored /\ (Announced => Answered # {})
    BY <1>4 DEF Uncontested
  <2>2. Stored'
    BY <1>1, <2>1 DEF Stored, notifier
  <2>3. Announced' => Answered' # {}
    BY <1>2, <2>1 DEF Announced, notifier
  <2>4. CASE row = "PENDING" /\ call'[c] \in {"expire", "update"}
    <3>1. \A d \in Decision \ {c} : call[d] \notin {"expire", "update"}
      BY <1>4, <2>4 DEF Writing
    <3>2. \A d \in Decision \ {c} : call[d] \notin {"publish", "answered"}
      BY <2>4 DEF Decided
    <3> QED
      BY <1>1, <2>2, <2>3, <3>1, <3>2 DEF Alone
  <2>5. CASE call'[c] \notin {"expire", "update"}
    <3>1. call'[c] \in {"refused", "failed"}
      BY <2>5
    <3> QED
      BY <1>1, <2>1, <2>2, <2>3, <3>1 DEF Alone
  <2> QED
    BY <2>4, <2>5
<1> QED
  BY <1>3, <1>4 DEF Uncontested

(* Whoever writes the row without a contest has nobody before it.           *)
LEMMA WriteStep ==
  ASSUME IInv, NEW c \in Decision, Expire(c) \/ Update(c)
  PROVE  Decided' /\ LateInv' /\ Uncontested'
<1> USE DEF IInv, TypeOK, CallGoes, notifier
<1>1. /\ call[c] \in {"expire", "update"} /\ call'[c] \in {"refused", "failed", "publish"}
      /\ \A d \in Decision : d # c => call'[d] = call[d]
      /\ call'[c] = "publish" => row' = verdict[c]
      /\ row' \in {row, "EXPIRED"} \union Verdict
      /\ UNCHANGED <<verdict, late, contested, bus, told>>
  BY DEF Expire, Update
<1>2. Answered' = Answered
  BY <1>1 DEF Answered
<1>3. Decided'
  BY <1>1 DEF Decided, Verdict
<1>4. LateInv'
  <2>1. c \notin late
    BY <1>1 DEF LateInv
  <2> QED
    BY <1>1, <1>2, <2>1 DEF LateInv
<1>5. ASSUME ~contested' PROVE Alone' /\ Stored' /\ (Announced' => Answered' # {})
  <2>1. Alone /\ Stored /\ (Announced => Answered # {})
    BY <1>1, <1>5 DEF Uncontested
  <2>2. \A d \in Decision \ {c} : call[d] \notin {"expire", "update", "publish", "answered"}
    BY <1>1, <2>1 DEF Alone
  <2>3. Answered = {}
    BY <1>1, <2>2 DEF Answered
  <2>4. ~Announced /\ ~Announced'
    BY <1>1, <2>1, <2>3 DEF Announced
  <2>5. Alone'
    BY <1>1, <2>2 DEF Alone
  <2>6. Stored'
    <3>1. bus' = << >> /\ \A w \in Watcher : told'[w] = "nothing"
      BY <2>4 DEF Announced
    <3> QED
      BY <1>1, <2>2, <3>1 DEF Stored
  <2> QED
    BY <2>4, <2>5, <2>6
<1> QED
  BY <1>3, <1>4, <1>5 DEF Uncontested

LEMMA PublishStep ==
  ASSUME IInv, NEW c \in Decision, Publish(c)
  PROVE  Decided' /\ LateInv' /\ Uncontested'
<1> USE DEF IInv, TypeOK, CallGoes, Publish, table
<1>1. /\ call[c] = "publish" /\ call'[c] \in {"answered", "failed"}
      /\ \A d \in Decision : d # c => call'[d] = call[d]
      /\ UNCHANGED <<row, verdict, late, contested, told>>
      /\ \/ call'[c] = "answered" /\ bus' = Append(bus, verdict[c])
         \/ call'[c] = "failed" /\ bus' = bus
  OBVIOUS
<1>2. Answered \subseteq Answered' /\ (call'[c] = "answered" => c \in Answered')
  BY <1>1 DEF Answered
<1>3. Decided'
  BY <1>1 DEF Decided
<1>4. LateInv'
  <2>1. c \notin late
    BY <1>1 DEF LateInv
  <2> QED
    BY <1>1, <1>2, <2>1 DEF LateInv
<1>5. ASSUME ~contested' PROVE Alone' /\ Stored' /\ (Announced' => Answered' # {})
  <2>1. Alone /\ Stored /\ (Announced => Answered # {})
    BY <1>1, <1>5 DEF Uncontested
  <2>2. row = verdict[c]
    BY <1>1, <2>1 DEF Stored
  <2>3. \A i \in 1 .. Len(bus') : bus'[i] = row
    <3>1. CASE bus' = Append(bus, verdict[c])
      BY <2>1, <2>2, <3>1 DEF Stored
    <3>2. CASE bus' = bus
      BY <2>1, <3>2 DEF Stored
    <3> QED
      BY <1>1, <3>1, <3>2
  <2>4. Stored'
    BY <1>1, <2>1, <2>3 DEF Stored
  <2>5. Alone'
    BY <1>1, <2>1 DEF Alone
  <2>6. Announced' => Answered' # {}
    BY <1>1, <1>2, <2>1 DEF Announced
  <2> QED
    BY <2>4, <2>5, <2>6
<1> QED
  BY <1>3, <1>4, <1>5 DEF Uncontested

(* A new decision is at its check.                                          *)
LEMMA DecideStep ==
  ASSUME IInv, NEW v \in Device, NEW c \in Decision, NEW d \in Verdict, Decide(v, c, d)
  PROVE  Decided' /\ LateInv' /\ Uncontested'
<1> USE DEF IInv, TypeOK, CallGoes, Decide, table, notifier
<1>1. /\ call[c] = "idle" /\ call'[c] = "find"
      /\ \A e \in Decision : e # c => call'[e] = call[e] /\ verdict'[e] = verdict[e]
      /\ UNCHANGED <<row, contested, bus, told>>
  OBVIOUS
<1>2. Answered' = Answered
  BY <1>1 DEF Answered
<1>3. Decided'
  BY <1>1 DEF Decided
<1>4. LateInv'
  BY <1>1, <1>2 DEF LateInv
<1>5. Uncontested'
  BY <1>1, <1>2 DEF Uncontested, Alone, Stored, Announced
<1> QED
  BY <1>3, <1>4, <1>5

(* What is listed as overdue was PENDING, hence not decided.                *)
LEMMA ListStep ==
  ASSUME IInv, NEW v \in Device, ExpireOverdue(v)
  PROVE  Decided' /\ LateInv' /\ Uncontested'
<1> USE DEF IInv, ExpireOverdue, InboxGoes, calls, notifier
<1>1. CASE row' = row
  BY <1>1, QuietStep DEF Quiet
<1>2. CASE row = "PENDING" /\ row' = "EXPIRED"
  <2>1. \A c \in Decision : call[c] \notin {"publish", "answered"}
    BY <1>2 DEF Decided
  <2>2. Answered = {}
    BY <2>1 DEF Answered
  <2>3. Decided' /\ LateInv'
    BY <1>2 DEF Decided, LateInv, Answered
  <2>4. ASSUME ~contested' PROVE Alone' /\ Stored' /\ (Announced' => Answered' # {})
    <3>1. Alone /\ ~Announced
      BY <2>2, <2>4 DEF Uncontested
    <3>2. bus = << >> /\ \A w \in Watcher : told[w] = "nothing"
      BY <3>1 DEF Announced
    <3> QED
      BY <2>1, <3>1, <3>2 DEF Alone, Stored, Announced
  <2> QED
    BY <2>3, <2>4 DEF Uncontested
<1> QED
  BY <1>1, <1>2

(* What is delivered is what the row holds.                                 *)
LEMMA DeliverStep ==
  ASSUME IInv, Deliver \/ LoseMessages
  PROVE  Decided' /\ LateInv' /\ Uncontested'
<1> USE DEF IInv, TypeOK, table, calls
<1>1. /\ UNCHANGED <<row, call, verdict, late, contested>>
      /\ bus # << >>
      /\ Answered' = Answered
  BY DEF Deliver, LoseMessages, Answered
<1>2. Decided' /\ LateInv'
  BY <1>1 DEF Decided, LateInv
<1>3. ASSUME ~contested' PROVE Alone' /\ Stored' /\ (Announced' => Answered' # {})
  <2>1. Alone /\ Stored /\ Answered # {}
    BY <1>1, <1>3 DEF Uncontested, Announced
  <2>2. Head(bus) = row /\ \A i \in 1 .. Len(Tail(bus)) : Tail(bus)[i] = row
    BY <1>1, <2>1 DEF Stored
  <2>3. CASE Deliver
    BY <1>1, <2>1, <2>2, <2>3 DEF Deliver, Stored, Alone
  <2>4. CASE LoseMessages
    BY <1>1, <2>1, <2>4 DEF LoseMessages, Stored, Alone
  <2> QED
    BY <2>3, <2>4
<1> QED
  BY <1>2, <1>3 DEF Uncontested

LEMMA Inductive == IInv /\ [Next]_vars => IInv'
<1> SUFFICES ASSUME IInv, [Next]_vars PROVE IInv'
  OBVIOUS
<1>1. TypeOK'
  BY TypeStep DEF IInv
<1> SUFFICES Decided' /\ LateInv' /\ Uncontested'
  BY <1>1 DEF IInv
<1>2. CASE PostSend
  <2>1. row = "none" /\ row' = "PENDING"
    BY <1>2 DEF PostSend
  <2>2. \A c \in Decision : call[c] \notin {"publish", "answered"}
    BY <2>1 DEF IInv, Decided
  <2>3. Answered = {} /\ Answered' = {}
    BY <1>2, <2>2 DEF Answered, PostSend, calls
  <2>4. Decided' /\ LateInv'
    BY <1>2, <2>2, <2>3 DEF IInv, Decided, LateInv, PostSend, calls
  <2>5. ASSUME ~contested' PROVE Alone' /\ Stored' /\ (Announced' => Answered' # {})
    <3>1. Alone /\ ~Announced
      BY <1>2, <2>3, <2>5 DEF IInv, Uncontested, PostSend, calls
    <3>2. bus' = << >> /\ \A w \in Watcher : told'[w] = "nothing"
      BY <1>2, <3>1 DEF Announced, PostSend, notifier
    <3> QED
      BY <1>2, <2>2, <3>1, <3>2 DEF Alone, Stored, Announced, PostSend, calls
  <2> QED
    BY <2>4, <2>5 DEF Uncontested
<1>3. CASE FallDue \/ Sweep
  BY <1>3, QuietStep DEF Quiet, FallDue, Sweep, table, calls, notifier
<1>4. CASE Deliver \/ LoseMessages
  BY <1>4, DeliverStep
<1>5. ASSUME NEW c \in Decision, Serve(c) PROVE Decided' /\ LateInv' /\ Uncontested'
  BY <1>5, FindStep, WriteStep, PublishStep DEF Serve
<1>6. ASSUME NEW v \in Device, Load(v) \/ Show(v) \/ DismissDialog(v)
      PROVE  Decided' /\ LateInv' /\ Uncontested'
  <2>1. CASE ExpireOverdue(v)
    BY <2>1, ListStep
  <2>2. CASE Load(v) \/ FindPending(v) \/ DismissDialog(v) \/ \E c \in Decision : Answer(v, c)
    BY <2>2, QuietStep DEF Quiet, Load, FindPending, DismissDialog, Answer, table, calls, notifier
  <2> QED
    BY <1>6, <2>1, <2>2 DEF Show
<1>7. ASSUME NEW v \in Device, NEW c \in Decision, NEW d \in Verdict, Decide(v, c, d)
      PROVE  Decided' /\ LateInv' /\ Uncontested'
  BY <1>7, DecideStep
<1>8. ASSUME NEW w \in Watcher, Watch(w) \/ Connect(w)
      PROVE  Decided' /\ LateInv' /\ Uncontested'
  BY <1>8, QuietStep DEF Quiet, Watch, Connect, table, calls
<1>9. CASE UNCHANGED vars
  BY <1>9, QuietStep DEF Quiet, vars, table, calls, notifier
<1> QED
  BY <1>2, <1>3, <1>4, <1>5, <1>6, <1>7, <1>8, <1>9 DEF Next

LEMMA Invariance == Spec => []IInv
  BY InitInv, Inductive, PTL DEF Spec

-----------------------------------------------------------------------------
(* The row, the calls, the inboxes and the notifier keep their types.       *)
THEOREM RequestsTypeCorrect == Spec => []TypeOK
<1>1. IInv => TypeOK
  BY DEF IInv
<1> QED
  BY <1>1, Invariance, PTL

(* A decision that comes in after an answered one changes nothing.          *)
THEOREM LateDecisions == Spec => []LateIsRefused
<1>1. IInv => LateIsRefused
  BY DEF IInv, LateInv, LateIsRefused
<1> QED
  BY <1>1, Invariance, PTL

(* What was answered and announced without contest is what the table says.  *)
THEOREM UncontestedDecisions == Spec => []UncontestedStands
<1>1. IInv => UncontestedStands
  BY DEF IInv, Uncontested, Stored, UncontestedStands, Answered
<1> QED
  BY <1>1, Invariance, PTL

(* Both halves of what the decisions on a request promise                   *)
(* (verify-request.routes.ts, PATCH).                                       *)
THEOREM DecisionsHold == Spec => []DecisionsStand
<1>1. LateIsRefused /\ UncontestedStands => DecisionsStand
  BY DEF DecisionsStand
<1> QED
  BY <1>1, LateDecisions, UncontestedDecisions, PTL

-----------------------------------------------------------------------------
(* The verifier's page.                                                      *)

(* The strengthening: until the page was overtaken, every fetch about a     *)
(* request is about the one on the page; and a page that waits has one.     *)
FetchesAreOfThePage ==
  /\ step = "waiting" => request \in ProofRequest
  /\ ~overtaken =>
       \A q \in ProofRequest : simulating[q] + polling[q] > 0 => q = request

VerifierInv ==
  VerifierTypeOK /\ FetchesAreOfThePage /\ GrantIsOfThisRequest

LEMMA VerifierInitInv == VerifierInit => VerifierInv
<1> SUFFICES ASSUME VerifierInit PROVE VerifierInv
  OBVIOUS
<1>1. VerifierTypeOK
  BY DEF VerifierInit, VerifierTypeOK
<1> QED
  BY <1>1 DEF VerifierInit, VerifierInv, FetchesAreOfThePage, GrantIsOfThisRequest

(* One fetch fewer about a request leaves a natural number of them.         *)
LEMMA OneLessIsFewer ==
  ASSUME NEW f \in [ProofRequest -> Nat], NEW f2, NEW q \in ProofRequest, f[q] > 0,
         f2 = [f EXCEPT ![q] = @ - 1]
  PROVE  f2 \in [ProofRequest -> Nat] /\ \A r \in ProofRequest : f2[r] <= f[r]
OBVIOUS

LEMMA VerifierStepInv == VerifierInv /\ [VerifierNext]_pageVars => VerifierInv'
<1> SUFFICES ASSUME VerifierInv, [VerifierNext]_pageVars PROVE VerifierInv'
  OBVIOUS
<1> USE DEF VerifierInv
<1>1. CASE Generate \/ GenerateFails
  <2>1. generating' \in Nat
    BY <1>1 DEF Generate, GenerateFails, VerifierTypeOK
  <2> QED
    BY <1>1, <2>1 DEF Generate, GenerateFails, VerifierTypeOK, FetchesAreOfThePage,
                      GrantIsOfThisRequest
<1>2. CASE Simulate
  <2>1. /\ request \in ProofRequest
        /\ simulating' \in [ProofRequest -> Nat]
        /\ \A q \in ProofRequest : q # request => simulating'[q] = simulating[q]
    BY <1>2 DEF Simulate, Waiting, VerifierTypeOK, FetchesAreOfThePage
  <2>2. VerifierTypeOK'
    BY <1>2, <2>1 DEF Simulate, VerifierTypeOK
  <2> QED
    BY <1>2, <2>1, <2>2 DEF Simulate, FetchesAreOfThePage, GrantIsOfThisRequest
<1>3. CASE Poll
  <2>1. /\ request \in ProofRequest
        /\ polling' \in [ProofRequest -> Nat]
        /\ \A q \in ProofRequest : q # request => polling'[q] = polling[q]
    BY <1>3 DEF Poll, Waiting, VerifierTypeOK, FetchesAreOfThePage
  <2>2. VerifierTypeOK'
    BY <1>3, <2>1 DEF Poll, VerifierTypeOK
  <2> QED
    BY <1>3, <2>1, <2>2 DEF Poll, FetchesAreOfThePage, GrantIsOfThisRequest
<1>4. CASE Reset
  <2>1. VerifierTypeOK'
    BY <1>4 DEF Reset, Overtakes, fetches, VerifierTypeOK
  <2>2. FetchesAreOfThePage'
    BY <1>4 DEF Reset, Overtakes, fetches, FetchesAreOfThePage
  <2> QED
    BY <1>4, <2>1, <2>2 DEF Reset, GrantIsOfThisRequest
<1>5. CASE SignOut
  BY <1>5 DEF SignOut, fetches, VerifierTypeOK, FetchesAreOfThePage, GrantIsOfThisRequest
<1>6. ASSUME NEW q \in ProofRequest, Generated(q)
      PROVE  VerifierInv'
  <2>1. generating' \in Nat
    BY <1>6 DEF Generated, VerifierTypeOK
  <2>2. VerifierTypeOK'
    BY <1>6, <2>1 DEF Generated, Overtakes, VerifierTypeOK
  <2>3. FetchesAreOfThePage'
    BY <1>6 DEF Generated, Overtakes, FetchesAreOfThePage
  <2> QED
    BY <1>6, <2>2, <2>3 DEF Generated, GrantIsOfThisRequest
<1>7. ASSUME NEW q \in ProofRequest, Simulated(q)
      PROVE  VerifierInv'
  <2>1. /\ simulating' \in [ProofRequest -> Nat]
        /\ \A r \in ProofRequest : simulating'[r] <= simulating[r]
    BY <1>7, OneLessIsFewer DEF Simulated, OneLess, VerifierTypeOK
  <2>2. VerifierTypeOK'
    BY <1>7, <2>1 DEF Simulated, Verified, VerifierTypeOK, Result
  <2>3. FetchesAreOfThePage'
    BY <1>7, <2>1, <2>2 DEF Simulated, Verified, FetchesAreOfThePage, VerifierTypeOK
  <2>4. ~overtaken => q = request
    BY <1>7 DEF Simulated, FetchesAreOfThePage, VerifierTypeOK
  <2>5. GrantIsOfThisRequest'
    BY <1>7, <2>4 DEF Simulated, Verified, GrantIsOfThisRequest
  <2> QED
    BY <2>2, <2>3, <2>5
<1>8. ASSUME NEW q \in ProofRequest, Push(q)
      PROVE  VerifierInv'
  <2>1. VerifierTypeOK'
    BY <1>8 DEF Push, Verified, fetches, VerifierTypeOK, Result
  <2> QED
    BY <1>8, <2>1 DEF Push, Verified, fetches, FetchesAreOfThePage, GrantIsOfThisRequest
<1>9. ASSUME NEW q \in ProofRequest, Polled(q)
      PROVE  VerifierInv'
  <2>1. /\ polling' \in [ProofRequest -> Nat]
        /\ \A r \in ProofRequest : polling'[r] <= polling[r]
    BY <1>9, OneLessIsFewer DEF Polled, OneLess, VerifierTypeOK
  <2>2. VerifierTypeOK'
    BY <1>9, <2>1 DEF Polled, Verified, VerifierTypeOK, Result
  <2>3. FetchesAreOfThePage'
    BY <1>9, <2>1, <2>2 DEF Polled, Verified, FetchesAreOfThePage, VerifierTypeOK
  <2>4. ~overtaken => q = request
    BY <1>9 DEF Polled, FetchesAreOfThePage, VerifierTypeOK
  <2>5. GrantIsOfThisRequest'
    BY <1>9, <2>4 DEF Polled, Verified, GrantIsOfThisRequest
  <2> QED
    BY <2>2, <2>3, <2>5
<1>10. CASE UNCHANGED pageVars
  BY <1>10 DEF pageVars, fetches, VerifierTypeOK, FetchesAreOfThePage, GrantIsOfThisRequest
<1> QED
  BY <1>1, <1>2, <1>3, <1>4, <1>5, <1>6, <1>7, <1>8, <1>9, <1>10 DEF VerifierNext

(* The page and its fetches keep their types.                               *)
THEOREM VerifierTypeCorrect == VerifierSpec => []VerifierTypeOK
<1>1. VerifierInv => VerifierTypeOK
  BY DEF VerifierInv
<1> QED
  BY VerifierInitInv, VerifierStepInv, <1>1, PTL DEF VerifierSpec

(* verifier/page.tsx:201-257, 334-380: what the page shows as granted is    *)
(* about its request when a push says so, always, and when a fetch says so  *)
(* until a request was replaced before its fetches were answered.           *)
THEOREM GrantsAreOfTheirRequest == VerifierSpec => []GrantIsOfThisRequest
<1>1. VerifierInv => GrantIsOfThisRequest
  BY DEF VerifierInv
<1> QED
  BY VerifierInitInv, VerifierStepInv, <1>1, PTL DEF VerifierSpec
=============================================================================
