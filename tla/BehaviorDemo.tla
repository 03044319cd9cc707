----------------------------- MODULE BehaviorDemo -----------------------------
(***************************************************************************)
(* The live risk monitor (web/src/components/BehavioralAuthDemo.tsx): it    *)
(* sends behaviour events while it collects, imitates an attacker with a    *)
(* timer that ticks every 200 ms, locks on a high score or a step-up, and   *)
(* re-authenticates.  Two delayed callbacks, the start after a reconnect    *)
(* and the "restored" after a success, fire whatever has become of the page *)
(* since; a panel that fades out still takes clicks; and nothing clears the *)
(* attacker's timers but triggerLock, reset and the timer itself.           *)
(***************************************************************************)
EXTENDS Naturals, FiniteSets

CONSTANTS
  Interval,     \* the attacker's timers, as setInterval hands them out
  MaxDelayed    \* how many delayed callbacks of a kind are pending at most

VARIABLES
  phase,        \* DemoPhase, or that the component was unmounted
  panel,        \* the phase whose panel is on the page, with its buttons
  collecting,   \* collectingRef
  ticking,      \* the attacker's timers that run
  attacker,     \* attackerTimer: the timers it may name, none or one
  starts,       \* startCollecting's timeouts under way
  reauthing,    \* whether handleReAuth is under way
  reAuthResult, \* its last result
  restores,     \* its timeouts under way
  strayed       \* a delayed callback fired during an attack, or an attack
                \* began outside "collecting", and since then no lock or
                \* reset has left all timers cleared (history)

timers == <<ticking, attacker>>
proof == <<reauthing, reAuthResult, restores>>
page == <<phase, panel>>
demoVars == <<page, collecting, timers, starts, proof, strayed>>

Monitoring == {"collecting", "attacking"}
Phase == Monitoring \union {"idle", "locked", "restored"}

(* The panels with an exit animation.  AnimatePresence shows the next one   *)
(* when it is over.                                                         *)
Fading == Monitoring \union {"idle"}

DemoTypeOK ==
  /\ phase \in Phase \union {"unmounted"}
  /\ panel \in Phase
  /\ collecting \in BOOLEAN
  /\ ticking \subseteq Interval
  /\ attacker \subseteq Interval /\ Cardinality(attacker) <= 1
  /\ starts \in Nat
  /\ reauthing \in BOOLEAN
  /\ reAuthResult \in {"none", "success", "failed"}
  /\ restores \in Nat
  /\ strayed \in BOOLEAN

DemoInit ==
  /\ phase = "idle"
  /\ panel = "idle"
  /\ collecting = FALSE
  /\ ticking = {}
  /\ attacker = {}
  /\ starts = 0
  /\ reauthing = FALSE
  /\ reAuthResult = "none"
  /\ restores = 0
  /\ strayed = FALSE

-----------------------------------------------------------------------------
Mounted == phase # "unmounted"

(* setPhase, which React drops once the component is gone.                  *)
SetPhase(next) ==
  /\ phase' = IF Mounted THEN next ELSE phase
  /\ panel' = IF Mounted /\ panel \notin Fading THEN next ELSE panel

PanelChanges ==
  /\ Mounted
  /\ panel # phase
  /\ panel' = phase
  /\ UNCHANGED <<phase, collecting, timers, starts, proof, strayed>>

(* A button takes a click while its panel is on the page.                   *)
Shown(panels) == Mounted /\ panel \in panels

(* clearInterval(attackerTimer.current); a cleared timer stays named. *)
ClearAttacker ==
  /\ ticking' = ticking \ attacker
  /\ UNCHANGED attacker

\* Mutant: the lock leaves the attacker's timer alone.
LockOnly ==
  /\ collecting' = FALSE
  /\ SetPhase("locked")
  /\ UNCHANGED timers

TriggerLock ==
  /\ collecting' = FALSE
  /\ ClearAttacker
  /\ SetPhase("locked")

StartsCollecting ==
  /\ collecting' = TRUE
  /\ SetPhase("collecting")

Strays == strayed' = (strayed \/ phase = "attacking")
Settles == strayed' = (strayed /\ ticking' # {})

-----------------------------------------------------------------------------
(* RISK_UPDATE with a smoothed score of 0.75 or more, or STEP_UP_REQUIRED.  *)
(* Other scores change only what is drawn.                                  *)
Alarm ==
  /\ Mounted
  /\ phase \in Monitoring \/ (collecting /\ phase # "locked")
  /\ TriggerLock
  /\ Settles
  /\ UNCHANGED <<starts, proof>>

(* "Start Monitoring" and "Monitor Again"; without a socket it reconnects   *)
(* and starts a second later, and the button stays.                         *)
StartCollecting ==
  /\ Shown({"idle", "restored"})
  /\ \/ StartsCollecting /\ UNCHANGED starts
     \/ /\ starts < MaxDelayed
        /\ starts' = starts + 1
        /\ UNCHANGED <<page, collecting>>
  /\ UNCHANGED <<timers, proof, strayed>>

StartFires ==
  /\ starts > 0
  /\ starts' = starts - 1
  /\ StartsCollecting
  /\ Strays
  /\ UNCHANGED <<timers, proof>>

(* "Simulate Attacker", whatever the phase is by now: the ref gets the name *)
(* of the new timer and loses that of an older one.                         *)
SimulateAttacker(i) ==
  /\ Shown({"collecting"})
  /\ i \notin ticking
  /\ SetPhase("attacking")
  /\ ticking' = ticking \union {i}
  /\ attacker' = {i}
  /\ strayed' = (strayed \/ phase # "collecting")
  /\ UNCHANGED <<collecting, starts, proof>>

(* A tick after the sixtieth; earlier ones only send events.  It clears the *)
(* timer that attackerTimer names, which need not be its own.               *)
LateTick(i) ==
  /\ i \in ticking
  /\ \/ collecting /\ TriggerLock /\ Settles
     \/ ~collecting /\ ClearAttacker /\ UNCHANGED <<page, collecting, strayed>>
  /\ UNCHANGED <<starts, proof>>

-----------------------------------------------------------------------------
(* The button is shown while there is no result of an earlier attempt.      *)
HandleReAuth ==
  /\ Shown({"locked"})
  /\ reAuthResult = "none"
  /\ ~reauthing
  /\ reauthing' = TRUE
  /\ UNCHANGED <<page, collecting, timers, starts, reAuthResult, restores, strayed>>

ReAuthAnswers ==
  /\ reauthing
  /\ reauthing' = FALSE
  /\ \/ /\ restores < MaxDelayed
        /\ reAuthResult' = "success"
        /\ restores' = restores + 1
     \/ reAuthResult' = "failed" /\ UNCHANGED restores
  /\ UNCHANGED <<page, collecting, timers, starts, strayed>>

RestoreFires ==
  /\ restores > 0
  /\ restores' = restores - 1
  /\ SetPhase("restored")
  /\ collecting' = FALSE
  /\ Strays
  /\ UNCHANGED <<timers, starts, reauthing, reAuthResult>>

(* "Stop" and "Reset"; an attack offers neither. *)
ResetDemo ==
  /\ Shown({"collecting", "locked", "restored"})
  /\ SetPhase("idle")
  /\ collecting' = FALSE
  /\ ClearAttacker
  /\ reAuthResult' = "none"
  /\ Settles
  /\ UNCHANGED <<starts, reauthing, restores>>

(* The effects' clean-ups remove listeners; they clear no timer. *)
Unmount ==
  /\ Mounted
  /\ phase' = "unmounted"
  /\ UNCHANGED <<panel, collecting, timers, starts, proof, strayed>>

DemoNext ==
  \/ Alarm \/ StartCollecting \/ StartFires
  \/ \E i \in Interval : SimulateAttacker(i) \/ LateTick(i)
  \/ PanelChanges \/ HandleReAuth \/ ReAuthAnswers \/ RestoreFires \/ ResetDemo \/ Unmount

DemoSpec == DemoInit /\ [][DemoNext]_demoVars

-----------------------------------------------------------------------------
(* Nothing is sent that the page does not show: whatever callbacks and      *)
(* clicks are late, the ref that sendEvent reads is set only while the      *)
(* phase says that it monitors ...                                          *)
SendsOnlyWhatItShows == Mounted => (collecting => phase \in Monitoring)

(* ... and unless a delayed callback came during an attack, or a click on   *)
(* "Simulate Attacker" after "collecting" was over, it is set whenever the  *)
(* phase says so, and an imitated attack ends with its phase: no timer      *)
(* ticks outside it, nor one that nobody can clear.  A lock or a reset that *)
(* clears the last timer restores all this.                                 *)
ShowsWhatItDoes ==
  Mounted /\ ~strayed =>
    /\ phase \in Monitoring => collecting
    /\ ticking \subseteq attacker /\ (ticking # {} => phase = "attacking")

(* BehavioralAuthDemo.tsx:66-98, 163-217, 278-289: what the monitor does is *)
(* what it shows.                                                           *)
MonitorIsHonest == SendsOnlyWhatItShows /\ ShowsWhatItDoes

(* "SESSION LOCKED": only a proof or a reset leads out.  A delayed start    *)
(* refutes it.                                                              *)
LockHolds == [][phase = "locked" => phase' # "collecting"]_demoVars
=============================================================================
