-------------------------------- MODULE Alarm --------------------------------
(***************************************************************************)
(* One alarm for three purposes.  The process has one interval timer and   *)
(* one SIGALRM handler; a phase of the tournament owns them, and inside it *)
(* a push to the operator, or the conversion of a CDF, borrows both and    *)
(* gives back what is left.                                                *)
(*                                                                         *)
(* Sources: timeouts.py, notify.py (_push_deadline), forecast/cdf.py       *)
(* (_bounded).                                                             *)
(*                                                                         *)
(* Simplifications.                                                        *)
(*  - Time is in ticks of notify._PHASE_MARGIN.  It passes while a phase,  *)
(*    a push or a conversion is at work; MaxLate bounds the ticks that     *)
(*    pass between two calls that install or take down an alarm.           *)
(*  - Phases do not nest, nor do pushes and conversions.                   *)
(***************************************************************************)
EXTENDS Integers

CONSTANTS
    Limit,      \* of a phase, 240 or 480 seconds
    PushLimit,  \* notify.timeout_seconds
    Bound,      \* numeric_calibration.conversion_timeout_seconds
    MaxPhases,  \* bound on the phases
    MaxAge,     \* bound on the age of a phase
    MaxLate     \* bound on the ticks between two calls

ASSUME AlarmBounds ==
    /\ {Limit, PushLimit, Bound} \subseteq Nat \ {0}
    /\ {MaxPhases, MaxAge, MaxLate} \subseteq Nat

VARIABLES
    pc,       \* where the process is
    timer,    \* ticks left of the interval timer, 0 when it is not set
    due,      \* an alarm was delivered and is to be handled
    handler,  \* of SIGALRM
    armed,    \* the conversion's handler takes an alarm for its own
    saved,    \* what the borrower found
    age,      \* ticks since the phase began
    ended,    \* how the last phase did
    phases,   \* phases begun
    late,     \* ticks that passed between two calls, in this phase
    raced     \* one of them made an alarm due

alarm == <<timer, due, handler, armed, saved>>
clock == <<age, ended, phases, late, raced>>
vars == <<pc, alarm, clock>>

Handlers == {"default", "phase", "push", "conversion"}

\* Where time passes, in the code of others.
AtWork == {"phase", "pushing", "converting"}

Push == {"read", "installed", "pushing", "pushed", "disarmed", "restored"}

Conversion == {"found", "handed", "armed", "converting", "converted", "stopped",
               "replaced"}

TypeOK ==
    /\ pc \in {"out", "phase", "leaving", "left", "died"} \cup Push \cup Conversion
    /\ timer \in 0 .. Limit + PushLimit + Bound
    /\ due \in BOOLEAN
    /\ handler \in Handlers
    /\ armed \in BOOLEAN
    /\ saved \in [home : {"out", "phase"}, handler : Handlers, outer : Nat,
                  elapsed : Nat]
    /\ age \in 0 .. MaxAge
    /\ ended \in {"no", "done", "limit"}
    /\ phases \in 0 .. MaxPhases
    /\ late \in 0 .. MaxLate
    /\ raced \in BOOLEAN

Nothing == [home |-> "out", handler |-> "default", outer |-> 0, elapsed |-> 0]

Init ==
    /\ pc = "out"
    /\ timer = 0
    /\ due = FALSE
    /\ handler = "default"
    /\ armed = FALSE
    /\ saved = Nothing
    /\ age = 0
    /\ ended = "no"
    /\ phases = 0
    /\ late = 0
    /\ raced = FALSE

-----------------------------------------------------------------------------
(* Time                                                                    *)

InPhase ==
    \/ pc = "phase"
    \/ pc \in Push \cup Conversion /\ saved.home = "phase"

\* Since `started': a push reads it after its handler is in place, a conversion
\* before, so before it learns what is left.
Measured == (Push \cup Conversion) \ {"read"}

\* A tick.  When the timer runs out its alarm is due, and is handled before the
\* process takes another step.
Tick ==
    /\ ~due
    /\ pc \notin {"out", "died"}
    /\ age < MaxAge
    /\ age' = IF InPhase THEN age + 1 ELSE age
    /\ pc \notin AtWork => late < MaxLate
    /\ late' = IF pc \in AtWork THEN late ELSE late + 1
    /\ raced' = (raced \/ (pc \notin AtWork /\ timer = 1))
    /\ timer' = IF timer > 0 THEN timer - 1 ELSE 0
    /\ due' = (timer = 1)
    /\ saved' = IF pc \in Measured THEN [saved EXCEPT !.elapsed = @ + 1] ELSE saved
    /\ UNCHANGED <<pc, handler, armed, ended, phases>>

\* A step of the process itself.
Step(from, to) == pc = from /\ ~due /\ pc' = to

\* setitimer: a time that is over is set to the smallest one, due at once.
Set(ticks) ==
    /\ timer' = IF ticks > 0 THEN ticks ELSE 0
    /\ due' = (ticks <= 0)

-----------------------------------------------------------------------------
(* Phases                                                                  *)

EnterPhase ==
    /\ Step("out", "phase")
    /\ phases < MaxPhases
    /\ phases' = phases + 1
    /\ handler' = "phase"
    /\ Set(Limit)
    /\ age' = 0
    /\ ended' = "no"
    /\ late' = 0
    /\ raced' = FALSE
    /\ UNCHANGED <<armed, saved>>

EndPhase ==
    /\ Step("phase", "leaving")
    /\ ended' = "done"
    /\ UNCHANGED <<alarm, age, phases, late, raced>>

\* _PhaseExpired, whatever the phase was at.
Expire ==
    /\ pc' = "leaving"
    /\ ended' = "limit"
    /\ UNCHANGED handler

LeavePhase ==
    /\ Step("leaving", "left")
    /\ timer' = 0
    /\ UNCHANGED <<due, handler, armed, saved, clock>>

\* What the phase found was the default handler.
RestorePhase ==
    /\ Step("left", "out")
    /\ handler' = "default"
    /\ saved' = Nothing
    /\ UNCHANGED <<timer, due, armed, clock>>

-----------------------------------------------------------------------------
(* Pushes                                                                  *)

\* Ticks a push may take: of a phase it leaves the last one alone.
Budget(outer) ==
    IF outer > 0 /\ outer - 1 < PushLimit THEN outer - 1 ELSE PushLimit

\* The outer timer and handler are read; a push without time is given up.
BeginPush ==
    /\ pc \in {"out", "phase"}
    /\ ~due
    /\ Budget(timer) > 0
    /\ pc' = "read"
    /\ saved' = [home |-> pc, handler |-> handler, outer |-> timer, elapsed |-> 0]
    /\ UNCHANGED <<timer, due, handler, armed, clock>>

InstallPush ==
    /\ Step("read", "installed")
    /\ handler' = "push"
    /\ UNCHANGED <<timer, due, armed, saved, clock>>

ArmPush ==
    /\ Step("installed", "pushing")
    /\ Set(Budget(saved.outer))
    /\ UNCHANGED <<handler, armed, saved, clock>>

\* It was delivered, or refused, or could not be made.
EndPush ==
    /\ Step("pushing", "pushed")
    /\ UNCHANGED <<alarm, clock>>

DisarmPush ==
    /\ Step("pushed", "disarmed")
    /\ timer' = 0
    /\ UNCHANGED <<due, handler, armed, saved, clock>>

RestorePush ==
    /\ Step("disarmed", "restored")
    /\ handler' = saved.handler
    /\ UNCHANGED <<timer, due, armed, saved, clock>>

\* Mutant of Rearm: a time that is over is set as zero, which sets nothing.
YRearm ==
    IF saved.outer > saved.elapsed THEN Set(saved.outer - saved.elapsed)
                                   ELSE UNCHANGED <<timer, due>>

\* Mutant of Rearm: the push's budget is taken for what was found.
ZRearm ==
    IF saved.outer > 0 THEN Set(Budget(saved.outer) - saved.elapsed)
                       ELSE UNCHANGED <<timer, due>>

\* What is left of the outer time is set again.
Rearm ==
    IF saved.outer > 0 THEN Set(saved.outer - saved.elapsed)
                       ELSE UNCHANGED <<timer, due>>

GiveBack ==
    /\ \/ Step("restored", saved.home)
       \/ Step("replaced", saved.home)
    /\ Rearm
    /\ saved' = Nothing
    /\ UNCHANGED <<handler, armed, clock>>

-----------------------------------------------------------------------------
(* Conversions                                                             *)

BeginConversion ==
    /\ pc \in {"out", "phase"}
    /\ ~due
    /\ pc' = "found"
    /\ saved' = [home |-> pc, handler |-> handler, outer |-> 0, elapsed |-> 0]
    /\ UNCHANGED <<timer, due, handler, armed, clock>>

InstallConversion ==
    /\ Step("found", "handed")
    /\ handler' = "conversion"
    /\ UNCHANGED <<timer, due, armed, saved, clock>>

RaiseFlag ==
    /\ Step("handed", "armed")
    /\ armed' = TRUE
    /\ UNCHANGED <<timer, due, handler, saved, clock>>

\* setitimer returns what it replaces.
ArmConversion ==
    /\ Step("armed", "converting")
    /\ saved' = [saved EXCEPT !.outer = timer]
    /\ Set(Bound)
    /\ UNCHANGED <<handler, armed, clock>>

EndConversion ==
    /\ Step("converting", "converted")
    /\ armed' = FALSE
    /\ UNCHANGED <<timer, due, handler, saved, clock>>

DisarmConversion ==
    /\ Step("converted", "stopped")
    /\ timer' = 0
    /\ UNCHANGED <<due, handler, armed, saved, clock>>

RestoreConversion ==
    /\ Step("stopped", "replaced")
    /\ handler' = saved.handler
    /\ UNCHANGED <<timer, due, armed, saved, clock>>

-----------------------------------------------------------------------------
(* Alarms                                                                  *)

\* The conversion's handler hands on an alarm that is not its own.
Answering == IF handler = "conversion" /\ ~armed THEN saved.handler ELSE handler

\* The end of the phase; while it is left, nothing catches it.
PhaseAlarm ==
    /\ due /\ due' = FALSE
    /\ Answering = "phase"
    /\ IF pc \in {"leaving", "left"}
         THEN pc' = "died" /\ UNCHANGED <<handler, ended>>
         ELSE Expire
    /\ saved' = Nothing
    /\ UNCHANGED <<timer, armed, age, phases, late, raced>>

\* The push ends and takes its alarm down, unless the exception comes before
\* its try or inside its finally: then its handler stays.  A handler that
\* stayed raises where nothing expects it.
PushAlarm ==
    /\ due /\ due' = FALSE
    /\ Answering = "push"
    /\ \/ pc \in {"installed", "pushing", "pushed"} /\ pc' = "pushed" /\ UNCHANGED saved
       \/ pc \in {"installed", "pushed"} /\ pc' = saved.home /\ saved' = Nothing
       \/ pc \notin {"installed", "pushing", "pushed"} /\ pc' = "died" /\ UNCHANGED saved
    /\ UNCHANGED <<timer, handler, armed, clock>>

\* The conversion ends and takes its alarm down, unless the alarm was still the
\* phase's: nothing is taken down, and what stays hands on to the phase.
ConversionAlarm ==
    /\ due /\ due' = FALSE
    /\ handler = "conversion" /\ armed
    /\ armed' = FALSE
    /\ IF pc = "converting"
         THEN pc' = "converted" /\ UNCHANGED <<handler, saved>>
         ELSE pc' = saved.home /\ handler' = saved.handler /\ saved' = Nothing
    /\ UNCHANGED <<timer, clock>>

\* There is nobody to hand it on to.
StrayAlarm ==
    /\ due /\ due' = FALSE
    /\ Answering = "default"
    /\ UNCHANGED <<pc, timer, handler, armed, saved, clock>>

\* The next start of the service.
Restart ==
    /\ pc = "died"
    /\ pc' = "out"
    /\ timer' = 0
    /\ due' = FALSE
    /\ handler' = "default"
    /\ armed' = FALSE
    /\ saved' = Nothing
    /\ UNCHANGED clock

Next ==
    \/ Tick
    \/ EnterPhase \/ EndPhase \/ LeavePhase \/ RestorePhase
    \/ BeginPush \/ InstallPush \/ ArmPush \/ EndPush \/ DisarmPush \/ RestorePush
    \/ BeginConversion \/ InstallConversion \/ RaiseFlag \/ ArmConversion
    \/ EndConversion \/ DisarmConversion \/ RestoreConversion
    \/ GiveBack
    \/ PhaseAlarm \/ PushAlarm \/ ConversionAlarm \/ StrayAlarm
    \/ Restart

Spec == Init /\ [][Next]_vars

-----------------------------------------------------------------------------
(* Properties                                                              *)

\* However often pushes and conversions borrow the alarm, a phase at work has
\* it back: an alarm is set, or due, that is the phase's and comes when its
\* limit is reached, up to the ticks that passed between two calls and, for an
\* alarm due at once, the conversion that ran past it; and a push leaves its
\* phase time to go on (timeouts.py, notify._push_deadline, cdf._bounded).
\* Unless an alarm came between two calls.
PhaseKeepsItsAlarm ==
    /\ pc = "phase" /\ ~raced =>
        /\ handler = "phase"
        /\ timer > 0 \/ due
        /\ age + timer >= Limit - late
        /\ timer > 0 => age + timer <= Limit + late
        /\ age <= Limit + Bound + late
    /\ pc = "restored" /\ saved.home = "phase" /\ ~raced =>
        saved.elapsed < saved.outer + late

\* A phase is not ended before its limit by an alarm that was a push's or a
\* conversion's.  Unless one came between two calls.
PhaseIsNotCutShort ==
    ended = "limit" /\ ~raced => age >= Limit - late

\* A phase at work has an alarm, whatever came when (notify.py:277, "restore a
\* live timer, never disarm it"; cdf._bounded, Teardown and Handoff).
AlarmIsNeverLost == pc = "phase" => timer > 0 \/ due

=============================================================================
