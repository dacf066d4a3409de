---------------------------- MODULE AlarmInvariant ----------------------------
(***************************************************************************)
(* An inductive strengthening of the two properties of Alarm.  While no    *)
(* alarm came between two calls, what the borrower saved, what it has      *)
(* measured and the ticks between calls add up to the phase's limit at     *)
(* every step of a push and of a conversion.                               *)
(***************************************************************************)
EXTENDS Alarm

Borrowed == pc \in Push \cup Conversion

\* Before a borrower sets the timer for itself it is still the phase's.
PushBefore == {"read", "installed"}
ConversionBefore == {"found", "handed", "armed"}
ConversionAfter == {"converted", "stopped", "replaced"}

Saves == [home : {"out", "phase"}, handler : Handlers, outer : Nat, elapsed : Nat]

Types ==
    /\ pc \in {"out", "phase", "leaving", "left", "died"} \cup Push \cup Conversion
    /\ {timer, age, late} \subseteq Nat
    /\ due \in BOOLEAN /\ armed \in BOOLEAN /\ raced \in BOOLEAN
    /\ handler \in Handlers
    /\ saved \in Saves
    /\ due => timer = 0

\* An alarm comes to the one who set it.
AlarmsAreExpected ==
    /\ due => pc \in AtWork
    /\ pc = "phase" => handler = "phase"
    /\ pc \in {"installed", "pushing"} => handler = "push"
    /\ pc \in {"handed", "armed", "converting"} => handler = "conversion"
    /\ pc \in {"armed", "converting"} => armed
    /\ Borrowed /\ saved.home = "phase" => saved.handler = "phase"
    /\ pc \in {"restored", "replaced"} => handler = saved.handler

\* Who has an alarm.
TimersAreSet ==
    /\ pc \in AtWork => timer > 0 \/ due
    /\ pc \in PushBefore \cup ConversionBefore =>
        (timer > 0 <=> saved.home = "phase")
    /\ pc \in PushBefore => Budget(saved.outer) > 0
    /\ pc \in {"out", "left", "disarmed", "restored", "stopped", "replaced"} => timer = 0
    /\ Borrowed /\ pc \notin ConversionBefore =>
        (saved.outer > 0 <=> saved.home = "phase")

\* A phase at work has what is left of its limit.
PhaseIsOnTime ==
    pc = "phase" =>
        /\ age + timer >= Limit - late
        /\ timer > 0 => age + timer <= Limit + late
        /\ age <= Limit + Bound + late

\* A push measures from after it read the timer, and stops short of its end.
PushIsOnTime ==
    pc \in Push /\ saved.home = "phase" =>
        /\ age - saved.elapsed + saved.outer >= Limit - late
        /\ age - saved.elapsed + saved.outer <= Limit + late
        /\ LET rest == IF pc \in PushBefore THEN Budget(saved.outer)
                       ELSE IF pc = "pushing" THEN timer ELSE 0 IN
           /\ age + rest < Limit + late
           /\ saved.elapsed + rest < saved.outer + late

\* A conversion measures from before it replaces the timer, and may run past it.
ConversionIsOnTime ==
    pc \in Conversion /\ saved.home = "phase" =>
        LET outer == IF pc \in ConversionBefore THEN timer ELSE saved.outer IN
        /\ age - saved.elapsed + outer >= Limit - late
        /\ age - saved.elapsed + outer <= Limit + late
        /\ pc \in ConversionBefore => age + timer <= Limit + late
        /\ pc = "converting" => age + timer <= Limit + Bound + late
        /\ pc \in ConversionAfter => age <= Limit + Bound + late

OnTime ==
    /\ AlarmsAreExpected
    /\ TimersAreSet
    /\ PhaseIsOnTime
    /\ PushIsOnTime
    /\ ConversionIsOnTime

Inductive ==
    /\ Types
    /\ raced \/ OnTime
    /\ PhaseIsNotCutShort

=============================================================================
