---------------------------- MODULE AlarmProofs ----------------------------
(***************************************************************************)
(* Inductive holds at every step of Alarm, and what follows from it.       *)
(***************************************************************************)
EXTENDS AlarmInvariant, TLAPS

USE DEF AtWork, Push, Conversion, Borrowed, PushBefore, ConversionBefore,
        ConversionAfter, Step, alarm, clock

\* The three limits, as numbers.
LEMMA Limits ==
  /\ Limit \in Nat /\ Limit > 0
  /\ PushLimit \in Nat /\ PushLimit > 0
  /\ Bound \in Nat /\ Bound > 0
BY AlarmBounds

LEMMA NothingIsSaved == Nothing \in Saves
BY DEF Nothing, Saves, Handlers

\* A timer is set, or due at once.
LEMMA SetTo ==
  ASSUME NEW ticks \in Int, Set(ticks)
  PROVE  /\ timer' \in Nat /\ due' \in BOOLEAN
         /\ ticks > 0 => timer' = ticks /\ ~due'
         /\ ticks <= 0 => timer' = 0 /\ due'
<1>1. CASE ticks > 0
  <2>1. timer' = ticks
    BY <1>1 DEF Set
  <2>2. due' = FALSE
    <3>1. (ticks <= 0) = FALSE
      BY <1>1
    <3> QED
      BY <3>1 DEF Set
  <2>3. timer' \in Nat /\ ~(ticks <= 0)
    BY <1>1, <2>1
  <2> QED
    BY <2>1, <2>2, <2>3, Zenon
<1>2. CASE ticks <= 0
  <2>1. timer' = 0
    BY <1>2 DEF Set
  <2>2. due' = TRUE
    <3>1. (ticks <= 0) = TRUE
      BY <1>2
    <3> QED
      BY <3>1 DEF Set
  <2> QED
    BY <1>2, <2>1, <2>2
<1> QED
  BY <1>1, <1>2

\* A push takes less than what is left of its phase.
LEMMA BudgetIsLess ==
  ASSUME NEW outer \in Nat
  PROVE  /\ Budget(outer) \in Int
         /\ Budget(outer) <= PushLimit
         /\ outer > 0 => Budget(outer) < outer
BY Limits DEF Budget

\* Time passes: what the borrower has measured grows with the phase's age.
LEMMA TickStep == Inductive /\ Tick => Inductive'
<1> SUFFICES ASSUME Inductive, Tick PROVE Inductive'
  OBVIOUS
<1>1. timer \in Nat /\ (timer = 1 => due' /\ timer' = 0) /\ (timer # 1 => ~due')
  <2>1. timer \in Nat
    BY DEF Inductive, Types
  <2>2. timer = 1 => (timer = 1) = TRUE /\ timer' = 0
    BY <2>1 DEF Tick
  <2>3. timer # 1 => (timer = 1) = FALSE
    OBVIOUS
  <2> QED
    BY <2>1, <2>2, <2>3 DEF Tick
<1>2. ~raced' => ~raced
  BY Zenon DEF Tick
<1>3. Types'
  BY Limits, NothingIsSaved DEF Inductive, Types, Saves, Handlers, Tick, InPhase,
     Measured
<1>4. ASSUME ~raced' PROVE OnTime'
  <2>1. Types /\ OnTime
    BY <1>4 DEF Inductive, Tick, InPhase, Measured
  <2>2. AlarmsAreExpected'
    BY <1>4, <2>1 DEF Types, Saves, OnTime, AlarmsAreExpected, TimersAreSet,
       Tick, InPhase, Measured
  <2>3. TimersAreSet'
    BY <1>4, <1>1, <2>1, Limits DEF Types, Saves, OnTime, AlarmsAreExpected,
       TimersAreSet, Tick, InPhase, Measured
  <2>4. PhaseIsOnTime'
    BY <1>4, <2>1, Limits DEF Types, Saves, OnTime, AlarmsAreExpected,
       TimersAreSet, PhaseIsOnTime, PushIsOnTime, ConversionIsOnTime, Tick,
       InPhase, Measured
  <2>5. PushIsOnTime'
    BY <1>4, <2>1, Limits DEF Types, Saves, OnTime, TimersAreSet, PhaseIsOnTime,
       PushIsOnTime, Budget, Tick, InPhase, Measured
  <2>6. ConversionIsOnTime'
    BY <1>4, <2>1, Limits DEF Types, Saves, OnTime, TimersAreSet, PhaseIsOnTime,
       ConversionIsOnTime, Tick, InPhase, Measured
  <2> QED
    BY <2>2, <2>3, <2>4, <2>5, <2>6 DEF OnTime
<1>5. PhaseIsNotCutShort'
  <2>1. /\ age \in Nat /\ late \in Nat /\ age' \in Nat /\ late' \in Nat
        /\ age' >= age /\ late' >= late /\ ended' = ended
    BY <1>3 DEF Inductive, Types, Tick
  <2> SUFFICES ASSUME ended' = "limit", ~raced' PROVE age' >= Limit - late'
    BY DEF PhaseIsNotCutShort
  <2>2. age >= Limit - late
    BY <1>2, <2>1 DEF Inductive, PhaseIsNotCutShort
  <2>3. ASSUME NEW a \in Nat, NEW b \in Nat, NEW c \in Nat, NEW d \in Nat, NEW e \in Nat,
               a >= c - b, d >= a, e >= b
        PROVE  d >= c - e
    BY <2>3
  <2> QED
    BY <2>1, <2>2, <2>3, Limits
<1> QED
  BY <1>3, <1>4, <1>5 DEF Inductive

\* Phases.
LEMMA EnterPhaseStep == Inductive /\ EnterPhase => Inductive'
<1> SUFFICES ASSUME Inductive, EnterPhase PROVE Inductive'
  OBVIOUS
<1>1. timer' = Limit /\ ~due' /\ due' \in BOOLEAN
  BY Limits, SetTo DEF EnterPhase
<1>2. Types'
  <2>1. saved' \in Saves /\ handler' \in Handlers /\ armed' \in BOOLEAN
    BY DEF Inductive, Types, EnterPhase, Handlers
  <2>2. timer' \in Nat /\ age' \in Nat /\ late' \in Nat /\ raced' \in BOOLEAN
    BY <1>1, Limits DEF EnterPhase
  <2> QED
    BY <1>1, <2>1, <2>2 DEF Types, EnterPhase
<1>3. OnTime'
  BY <1>1, Limits DEF Inductive, Types, Saves, EnterPhase, OnTime,
     AlarmsAreExpected,
     TimersAreSet, PhaseIsOnTime, PushIsOnTime, ConversionIsOnTime
<1>4. PhaseIsNotCutShort'
  BY DEF EnterPhase, PhaseIsNotCutShort
<1> QED
  BY <1>2, <1>3, <1>4 DEF Inductive

LEMMA EndPhaseStep == Inductive /\ EndPhase => Inductive'
<1> SUFFICES ASSUME Inductive, EndPhase PROVE Inductive'
  OBVIOUS
<1>1. Types'
  BY Limits, NothingIsSaved DEF Inductive, Types, Saves, Handlers, EndPhase
<1>2. ASSUME ~raced' PROVE OnTime'
  <2>1. Types /\ OnTime
    BY <1>2 DEF Inductive, EndPhase
  <2>2. AlarmsAreExpected'
    BY <1>2, <2>1 DEF Types, Saves, OnTime, AlarmsAreExpected, TimersAreSet,
       EndPhase
  <2>3. TimersAreSet'
    BY <1>2, <2>1, Limits DEF Types, Saves, OnTime, AlarmsAreExpected,
       TimersAreSet, EndPhase
  <2>4. PhaseIsOnTime'
    BY <1>2, <2>1, Limits DEF Types, Saves, OnTime, AlarmsAreExpected,
       TimersAreSet, PhaseIsOnTime, PushIsOnTime, ConversionIsOnTime, EndPhase
  <2>5. PushIsOnTime'
    BY <1>2, <2>1, Limits DEF Types, Saves, OnTime, TimersAreSet, PhaseIsOnTime,
       PushIsOnTime, Budget, EndPhase
  <2>6. ConversionIsOnTime'
    BY <1>2, <2>1, Limits DEF Types, Saves, OnTime, TimersAreSet, PhaseIsOnTime,
       ConversionIsOnTime, EndPhase
  <2> QED
    BY <2>2, <2>3, <2>4, <2>5, <2>6 DEF OnTime
<1>3. PhaseIsNotCutShort'
  BY <1>2 DEF Inductive, Types, Saves, OnTime, AlarmsAreExpected, TimersAreSet,
     PhaseIsOnTime, PhaseIsNotCutShort, EndPhase
<1> QED
  BY <1>1, <1>2, <1>3 DEF Inductive

LEMMA LeavePhaseStep == Inductive /\ LeavePhase => Inductive'
<1> SUFFICES ASSUME Inductive, LeavePhase PROVE Inductive'
  OBVIOUS
<1>1. Types'
  BY Limits, NothingIsSaved DEF Inductive, Types, Saves, Handlers, LeavePhase
<1>2. ASSUME ~raced' PROVE OnTime'
  <2>1. Types /\ OnTime
    BY <1>2 DEF Inductive, LeavePhase
  <2>2. AlarmsAreExpected'
    BY <1>2, <2>1 DEF Types, Saves, OnTime, AlarmsAreExpected, TimersAreSet,
       LeavePhase
  <2>3. TimersAreSet'
    BY <1>2, <2>1, Limits DEF Types, Saves, OnTime, AlarmsAreExpected,
       TimersAreSet, LeavePhase
  <2>4. PhaseIsOnTime'
    BY <1>2, <2>1, Limits DEF Types, Saves, OnTime, AlarmsAreExpected,
       TimersAreSet, PhaseIsOnTime, PushIsOnTime, ConversionIsOnTime, LeavePhase
  <2>5. PushIsOnTime'
    BY <1>2, <2>1, Limits DEF Types, Saves, OnTime, TimersAreSet, PhaseIsOnTime,
       PushIsOnTime, Budget, LeavePhase
  <2>6. ConversionIsOnTime'
    BY <1>2, <2>1, Limits DEF Types, Saves, OnTime, TimersAreSet, PhaseIsOnTime,
       ConversionIsOnTime, LeavePhase
  <2> QED
    BY <2>2, <2>3, <2>4, <2>5, <2>6 DEF OnTime
<1>3. PhaseIsNotCutShort'
  BY <1>2 DEF Inductive, Types, Saves, OnTime, AlarmsAreExpected, TimersAreSet,
     PhaseIsOnTime, PhaseIsNotCutShort, LeavePhase
<1> QED
  BY <1>1, <1>2, <1>3 DEF Inductive

LEMMA RestorePhaseStep == Inductive /\ RestorePhase => Inductive'
<1> SUFFICES ASSUME Inductive, RestorePhase PROVE Inductive'
  OBVIOUS
<1>1. Types'
  BY Limits, NothingIsSaved DEF Inductive, Types, Saves, Handlers, RestorePhase
<1>2. ASSUME ~raced' PROVE OnTime'
  <2>1. Types /\ OnTime
    BY <1>2 DEF Inductive, RestorePhase
  <2>2. AlarmsAreExpected'
    BY <1>2, <2>1 DEF Types, Saves, OnTime, AlarmsAreExpected, TimersAreSet,
       RestorePhase
  <2>3. TimersAreSet'
    BY <1>2, <2>1, Limits DEF Types, Saves, OnTime, AlarmsAreExpected,
       TimersAreSet, RestorePhase
  <2>4. PhaseIsOnTime'
    BY <1>2, <2>1, Limits DEF Types, Saves, OnTime, AlarmsAreExpected,
       TimersAreSet, PhaseIsOnTime, PushIsOnTime, ConversionIsOnTime,
       RestorePhase
  <2>5. PushIsOnTime'
    BY <1>2, <2>1, Limits DEF Types, Saves, OnTime, TimersAreSet, PhaseIsOnTime,
       PushIsOnTime, Budget, RestorePhase
  <2>6. ConversionIsOnTime'
    BY <1>2, <2>1, Limits DEF Types, Saves, OnTime, TimersAreSet, PhaseIsOnTime,
       ConversionIsOnTime, RestorePhase
  <2> QED
    BY <2>2, <2>3, <2>4, <2>5, <2>6 DEF OnTime
<1>3. PhaseIsNotCutShort'
  BY <1>2 DEF Inductive, Types, Saves, OnTime, AlarmsAreExpected, TimersAreSet,
     PhaseIsOnTime, PhaseIsNotCutShort, RestorePhase
<1> QED
  BY <1>1, <1>2, <1>3 DEF Inductive

\* Pushes.
LEMMA BeginPushStep == Inductive /\ BeginPush => Inductive'
<1> SUFFICES ASSUME Inductive, BeginPush PROVE Inductive'
  OBVIOUS
<1>1. Types'
  BY Limits, NothingIsSaved DEF Inductive, Types, Saves, Handlers, BeginPush, Budget
<1>2. ASSUME ~raced' PROVE OnTime'
  <2>1. Types /\ OnTime
    BY <1>2 DEF Inductive, BeginPush, Budget
  <2>2. AlarmsAreExpected'
    BY <1>2, <2>1 DEF Types, Saves, OnTime, AlarmsAreExpected, TimersAreSet,
       BeginPush, Budget
  <2>3. TimersAreSet'
    BY <1>2, <2>1, Limits DEF Types, Saves, OnTime, AlarmsAreExpected,
       TimersAreSet, BeginPush, Budget
  <2>4. PhaseIsOnTime'
    BY <1>2, <2>1, Limits DEF Types, Saves, OnTime, AlarmsAreExpected,
       TimersAreSet, PhaseIsOnTime, PushIsOnTime, ConversionIsOnTime, BeginPush,
       Budget
  <2>5. PushIsOnTime'
    BY <1>2, <2>1, Limits DEF Types, Saves, OnTime, TimersAreSet, PhaseIsOnTime,
       PushIsOnTime, Budget, BeginPush, Budget
  <2>6. ConversionIsOnTime'
    BY <1>2, <2>1, Limits DEF Types, Saves, OnTime, TimersAreSet, PhaseIsOnTime,
       ConversionIsOnTime, BeginPush, Budget
  <2> QED
    BY <2>2, <2>3, <2>4, <2>5, <2>6 DEF OnTime
<1>3. PhaseIsNotCutShort'
  BY <1>2 DEF Inductive, Types, Saves, OnTime, AlarmsAreExpected, TimersAreSet,
     PhaseIsOnTime, PhaseIsNotCutShort, BeginPush, Budget
<1> QED
  BY <1>1, <1>2, <1>3 DEF Inductive

LEMMA InstallPushStep == Inductive /\ InstallPush => Inductive'
<1> SUFFICES ASSUME Inductive, InstallPush PROVE Inductive'
  OBVIOUS
<1>1. Types'
  BY Limits, NothingIsSaved DEF Inductive, Types, Saves, Handlers, InstallPush
<1>2. ASSUME ~raced' PROVE OnTime'
  <2>1. Types /\ OnTime
    BY <1>2 DEF Inductive, InstallPush
  <2>2. AlarmsAreExpected'
    BY <1>2, <2>1 DEF Types, Saves, OnTime, AlarmsAreExpected, TimersAreSet,
       InstallPush
  <2>3. TimersAreSet'
    BY <1>2, <2>1, Limits DEF Types, Saves, OnTime, AlarmsAreExpected,
       TimersAreSet, InstallPush
  <2>4. PhaseIsOnTime'
    BY <1>2, <2>1, Limits DEF Types, Saves, OnTime, AlarmsAreExpected,
       TimersAreSet, PhaseIsOnTime, PushIsOnTime, ConversionIsOnTime,
       InstallPush
  <2>5. PushIsOnTime'
    BY <1>2, <2>1, Limits DEF Types, Saves, OnTime, TimersAreSet, PhaseIsOnTime,
       PushIsOnTime, Budget, InstallPush
  <2>6. ConversionIsOnTime'
    BY <1>2, <2>1, Limits DEF Types, Saves, OnTime, TimersAreSet, PhaseIsOnTime,
       ConversionIsOnTime, InstallPush
  <2> QED
    BY <2>2, <2>3, <2>4, <2>5, <2>6 DEF OnTime
<1>3. PhaseIsNotCutShort'
  BY <1>2 DEF Inductive, Types, Saves, OnTime, AlarmsAreExpected, TimersAreSet,
     PhaseIsOnTime, PhaseIsNotCutShort, InstallPush
<1> QED
  BY <1>1, <1>2, <1>3 DEF Inductive

LEMMA EndPushStep == Inductive /\ EndPush => Inductive'
<1> SUFFICES ASSUME Inductive, EndPush PROVE Inductive'
  OBVIOUS
<1>1. Types'
  BY Limits, NothingIsSaved DEF Inductive, Types, Saves, Handlers, EndPush
<1>2. ASSUME ~raced' PROVE OnTime'
  <2>1. Types /\ OnTime
    BY <1>2 DEF Inductive, EndPush
  <2>2. AlarmsAreExpected'
    BY <1>2, <2>1 DEF Types, Saves, OnTime, AlarmsAreExpected, TimersAreSet, EndPush
  <2>3. TimersAreSet'
    BY <1>2, <2>1, Limits DEF Types, Saves, OnTime, AlarmsAreExpected,
       TimersAreSet, EndPush
  <2>4. PhaseIsOnTime'
    BY <1>2, <2>1, Limits DEF Types, Saves, OnTime, AlarmsAreExpected,
       TimersAreSet, PhaseIsOnTime, PushIsOnTime, ConversionIsOnTime, EndPush
  <2>5. PushIsOnTime'
    BY <1>2, <2>1, Limits DEF Types, Saves, OnTime, TimersAreSet, PhaseIsOnTime,
       PushIsOnTime, Budget, EndPush
  <2>6. ConversionIsOnTime'
    BY <1>2, <2>1, Limits DEF Types, Saves, OnTime, TimersAreSet, PhaseIsOnTime,
       ConversionIsOnTime, EndPush
  <2> QED
    BY <2>2, <2>3, <2>4, <2>5, <2>6 DEF OnTime
<1>3. PhaseIsNotCutShort'
  BY <1>2 DEF Inductive, Types, Saves, OnTime, AlarmsAreExpected, TimersAreSet,
     PhaseIsOnTime, PhaseIsNotCutShort, EndPush
<1> QED
  BY <1>1, <1>2, <1>3 DEF Inductive

LEMMA DisarmPushStep == Inductive /\ DisarmPush => Inductive'
<1> SUFFICES ASSUME Inductive, DisarmPush PROVE Inductive'
  OBVIOUS
<1>1. Types'
  BY Limits, NothingIsSaved DEF Inductive, Types, Saves, Handlers, DisarmPush
<1>2. ASSUME ~raced' PROVE OnTime'
  <2>1. Types /\ OnTime
    BY <1>2 DEF Inductive, DisarmPush
  <2>2. AlarmsAreExpected'
    BY <1>2, <2>1 DEF Types, Saves, OnTime, AlarmsAreExpected, TimersAreSet,
       DisarmPush
  <2>3. TimersAreSet'
    BY <1>2, <2>1, Limits DEF Types, Saves, OnTime, AlarmsAreExpected,
       TimersAreSet, DisarmPush
  <2>4. PhaseIsOnTime'
    BY <1>2, <2>1, Limits DEF Types, Saves, OnTime, AlarmsAreExpected,
       TimersAreSet, PhaseIsOnTime, PushIsOnTime, ConversionIsOnTime, DisarmPush
  <2>5. PushIsOnTime'
    BY <1>2, <2>1, Limits DEF Types, Saves, OnTime, TimersAreSet, PhaseIsOnTime,
       PushIsOnTime, Budget, DisarmPush
  <2>6. ConversionIsOnTime'
    BY <1>2, <2>1, Limits DEF Types, Saves, OnTime, TimersAreSet, PhaseIsOnTime,
       ConversionIsOnTime, DisarmPush
  <2> QED
    BY <2>2, <2>3, <2>4, <2>5, <2>6 DEF OnTime
<1>3. PhaseIsNotCutShort'
  BY <1>2 DEF Inductive, Types, Saves, OnTime, AlarmsAreExpected, TimersAreSet,
     PhaseIsOnTime, PhaseIsNotCutShort, DisarmPush
<1> QED
  BY <1>1, <1>2, <1>3 DEF Inductive

LEMMA RestorePushStep == Inductive /\ RestorePush => Inductive'
<1> SUFFICES ASSUME Inductive, RestorePush PROVE Inductive'
  OBVIOUS
<1>1. Types'
  BY Limits, NothingIsSaved DEF Inductive, Types, Saves, Handlers, RestorePush
<1>2. ASSUME ~raced' PROVE OnTime'
  <2>1. Types /\ OnTime
    BY <1>2 DEF Inductive, RestorePush
  <2>2. AlarmsAreExpected'
    BY <1>2, <2>1 DEF Types, Saves, OnTime, AlarmsAreExpected, TimersAreSet,
       RestorePush
  <2>3. TimersAreSet'
    BY <1>2, <2>1, Limits DEF Types, Saves, OnTime, AlarmsAreExpected,
       TimersAreSet, RestorePush
  <2>4. PhaseIsOnTime'
    BY <1>2, <2>1, Limits DEF Types, Saves, OnTime, AlarmsAreExpected,
       TimersAreSet, PhaseIsOnTime, PushIsOnTime, ConversionIsOnTime,
       RestorePush
  <2>5. PushIsOnTime'
    BY <1>2, <2>1, Limits DEF Types, Saves, OnTime, TimersAreSet, PhaseIsOnTime,
       PushIsOnTime, Budget, RestorePush
  <2>6. ConversionIsOnTime'
    BY <1>2, <2>1, Limits DEF Types, Saves, OnTime, TimersAreSet, PhaseIsOnTime,
       ConversionIsOnTime, RestorePush
  <2> QED
    BY <2>2, <2>3, <2>4, <2>5, <2>6 DEF OnTime
<1>3. PhaseIsNotCutShort'
  BY <1>2 DEF Inductive, Types, Saves, OnTime, AlarmsAreExpected, TimersAreSet,
     PhaseIsOnTime, PhaseIsNotCutShort, RestorePush
<1> QED
  BY <1>1, <1>2, <1>3 DEF Inductive

\* Conversions.
LEMMA BeginConversionStep == Inductive /\ BeginConversion => Inductive'
<1> SUFFICES ASSUME Inductive, BeginConversion PROVE Inductive'
  OBVIOUS
<1>1. Types'
  BY Limits, NothingIsSaved DEF Inductive, Types, Saves, Handlers, BeginConversion
<1>2. ASSUME ~raced' PROVE OnTime'
  <2>1. Types /\ OnTime
    BY <1>2 DEF Inductive, BeginConversion
  <2>2. AlarmsAreExpected'
    BY <1>2, <2>1 DEF Types, Saves, OnTime, AlarmsAreExpected, TimersAreSet,
       BeginConversion
  <2>3. TimersAreSet'
    BY <1>2, <2>1, Limits DEF Types, Saves, OnTime, AlarmsAreExpected,
       TimersAreSet, BeginConversion
  <2>4. PhaseIsOnTime'
    BY <1>2, <2>1, Limits DEF Types, Saves, OnTime, AlarmsAreExpected,
       TimersAreSet, PhaseIsOnTime, PushIsOnTime, ConversionIsOnTime,
       BeginConversion
  <2>5. PushIsOnTime'
    BY <1>2, <2>1, Limits DEF Types, Saves, OnTime, TimersAreSet, PhaseIsOnTime,
       PushIsOnTime, Budget, BeginConversion
  <2>6. ConversionIsOnTime'
    BY <1>2, <2>1, Limits DEF Types, Saves, OnTime, TimersAreSet, PhaseIsOnTime,
       ConversionIsOnTime, BeginConversion
  <2> QED
    BY <2>2, <2>3, <2>4, <2>5, <2>6 DEF OnTime
<1>3. PhaseIsNotCutShort'
  BY <1>2 DEF Inductive, Types, Saves, OnTime, AlarmsAreExpected, TimersAreSet,
     PhaseIsOnTime, PhaseIsNotCutShort, BeginConversion
<1> QED
  BY <1>1, <1>2, <1>3 DEF Inductive

LEMMA InstallConversionStep == Inductive /\ InstallConversion => Inductive'
<1> SUFFICES ASSUME Inductive, InstallConversion PROVE Inductive'
  OBVIOUS
<1>1. Types'
  BY Limits, NothingIsSaved DEF Inductive, Types, Saves, Handlers, InstallConversion
<1>2. ASSUME ~raced' PROVE OnTime'
  <2>1. Types /\ OnTime
    BY <1>2 DEF Inductive, InstallConversion
  <2>2. AlarmsAreExpected'
    BY <1>2, <2>1 DEF Types, Saves, OnTime, AlarmsAreExpected, TimersAreSet,
       InstallConversion
  <2>3. TimersAreSet'
    BY <1>2, <2>1, Limits DEF Types, Saves, OnTime, AlarmsAreExpected,
       TimersAreSet, InstallConversion
  <2>4. PhaseIsOnTime'
    BY <1>2, <2>1, Limits DEF Types, Saves, OnTime, AlarmsAreExpected,
       TimersAreSet, PhaseIsOnTime, PushIsOnTime, ConversionIsOnTime,
       InstallConversion
  <2>5. PushIsOnTime'
    BY <1>2, <2>1, Limits DEF Types, Saves, OnTime, TimersAreSet, PhaseIsOnTime,
       PushIsOnTime, Budget, InstallConversion
  <2>6. ConversionIsOnTime'
    BY <1>2, <2>1, Limits DEF Types, Saves, OnTime, TimersAreSet, PhaseIsOnTime,
       ConversionIsOnTime, InstallConversion
  <2> QED
    BY <2>2, <2>3, <2>4, <2>5, <2>6 DEF OnTime
<1>3. PhaseIsNotCutShort'
  BY <1>2 DEF Inductive, Types, Saves, OnTime, AlarmsAreExpected, TimersAreSet,
     PhaseIsOnTime, PhaseIsNotCutShort, InstallConversion
<1> QED
  BY <1>1, <1>2, <1>3 DEF Inductive

LEMMA RaiseFlagStep == Inductive /\ RaiseFlag => Inductive'
<1> SUFFICES ASSUME Inductive, RaiseFlag PROVE Inductive'
  OBVIOUS
<1>1. Types'
  BY Limits, NothingIsSaved DEF Inductive, Types, Saves, Handlers, RaiseFlag
<1>2. ASSUME ~raced' PROVE OnTime'
  <2>1. Types /\ OnTime
    BY <1>2 DEF Inductive, RaiseFlag
  <2>2. AlarmsAreExpected'
    BY <1>2, <2>1 DEF Types, Saves, OnTime, AlarmsAreExpected, TimersAreSet,
       RaiseFlag
  <2>3. TimersAreSet'
    BY <1>2, <2>1, Limits DEF Types, Saves, OnTime, AlarmsAreExpected,
       TimersAreSet, RaiseFlag
  <2>4. PhaseIsOnTime'
    BY <1>2, <2>1, Limits DEF Types, Saves, OnTime, AlarmsAreExpected,
       TimersAreSet, PhaseIsOnTime, PushIsOnTime, ConversionIsOnTime, RaiseFlag
  <2>5. PushIsOnTime'
    BY <1>2, <2>1, Limits DEF Types, Saves, OnTime, TimersAreSet, PhaseIsOnTime,
       PushIsOnTime, Budget, RaiseFlag
  <2>6. ConversionIsOnTime'
    BY <1>2, <2>1, Limits DEF Types, Saves, OnTime, TimersAreSet, PhaseIsOnTime,
       ConversionIsOnTime, RaiseFlag
  <2> QED
    BY <2>2, <2>3, <2>4, <2>5, <2>6 DEF OnTime
<1>3. PhaseIsNotCutShort'
  BY <1>2 DEF Inductive, Types, Saves, OnTime, AlarmsAreExpected, TimersAreSet,
     PhaseIsOnTime, PhaseIsNotCutShort, RaiseFlag
<1> QED
  BY <1>1, <1>2, <1>3 DEF Inductive

LEMMA EndConversionStep == Inductive /\ EndConversion => Inductive'
<1> SUFFICES ASSUME Inductive, EndConversion PROVE Inductive'
  OBVIOUS
<1>1. Types'
  BY Limits, NothingIsSaved DEF Inductive, Types, Saves, Handlers, EndConversion
<1>2. ASSUME ~raced' PROVE OnTime'
  <2>1. Types /\ OnTime
    BY <1>2 DEF Inductive, EndConversion
  <2>2. AlarmsAreExpected'
    BY <1>2, <2>1 DEF Types, Saves, OnTime, AlarmsAreExpected, TimersAreSet,
       EndConversion
  <2>3. TimersAreSet'
    BY <1>2, <2>1, Limits DEF Types, Saves, OnTime, AlarmsAreExpected,
       TimersAreSet, EndConversion
  <2>4. PhaseIsOnTime'
    BY <1>2, <2>1, Limits DEF Types, Saves, OnTime, AlarmsAreExpected,
       TimersAreSet, PhaseIsOnTime, PushIsOnTime, ConversionIsOnTime,
       EndConversion
  <2>5. PushIsOnTime'
    BY <1>2, <2>1, Limits DEF Types, Saves, OnTime, TimersAreSet, PhaseIsOnTime,
       PushIsOnTime, Budget, EndConversion
  <2>6. ConversionIsOnTime'
    BY <1>2, <2>1, Limits DEF Types, Saves, OnTime, TimersAreSet, PhaseIsOnTime,
       ConversionIsOnTime, EndConversion
  <2> QED
    BY <2>2, <2>3, <2>4, <2>5, <2>6 DEF OnTime
<1>3. PhaseIsNotCutShort'
  BY <1>2 DEF Inductive, Types, Saves, OnTime, AlarmsAreExpected, TimersAreSet,
     PhaseIsOnTime, PhaseIsNotCutShort, EndConversion
<1> QED
  BY <1>1, <1>2, <1>3 DEF Inductive

LEMMA DisarmConversionStep == Inductive /\ DisarmConversion => Inductive'
<1> SUFFICES ASSUME Inductive, DisarmConversion PROVE Inductive'
  OBVIOUS
<1>1. Types'
  BY Limits, NothingIsSaved DEF Inductive, Types, Saves, Handlers, DisarmConversion
<1>2. ASSUME ~raced' PROVE OnTime'
  <2>1. Types /\ OnTime
    BY <1>2 DEF Inductive, DisarmConversion
  <2>2. AlarmsAreExpected'
    BY <1>2, <2>1 DEF Types, Saves, OnTime, AlarmsAreExpected, TimersAreSet,
       DisarmConversion
  <2>3. TimersAreSet'
    BY <1>2, <2>1, Limits DEF Types, Saves, OnTime, AlarmsAreExpected,
       TimersAreSet, DisarmConversion
  <2>4. PhaseIsOnTime'
    BY <1>2, <2>1, Limits DEF Types, Saves, OnTime, AlarmsAreExpected,
       TimersAreSet, PhaseIsOnTime, PushIsOnTime, ConversionIsOnTime,
       DisarmConversion
  <2>5. PushIsOnTime'
    BY <1>2, <2>1, Limits DEF Types, Saves, OnTime, TimersAreSet, PhaseIsOnTime,
       PushIsOnTime, Budget, DisarmConversion
  <2>6. ConversionIsOnTime'
    BY <1>2, <2>1, Limits DEF Types, Saves, OnTime, TimersAreSet, PhaseIsOnTime,
       ConversionIsOnTime, DisarmConversion
  <2> QED
    BY <2>2, <2>3, <2>4, <2>5, <2>6 DEF OnTime
<1>3. PhaseIsNotCutShort'
  BY <1>2 DEF Inductive, Types, Saves, OnTime, AlarmsAreExpected, TimersAreSet,
     PhaseIsOnTime, PhaseIsNotCutShort, DisarmConversion
<1> QED
  BY <1>1, <1>2, <1>3 DEF Inductive

LEMMA RestoreConversionStep == Inductive /\ RestoreConversion => Inductive'
<1> SUFFICES ASSUME Inductive, RestoreConversion PROVE Inductive'
  OBVIOUS
<1>1. Types'
  BY Limits, NothingIsSaved DEF Inductive, Types, Saves, Handlers, RestoreConversion
<1>2. ASSUME ~raced' PROVE OnTime'
  <2>1. Types /\ OnTime
    BY <1>2 DEF Inductive, RestoreConversion
  <2>2. AlarmsAreExpected'
    BY <1>2, <2>1 DEF Types, Saves, OnTime, AlarmsAreExpected, TimersAreSet,
       RestoreConversion
  <2>3. TimersAreSet'
    BY <1>2, <2>1, Limits DEF Types, Saves, OnTime, AlarmsAreExpected,
       TimersAreSet, RestoreConversion
  <2>4. PhaseIsOnTime'
    BY <1>2, <2>1, Limits DEF Types, Saves, OnTime, AlarmsAreExpected,
       TimersAreSet, PhaseIsOnTime, PushIsOnTime, ConversionIsOnTime,
       RestoreConversion
  <2>5. PushIsOnTime'
    BY <1>2, <2>1, Limits DEF Types, Saves, OnTime, TimersAreSet, PhaseIsOnTime,
       PushIsOnTime, Budget, RestoreConversion
  <2>6. ConversionIsOnTime'
    BY <1>2, <2>1, Limits DEF Types, Saves, OnTime, TimersAreSet, PhaseIsOnTime,
       ConversionIsOnTime, RestoreConversion
  <2> QED
    BY <2>2, <2>3, <2>4, <2>5, <2>6 DEF OnTime
<1>3. PhaseIsNotCutShort'
  BY <1>2 DEF Inductive, Types, Saves, OnTime, AlarmsAreExpected, TimersAreSet,
     PhaseIsOnTime, PhaseIsNotCutShort, RestoreConversion
<1> QED
  BY <1>1, <1>2, <1>3 DEF Inductive

\* Alarms: those that are not expected are raced.
LEMMA PhaseAlarmStep == Inductive /\ PhaseAlarm => Inductive'
<1> SUFFICES ASSUME Inductive, PhaseAlarm PROVE Inductive'
  OBVIOUS
<1>1. Types'
  BY Limits, NothingIsSaved DEF Inductive, Types, Saves, Handlers, PhaseAlarm,
     Answering, Expire
<1>2. ASSUME ~raced' PROVE OnTime'
  <2>1. Types /\ OnTime
    BY <1>2 DEF Inductive, PhaseAlarm, Answering, Expire
  <2>2. AlarmsAreExpected'
    BY <1>2, <2>1 DEF Types, Saves, OnTime, AlarmsAreExpected, TimersAreSet,
       PhaseAlarm, Answering, Expire
  <2>3. TimersAreSet'
    BY <1>2, <2>1, Limits DEF Types, Saves, OnTime, AlarmsAreExpected,
       TimersAreSet, PhaseAlarm, Answering, Expire
  <2>4. PhaseIsOnTime'
    BY <1>2, <2>1, Limits DEF Types, Saves, OnTime, AlarmsAreExpected,
       TimersAreSet, PhaseIsOnTime, PushIsOnTime, ConversionIsOnTime,
       PhaseAlarm, Answering, Expire
  <2>5. PushIsOnTime'
    BY <1>2, <2>1, Limits DEF Types, Saves, OnTime, TimersAreSet, PhaseIsOnTime,
       PushIsOnTime, Budget, PhaseAlarm, Answering, Expire
  <2>6. ConversionIsOnTime'
    BY <1>2, <2>1, Limits DEF Types, Saves, OnTime, TimersAreSet, PhaseIsOnTime,
       ConversionIsOnTime, PhaseAlarm, Answering, Expire
  <2> QED
    BY <2>2, <2>3, <2>4, <2>5, <2>6 DEF OnTime
<1>3. PhaseIsNotCutShort'
  BY <1>2 DEF Inductive, Types, Saves, OnTime, AlarmsAreExpected, TimersAreSet,
     PhaseIsOnTime, PhaseIsNotCutShort, PhaseAlarm, Answering, Expire
<1> QED
  BY <1>1, <1>2, <1>3 DEF Inductive

LEMMA PushAlarmStep == Inductive /\ PushAlarm => Inductive'
<1> SUFFICES ASSUME Inductive, PushAlarm PROVE Inductive'
  OBVIOUS
<1>1. Types'
  BY Limits, NothingIsSaved DEF Inductive, Types, Saves, Handlers, PushAlarm,
     Answering
<1>2. ASSUME ~raced' PROVE OnTime'
  <2>1. Types /\ OnTime
    BY <1>2 DEF Inductive, PushAlarm, Answering
  <2>2. AlarmsAreExpected'
    BY <1>2, <2>1 DEF Types, Saves, OnTime, AlarmsAreExpected, TimersAreSet,
       PushAlarm, Answering
  <2>3. TimersAreSet'
    BY <1>2, <2>1, Limits DEF Types, Saves, OnTime, AlarmsAreExpected,
       TimersAreSet, PushAlarm, Answering
  <2>4. PhaseIsOnTime'
    BY <1>2, <2>1, Limits DEF Types, Saves, OnTime, AlarmsAreExpected,
       TimersAreSet, PhaseIsOnTime, PushIsOnTime, ConversionIsOnTime, PushAlarm,
       Answering
  <2>5. PushIsOnTime'
    BY <1>2, <2>1, Limits DEF Types, Saves, OnTime, TimersAreSet, PhaseIsOnTime,
       PushIsOnTime, Budget, PushAlarm, Answering
  <2>6. ConversionIsOnTime'
    BY <1>2, <2>1, Limits DEF Types, Saves, OnTime, TimersAreSet, PhaseIsOnTime,
       ConversionIsOnTime, PushAlarm, Answering
  <2> QED
    BY <2>2, <2>3, <2>4, <2>5, <2>6 DEF OnTime
<1>3. PhaseIsNotCutShort'
  BY <1>2 DEF Inductive, Types, Saves, OnTime, AlarmsAreExpected, TimersAreSet,
     PhaseIsOnTime, PhaseIsNotCutShort, PushAlarm, Answering
<1> QED
  BY <1>1, <1>2, <1>3 DEF Inductive

LEMMA ConversionAlarmStep == Inductive /\ ConversionAlarm => Inductive'
<1> SUFFICES ASSUME Inductive, ConversionAlarm PROVE Inductive'
  OBVIOUS
<1>1. Types'
  BY Limits, NothingIsSaved DEF Inductive, Types, Saves, Handlers, ConversionAlarm
<1>2. ASSUME ~raced' PROVE OnTime'
  <2>1. Types /\ OnTime
    BY <1>2 DEF Inductive, ConversionAlarm
  <2>2. AlarmsAreExpected'
    BY <1>2, <2>1 DEF Types, Saves, OnTime, AlarmsAreExpected, TimersAreSet,
       ConversionAlarm
  <2>3. TimersAreSet'
    BY <1>2, <2>1, Limits DEF Types, Saves, OnTime, AlarmsAreExpected,
       TimersAreSet, ConversionAlarm
  <2>4. PhaseIsOnTime'
    BY <1>2, <2>1, Limits DEF Types, Saves, OnTime, AlarmsAreExpected,
       TimersAreSet, PhaseIsOnTime, PushIsOnTime, ConversionIsOnTime,
       ConversionAlarm
  <2>5. PushIsOnTime'
    BY <1>2, <2>1, Limits DEF Types, Saves, OnTime, TimersAreSet, PhaseIsOnTime,
       PushIsOnTime, Budget, ConversionAlarm
  <2>6. ConversionIsOnTime'
    BY <1>2, <2>1, Limits DEF Types, Saves, OnTime, TimersAreSet, PhaseIsOnTime,
       ConversionIsOnTime, ConversionAlarm
  <2> QED
    BY <2>2, <2>3, <2>4, <2>5, <2>6 DEF OnTime
<1>3. PhaseIsNotCutShort'
  BY <1>2 DEF Inductive, Types, Saves, OnTime, AlarmsAreExpected, TimersAreSet,
     PhaseIsOnTime, PhaseIsNotCutShort, ConversionAlarm
<1> QED
  BY <1>1, <1>2, <1>3 DEF Inductive

LEMMA StrayAlarmStep == Inductive /\ StrayAlarm => Inductive'
<1> SUFFICES ASSUME Inductive, StrayAlarm PROVE Inductive'
  OBVIOUS
<1>1. Types'
  BY Limits, NothingIsSaved DEF Inductive, Types, Saves, Handlers, StrayAlarm,
     Answering
<1>2. ASSUME ~raced' PROVE OnTime'
  <2>1. Types /\ OnTime
    BY <1>2 DEF Inductive, StrayAlarm, Answering
  <2>2. AlarmsAreExpected'
    BY <1>2, <2>1 DEF Types, Saves, OnTime, AlarmsAreExpected, TimersAreSet,
       StrayAlarm, Answering
  <2>3. TimersAreSet'
    BY <1>2, <2>1, Limits DEF Types, Saves, OnTime, AlarmsAreExpected,
       TimersAreSet, StrayAlarm, Answering
  <2>4. PhaseIsOnTime'
    BY <1>2, <2>1, Limits DEF Types, Saves, OnTime, AlarmsAreExpected,
       TimersAreSet, PhaseIsOnTime, PushIsOnTime, ConversionIsOnTime,
       StrayAlarm, Answering
  <2>5. PushIsOnTime'
    BY <1>2, <2>1, Limits DEF Types, Saves, OnTime, TimersAreSet, PhaseIsOnTime,
       PushIsOnTime, Budget, StrayAlarm, Answering
  <2>6. ConversionIsOnTime'
    BY <1>2, <2>1, Limits DEF Types, Saves, OnTime, TimersAreSet, PhaseIsOnTime,
       ConversionIsOnTime, StrayAlarm, Answering
  <2> QED
    BY <2>2, <2>3, <2>4, <2>5, <2>6 DEF OnTime
<1>3. PhaseIsNotCutShort'
  BY <1>2 DEF Inductive, Types, Saves, OnTime, AlarmsAreExpected, TimersAreSet,
     PhaseIsOnTime, PhaseIsNotCutShort, StrayAlarm, Answering
<1> QED
  BY <1>1, <1>2, <1>3 DEF Inductive

\* The steps that set the timer.
LEMMA ArmPushStep == Inductive /\ ArmPush => Inductive'
<1> SUFFICES ASSUME Inductive, ArmPush PROVE Inductive'
  OBVIOUS
<1>1. Budget(saved.outer) \in Int /\ Set(Budget(saved.outer))
  BY BudgetIsLess DEF Inductive, Types, Saves, ArmPush
<1>2. /\ timer' \in Nat /\ due' \in BOOLEAN
      /\ Budget(saved.outer) > 0 => timer' = Budget(saved.outer) /\ ~due'
      /\ Budget(saved.outer) <= 0 => timer' = 0 /\ due'
  BY <1>1, SetTo
<1>3. Types'
  BY Limits, NothingIsSaved, <1>1, <1>2 DEF Inductive, Types, Saves, Handlers,
     ArmPush
<1>4. ASSUME ~raced' PROVE OnTime'
  <2>1. Types /\ OnTime
    BY <1>4 DEF Inductive, ArmPush
  <2>2. AlarmsAreExpected'
    BY <1>4, <2>1, <1>1, <1>2 DEF Types, Saves, OnTime, AlarmsAreExpected,
       TimersAreSet, ArmPush
  <2>3. TimersAreSet'
    BY <1>4, <2>1, Limits, <1>1, <1>2 DEF Types, Saves, OnTime,
       AlarmsAreExpected, TimersAreSet, ArmPush
  <2>4. PhaseIsOnTime'
    BY <1>4, <2>1, Limits, <1>1, <1>2 DEF Types, Saves, OnTime,
       AlarmsAreExpected, TimersAreSet, PhaseIsOnTime, PushIsOnTime,
       ConversionIsOnTime, ArmPush
  <2>5. PushIsOnTime'
    BY <1>4, <2>1, Limits, <1>1, <1>2 DEF Types, Saves, OnTime, TimersAreSet,
       PhaseIsOnTime, PushIsOnTime, Budget, ArmPush
  <2>6. ConversionIsOnTime'
    BY <1>4, <2>1, Limits, <1>1, <1>2 DEF Types, Saves, OnTime, TimersAreSet,
       PhaseIsOnTime, ConversionIsOnTime, ArmPush
  <2> QED
    BY <2>2, <2>3, <2>4, <2>5, <2>6 DEF OnTime
<1>5. PhaseIsNotCutShort'
  BY <1>4 DEF Inductive, Types, Saves, OnTime, AlarmsAreExpected, TimersAreSet,
     PhaseIsOnTime, PhaseIsNotCutShort, ArmPush
<1> QED
  BY <1>3, <1>4, <1>5 DEF Inductive

LEMMA ArmConversionStep == Inductive /\ ArmConversion => Inductive'
<1> SUFFICES ASSUME Inductive, ArmConversion PROVE Inductive'
  OBVIOUS
<1>1. timer' = Bound /\ ~due' /\ due' \in BOOLEAN /\ saved' \in Saves
  BY Limits, SetTo DEF ArmConversion, Inductive, Types, Saves
<1>2. Types'
  BY Limits, NothingIsSaved, <1>1 DEF Inductive, Types, Saves, Handlers,
     ArmConversion
<1>3. ASSUME ~raced' PROVE OnTime'
  <2>1. Types /\ OnTime
    BY <1>3 DEF Inductive, ArmConversion
  <2>2. AlarmsAreExpected'
    BY <1>3, <2>1, <1>1 DEF Types, Saves, OnTime, AlarmsAreExpected,
       TimersAreSet, ArmConversion
  <2>3. TimersAreSet'
    BY <1>3, <2>1, Limits, <1>1 DEF Types, Saves, OnTime, AlarmsAreExpected,
       TimersAreSet, ArmConversion
  <2>4. PhaseIsOnTime'
    BY <1>3, <2>1, Limits, <1>1 DEF Types, Saves, OnTime, AlarmsAreExpected,
       TimersAreSet, PhaseIsOnTime, PushIsOnTime, ConversionIsOnTime,
       ArmConversion
  <2>5. PushIsOnTime'
    BY <1>3, <2>1, Limits, <1>1 DEF Types, Saves, OnTime, TimersAreSet,
       PhaseIsOnTime, PushIsOnTime, Budget, ArmConversion
  <2>6. ConversionIsOnTime'
    BY <1>3, <2>1, Limits, <1>1 DEF Types, Saves, OnTime, TimersAreSet,
       PhaseIsOnTime, ConversionIsOnTime, ArmConversion
  <2> QED
    BY <2>2, <2>3, <2>4, <2>5, <2>6 DEF OnTime
<1>4. PhaseIsNotCutShort'
  BY <1>3 DEF Inductive, Types, Saves, OnTime, AlarmsAreExpected, TimersAreSet,
     PhaseIsOnTime, PhaseIsNotCutShort, ArmConversion
<1> QED
  BY <1>2, <1>3, <1>4 DEF Inductive

LEMMA GiveBackStep == Inductive /\ GiveBack => Inductive'
<1> SUFFICES ASSUME Inductive, GiveBack PROVE Inductive'
  OBVIOUS
<1> DEFINE left == saved.outer - saved.elapsed
<1>1. saved \in Saves /\ left \in Int
  BY DEF Inductive, Types, Saves
<1>2. /\ timer' \in Nat /\ due' \in BOOLEAN
      /\ saved.outer > 0 /\ left > 0 => timer' = left /\ ~due'
      /\ saved.outer > 0 /\ left <= 0 => timer' = 0 /\ due'
      /\ saved.outer = 0 => timer' = timer /\ due' = due
  BY <1>1, SetTo DEF GiveBack, Rearm, Inductive, Types, Saves
<1>3. Types'
  BY Limits, NothingIsSaved, <1>1, <1>2 DEF Inductive, Types, Saves, Handlers,
     GiveBack
<1>4. ASSUME ~raced' PROVE OnTime'
  <2>1. Types /\ OnTime
    BY <1>4 DEF Inductive, GiveBack
  <2>2. AlarmsAreExpected'
    BY <1>4, <2>1, <1>1, <1>2 DEF Types, Saves, OnTime, AlarmsAreExpected,
       TimersAreSet, GiveBack
  <2>3. TimersAreSet'
    BY <1>4, <2>1, Limits, <1>1, <1>2 DEF Types, Saves, OnTime,
       AlarmsAreExpected, TimersAreSet, GiveBack
  <2>4. PhaseIsOnTime'
    BY <1>4, <2>1, Limits, <1>1, <1>2 DEF Types, Saves, OnTime,
       AlarmsAreExpected, TimersAreSet, PhaseIsOnTime, PushIsOnTime,
       ConversionIsOnTime, GiveBack
  <2>5. PushIsOnTime'
    BY <1>4, <2>1, Limits, <1>1, <1>2 DEF Types, Saves, OnTime, TimersAreSet,
       PhaseIsOnTime, PushIsOnTime, Budget, GiveBack
  <2>6. ConversionIsOnTime'
    BY <1>4, <2>1, Limits, <1>1, <1>2 DEF Types, Saves, OnTime, TimersAreSet,
       PhaseIsOnTime, ConversionIsOnTime, GiveBack
  <2> QED
    BY <2>2, <2>3, <2>4, <2>5, <2>6 DEF OnTime
<1>5. PhaseIsNotCutShort'
  BY <1>4 DEF Inductive, Types, Saves, OnTime, AlarmsAreExpected, TimersAreSet,
     PhaseIsOnTime, PhaseIsNotCutShort, GiveBack
<1> QED
  BY <1>3, <1>4, <1>5 DEF Inductive

LEMMA RestartStep == Inductive /\ Restart => Inductive'
<1> SUFFICES ASSUME Inductive, Restart PROVE Inductive'
  OBVIOUS
<1>1. Types'
  <2>1. saved' \in Saves /\ handler' \in Handlers
    BY NothingIsSaved DEF Restart, Handlers
  <2>2. timer' \in Nat /\ age' \in Nat /\ late' \in Nat /\ raced' \in BOOLEAN
    BY DEF Inductive, Types, Restart
  <2> QED
    BY <2>1, <2>2 DEF Types, Restart
<1>2. OnTime'
  BY DEF Restart, OnTime, AlarmsAreExpected, TimersAreSet, PhaseIsOnTime,
     PushIsOnTime,
     ConversionIsOnTime
<1>3. PhaseIsNotCutShort'
  BY DEF Inductive, PhaseIsNotCutShort, Restart
<1> QED
  BY <1>1, <1>2, <1>3 DEF Inductive

\* The initial state, and steps that change nothing.
LEMMA InitInductive == Init => Inductive
<1> SUFFICES ASSUME Init PROVE Inductive
  OBVIOUS
<1>1. Types
  <2>1. saved \in Saves
    BY NothingIsSaved DEF Init
  <2> QED
    <3>1. timer \in Nat /\ age \in Nat /\ late \in Nat /\ handler \in Handlers
      BY DEF Init, Handlers
    <3> QED
      BY <2>1, <3>1 DEF Init, Types
<1>2. OnTime
  BY DEF Init, OnTime, AlarmsAreExpected, TimersAreSet, PhaseIsOnTime, PushIsOnTime,
     ConversionIsOnTime
<1> QED
  BY <1>1, <1>2 DEF Init, Inductive, PhaseIsNotCutShort

LEMMA StutterInductive == Inductive /\ UNCHANGED vars => Inductive'
BY DEF vars, Inductive, Types, OnTime, AlarmsAreExpected, TimersAreSet,
   PhaseIsOnTime,
   PushIsOnTime, ConversionIsOnTime, PhaseIsNotCutShort

\* While no alarm came between two calls, the alarm of a phase is accounted for
\* at every step of timeouts.py, notify._push_deadline and cdf._bounded.
THEOREM InductiveHolds == Spec => []Inductive
<1>1. Inductive /\ [Next]_vars => Inductive'
  BY StutterInductive, TickStep, EnterPhaseStep, EndPhaseStep, LeavePhaseStep,
     RestorePhaseStep, BeginPushStep, InstallPushStep, ArmPushStep, EndPushStep,
     DisarmPushStep, RestorePushStep, BeginConversionStep, InstallConversionStep,
     RaiseFlagStep, ArmConversionStep, EndConversionStep, DisarmConversionStep,
     RestoreConversionStep, GiveBackStep, PhaseAlarmStep, PushAlarmStep,
     ConversionAlarmStep, StrayAlarmStep, RestartStep, Zenon DEF Next
<1> QED
  BY InitInductive, <1>1, PTL DEF Spec

\* However often its alarm is borrowed, a phase at work has it back in time, and
\* a push leaves it time to go on (timeouts.py, notify._push_deadline,
\* cdf._bounded).
THEOREM PhaseKeepsItsAlarmHolds == Spec => []PhaseKeepsItsAlarm
<1>1. Inductive => PhaseKeepsItsAlarm
  BY DEF Inductive, Types, Saves, OnTime, AlarmsAreExpected, TimersAreSet,
     PhaseIsOnTime,
     PushIsOnTime, PhaseKeepsItsAlarm
<1> QED
  BY InductiveHolds, <1>1, PTL

\* No alarm of a push or of a conversion ends a phase before its limit.
THEOREM PhaseIsNotCutShortHolds == Spec => []PhaseIsNotCutShort
<1>1. Inductive => PhaseIsNotCutShort
  BY DEF Inductive
<1> QED
  BY InductiveHolds, <1>1, PTL

=============================================================================
