---------------------------- MODULE EvidenceProofs ----------------------------
(***************************************************************************)
(* For all runs, offers, settings and windows: the packet a forecast rests *)
(* on can be built again, since what is stored for a completed run never   *)
(* changes and a checkpoint names completed runs only; what is stored is   *)
(* the strongest of each document; a shadow adds the lens to its control,  *)
(* unless an older batch came between; and the lens's reports are          *)
(* connected components.                                                   *)
(*                                                                         *)
(* The collapse of documents and the forest of near duplicates are         *)
(* recursive functions: what they compute is proved from a least place at  *)
(* which it would not be so.                                               *)
(***************************************************************************)
EXTENDS Evidence, FiniteSetTheorems, WellFoundedInduction, TLAPS

Steps == {"idle", "look", "buy", "judge", "follow", "shadow"}

Events == [runs : Retrievals, at : Nat, by : Processes]

States ==
    [step : Steps, at : Nat, window : Nat, bought : SUBSET Baseline, research : Nat]

Typed ==
    /\ now \in Nat
    /\ opened \in Nat \cup {NoDate} /\ opened <= now
    /\ checkpoints \in Seq(Events)
    /\ arms \in [Processes -> States]
    /\ completed \subseteq Runs /\ DOMAIN stored = Runs

LEMMA IdleIsAState == Idle \in States
BY DEF Idle, States, Steps

\* A process changes its state, and no other does.
LEMMA Moved ==
  ASSUME Typed, NEW p \in Processes, NEW a \in States, arms' = [arms EXCEPT ![p] = a]
  PROVE  /\ arms' \in [Processes -> States]
         /\ arms'[p] = a
         /\ \A q \in Processes \ {p} : arms'[q] = arms[q]
BY DEF Typed

LEMMA Going ==
  ASSUME Typed, NEW p \in Processes, NEW step \in Steps, Goes(p, step)
  PROVE  /\ arms' \in [Processes -> States]
         /\ arms'[p] = [arms[p] EXCEPT !.step = step]
         /\ \A q \in Processes \ {p} : arms'[q] = arms[q]
<1>1. [arms[p] EXCEPT !.step = step] \in States
  BY DEF Typed, States
<1>2. arms' = [arms EXCEPT ![p] = [arms[p] EXCEPT !.step = step]]
  BY DEF Goes
<1> QED
  BY <1>1, <1>2, Moved

LEMMA Judging ==
  ASSUME Typed, NEW p \in Processes, NEW i \in Nat, Judges(p, i)
  PROVE  /\ arms' \in [Processes -> States]
         /\ arms'[p] = [arms[p] EXCEPT !.step = "judge", !.bought = {}, !.research = i]
         /\ \A q \in Processes \ {p} : arms'[q] = arms[q]
<1> DEFINE a == [arms[p] EXCEPT !.step = "judge", !.bought = {}, !.research = i]
<1>1. a \in States
  BY DEF Typed, States, Steps
<1>2. arms' = [arms EXCEPT ![p] = a]
  BY DEF Judges, Typed
<1> HIDE DEF a
<1>3. /\ arms' \in [Processes -> States]
      /\ arms'[p] = a
      /\ \A q \in Processes \ {p} : arms'[q] = arms[q]
  BY <1>1, <1>2, Moved
<1> QED
  BY <1>3 DEF a

LEMMA Ending ==
  ASSUME Typed, EndsAttempt
  PROVE  /\ arms' \in [Processes -> States]
         /\ arms'["poll"] = [arms["poll"] EXCEPT !.step = "follow", !.bought = {}, !.research = 0]
         /\ arms'["batch"] = arms["batch"]
<1> DEFINE a == [arms["poll"] EXCEPT !.step = "follow", !.bought = {}, !.research = 0]
<1>1. a \in States /\ "poll" \in Processes /\ "batch" \in Processes \ {"poll"}
  BY DEF Typed, States, Steps, Processes
<1>2. arms' = [arms EXCEPT !["poll"] = a]
  BY DEF EndsAttempt, Typed
<1> HIDE DEF a
<1>3. /\ arms' \in [Processes -> States]
      /\ arms'["poll"] = a
      /\ \A q \in Processes \ {"poll"} : arms'[q] = arms[q]
  BY <1>1, <1>2, Moved
<1> QED
  BY <1>1, <1>3 DEF a

\* What begins is a process that looks, under its instant.
LEMMA Beginning ==
  ASSUME Typed, NEW p \in Processes, NEW at \in Nat, Begin(p, at)
  PROVE  /\ arms' \in [Processes -> States]
         /\ arms[p].step = "idle" /\ arms'[p].step = "look"
         /\ arms'[p].at = at /\ arms'[p].bought = {}
         /\ \A q \in Processes \ {p} : arms'[q] = arms[q]
<1>1. PICK window \in Settings :
         arms' = [arms EXCEPT ![p] = [Idle EXCEPT !.step = "look", !.at = at, !.window = window]]
  BY DEF Begin
<1> DEFINE a == [Idle EXCEPT !.step = "look", !.at = at, !.window = window]
<1>2. a \in States /\ a.step = "look" /\ a.at = at /\ a.bought = {}
  BY EvidenceInputs DEF Idle, States, Steps
<1> HIDE DEF a
<1>3. /\ arms' \in [Processes -> States]
      /\ arms'[p] = a
      /\ \A q \in Processes \ {p} : arms'[q] = arms[q]
  BY <1>1, <1>2, Moved DEF a
<1> QED
  BY <1>2, <1>3 DEF Begin

LEMMA Leaving ==
  ASSUME Typed, NEW p \in Processes, arms' = [arms EXCEPT ![p] = Idle]
  PROVE  /\ arms' \in [Processes -> States]
         /\ arms'[p] = Idle
         /\ \A q \in Processes \ {p} : arms'[q] = arms[q]
BY IdleIsAState, Moved

\* A checkpoint more: the others keep their places.
LEMMA Appended ==
  ASSUME Typed, NEW p \in Processes, Checkpoint(p), NEW n, n = Len(checkpoints) + 1
  PROVE  /\ checkpoints' \in Seq(Events)
         /\ n \in Nat /\ n \in DOMAIN checkpoints' /\ n \notin DOMAIN checkpoints
         /\ \A i \in DOMAIN checkpoints' : i \in DOMAIN checkpoints \/ i = n
         /\ \A i \in DOMAIN checkpoints :
               i \in DOMAIN checkpoints' /\ i < n /\ checkpoints'[i] = checkpoints[i]
         /\ checkpoints'[n].runs = arms[p].bought
         /\ checkpoints'[n].at = arms[p].at /\ checkpoints'[n].by = p
<1> DEFINE c == [runs |-> arms[p].bought, at |-> arms[p].at, by |-> p]
<1>1. c \in Events /\ c.runs = arms[p].bought /\ c.at = arms[p].at /\ c.by = p
  BY DEF Checkpoint, Typed, Events, States
<1>2. checkpoints' = Append(checkpoints, c) /\ checkpoints \in Seq(Events)
  BY DEF Checkpoint, Typed
<1> HIDE DEF c
<1>3. /\ checkpoints' \in Seq(Events)
      /\ DOMAIN checkpoints' = 1 .. Len(checkpoints) + 1
      /\ DOMAIN checkpoints = 1 .. Len(checkpoints) /\ Len(checkpoints) \in Nat
      /\ \A i \in 1 .. Len(checkpoints) : checkpoints'[i] = checkpoints[i]
      /\ checkpoints'[Len(checkpoints) + 1] = c
  BY <1>1, <1>2
<1> QED
  BY <1>1, <1>3

\* A run is completed in the end, or nothing is stored.
LEMMA AnsweredRun ==
  ASSUME Typed, NEW r \in Runs, r \notin completed, NEW at, Answered(r, at)
  PROVE  /\ completed' = completed \cup {r} /\ DOMAIN stored' = Runs
         /\ \A other \in completed : stored'[other] = stored[other]
BY DEF Answered, Typed

LEMMA NextTyped ==
  ASSUME Typed, [Next]_vars
  PROVE  Typed'
<1>1. "poll" \in Processes /\ "batch" \in Processes /\ Baseline \subseteq Runs
      /\ Lens \subseteq Runs /\ {"buy", "shadow"} \subseteq Steps
  BY DEF Processes, Runs, Steps
<1>2. ASSUME NEW p \in Processes, NEW at \in Nat, Begin(p, at), now' = now,
             opened' \in Nat \cup {NoDate}, opened' <= now
      PROVE  Typed'
  <2>1. arms' \in [Processes -> States]
    BY <1>2, Beginning
  <2> QED
    BY <1>2, <2>1 DEF Typed, Begin, ledger
<1>3. CASE BeginBatch
  <2>1. now \in Nat /\ opened' = opened /\ Begin("batch", now) /\ now' = now
    BY <1>3 DEF Typed, BeginBatch, Begin
  <2> QED
    BY <1>1, <1>2, <2>1 DEF Typed
<1>4. CASE BeginPoll
  <2>1. PICK at : /\ at \in {opened, now} /\ (at = opened => opened # NoDate)
                  /\ opened' = at /\ Begin("poll", at)
    <3> DEFINE at == IF opened # NoDate /\ now - opened <= Reuse THEN opened ELSE now
    <3>1. at \in {opened, now} /\ (at = opened => opened # NoDate)
      BY DEF Typed, NoDate
    <3> HIDE DEF at
    <3> QED
      BY <1>4, <3>1 DEF BeginPoll, at
  <2>2. at \in Nat /\ at <= now /\ now' = now
    BY <2>1 DEF Typed, Begin
  <2> QED
    BY <1>1, <1>2, <2>1, <2>2
<1>5. ASSUME NEW p \in Processes, Look(p) PROVE Typed'
  <2>1. arms' \in [Processes -> States]
    <3>1. CASE Judges(p, Len(checkpoints))
      <4>1. Len(checkpoints) \in Nat
        BY DEF Typed
      <4> QED
        BY <3>1, <4>1, Judging
    <3>2. CASE Goes(p, "buy")
      BY <1>1, <3>2, Going
    <3> QED
      BY <1>5, <3>1, <3>2 DEF Look
  <2> QED
    BY <1>5, <2>1 DEF Typed, Look, ledger, journal
<1>6. ASSUME NEW p \in Processes, NEW r \in Baseline, Complete(p, r) PROVE Typed'
  <2> DEFINE a == [arms[p] EXCEPT !.bought = @ \cup {r}]
  <2>1. a \in States /\ arms' = [arms EXCEPT ![p] = a]
    BY <1>6 DEF Typed, States, Complete
  <2> HIDE DEF a
  <2>2. arms' \in [Processes -> States]
    BY <2>1, Moved
  <2>3. completed' = completed \cup {r} /\ DOMAIN stored' = Runs
    BY <1>1, <1>6, AnsweredRun DEF Complete
  <2> QED
    BY <1>1, <1>6, <2>2, <2>3 DEF Typed, Complete, journal
<1>7. ASSUME NEW p \in Processes, Checkpoint(p) PROVE Typed'
  <2>1. checkpoints' \in Seq(Events)
    BY <1>7, Appended
  <2>2. Len(checkpoints) + 1 \in Nat
    BY DEF Typed
  <2>3. arms' \in [Processes -> States]
    BY <1>7, <2>2, Judging DEF Checkpoint
  <2> QED
    BY <1>7, <2>1, <2>3 DEF Typed, Checkpoint, ledger
<1>8. ASSUME NEW p \in Processes, Stop(p) PROVE Typed'
  <2>1. arms' \in [Processes -> States]
    BY <1>8, Leaving DEF Stop, Leaves
  <2> QED
    BY <1>8, <2>1 DEF Typed, Stop, ledger, journal
<1>9. CASE BatchAttempt
  <2>1. arms' \in [Processes -> States]
    BY <1>1, <1>9, Leaving DEF BatchAttempt
  <2> QED
    BY <1>9, <2>1 DEF Typed, BatchAttempt, ledger, journal
<1>10. ASSUME EndsAttempt, UNCHANGED <<now, ledger, journal>> PROVE Typed'
  BY <1>10, Ending DEF Typed, ledger, journal
<1>11. ASSUME NEW r \in Lens, NEW i \in DOMAIN checkpoints, Follow(r, i) PROVE Typed'
  <2>1. arms' \in [Processes -> States]
    BY <1>1, <1>11, Going, Leaving DEF Follow, Leaves
  <2>2. completed' \subseteq Runs /\ DOMAIN stored' = Runs
    BY <1>1, <1>11, AnsweredRun DEF Follow, Typed, ledger
  <2> QED
    BY <1>11, <2>1, <2>2 DEF Typed, Follow
<1>12. ASSUME NEW record, NEW l, Shadow(record, l) PROVE Typed'
  <2>1. arms' \in [Processes -> States]
    BY <1>1, <1>12, Leaving DEF Shadow, Leaves
  <2> QED
    BY <1>12, <2>1 DEF Typed, Shadow, ledger, journal
<1>13. CASE Tick \/ UNCHANGED vars
  BY <1>13 DEF Typed, Tick, vars, ledger, journal, NoDate
<1> QED
  BY <1>3, <1>4, <1>5, <1>6, <1>7, <1>8, <1>9, <1>10, <1>11, <1>12, <1>13
  DEF Next, PollAttempt, FailAttempt

-----------------------------------------------------------------------------
(* What a forecast is made from stands.                                    *)

CheckpointsAreComplete == \A i \in DOMAIN checkpoints : checkpoints[i].runs \subseteq completed

BoughtIsComplete == \A p \in Processes : arms[p].bought \subseteq completed

JudgesACheckpoint ==
    \A p \in Processes : arms[p].step = "judge" => arms[p].research \in DOMAIN checkpoints

\* A record's packet is a checkpoint's, whole or filtered as of the record.
ComesFrom(record, runs) ==
    \/ record.packet = Packet(runs)
    \/ record.packet = UsablePacket(Packet(runs), record.at, record.window)

RecordsHaveACheckpoint ==
    \A record \in records :
        /\ record.research \in DOMAIN checkpoints
        /\ ComesFrom(record, checkpoints[record.research].runs)

Inductive ==
    /\ Typed
    /\ CheckpointsAreComplete
    /\ BoughtIsComplete
    /\ JudgesACheckpoint
    /\ RecordsHaveACheckpoint

\* The rows of completed runs stand.
LEMMA CompletedRowsStand ==
  ASSUME Typed, [Next]_vars
  PROVE  /\ completed \subseteq completed'
         /\ \A r \in completed : stored'[r] = stored[r]
<1>1. CASE \E p \in Processes, r \in Baseline : Complete(p, r)
  BY <1>1, AnsweredRun DEF Complete, Runs
<1>2. CASE \E r \in Lens, i \in DOMAIN checkpoints : Follow(r, i) /\ Answered(r, arms["poll"].at)
  BY <1>2, AnsweredRun DEF Follow, Runs
<1>3. CASE UNCHANGED ledger
  BY <1>3 DEF ledger
<1> QED
  BY <1>1, <1>2, <1>3
  DEF Next, vars, BeginBatch, BeginPoll, Begin, Look, Checkpoint, Stop, BatchAttempt, PollAttempt,
      FailAttempt, Follow, Shadow, Tick

\* The journal is only written at its end.
LEMMA CheckpointsStand ==
  ASSUME Typed, [Next]_vars, NEW i \in DOMAIN checkpoints
  PROVE  i \in DOMAIN checkpoints' /\ checkpoints'[i] = checkpoints[i]
<1>1. ASSUME NEW p \in Processes, Checkpoint(p)
      PROVE  i \in DOMAIN checkpoints' /\ checkpoints'[i] = checkpoints[i]
  BY <1>1, Appended
<1>2. CASE UNCHANGED checkpoints
  BY <1>2
<1> QED
  BY <1>1, <1>2
  DEF Next, vars, journal, BeginBatch, BeginPoll, Begin, Look, Complete, Stop, BatchAttempt,
      PollAttempt, FailAttempt, Follow, Shadow, Tick

\* What is stored for a set of runs does not change while their rows do not.
LEMMA PacketIsKept ==
  ASSUME NEW runs, \A r \in runs : stored'[r] = stored[r]
  PROVE  Packet(runs)' = Packet(runs)
<1>1. \A r \in runs : Members(stored'[r]) = Members(stored[r])
  OBVIOUS
<1>2. UNION {Members(stored'[r]) : r \in runs} = UNION {Members(stored[r]) : r \in runs}
  BY <1>1
<1> QED
  BY <1>2 DEF Packet

\* A record keeps its origin while its checkpoint's runs keep theirs.
LEMMA OriginIsKept ==
  ASSUME NEW record, NEW runs, \A r \in runs : stored'[r] = stored[r],
         ComesFrom(record, runs)
  PROVE  ComesFrom(record, runs)'
BY PacketIsKept DEF ComesFrom

\* What a process has bought is complete, and what it comes to judge is in the
\* journal.
LEMMA PurchasesStand ==
  ASSUME Typed, [Next]_vars
  PROVE  \A p \in Processes :
            /\ arms'[p].bought \subseteq arms[p].bought \cup completed'
            /\ arms'[p].step = "judge" =>
                 \/ arms'[p].research \in DOMAIN checkpoints'
                 \/ arms[p].step = "judge" /\ arms'[p].research = arms[p].research
<1> DEFINE Stands(q) ==
             /\ arms'[q].bought \subseteq arms[q].bought \cup completed'
             /\ arms'[q].step = "judge" =>
                  \/ arms'[q].research \in DOMAIN checkpoints'
                  \/ arms[q].step = "judge" /\ arms'[q].research = arms[q].research
<1>1. /\ "poll" \in Processes /\ "batch" \in Processes /\ {"buy", "shadow"} \subseteq Steps
      /\ Processes = {"batch", "poll"} /\ now \in Nat
      /\ \A q \in Processes : arms[q] \in States
  BY DEF Processes, Steps, Typed
<1>2. ASSUME NEW p \in Processes, arms' = [arms EXCEPT ![p] = Idle]
      PROVE  \A q \in Processes : Stands(q)
  BY <1>2, Leaving DEF Idle
<1>3. ASSUME NEW p \in Processes, NEW step \in {"buy", "shadow"}, Goes(p, step)
      PROVE  \A q \in Processes : Stands(q)
  <2>1. /\ arms'[p] = [arms[p] EXCEPT !.step = step]
        /\ \A q \in Processes \ {p} : arms'[q] = arms[q]
    BY <1>1, <1>3, Going
  <2>2. arms'[p].bought = arms[p].bought /\ arms'[p].step = step
    BY <1>1, <2>1 DEF States
  <2> QED
    BY <2>1, <2>2
<1>4. ASSUME NEW p \in Processes, NEW i \in Nat, Judges(p, i), i \in DOMAIN checkpoints'
      PROVE  \A q \in Processes : Stands(q)
  <2>1. /\ arms'[p] = [arms[p] EXCEPT !.step = "judge", !.bought = {}, !.research = i]
        /\ \A q \in Processes \ {p} : arms'[q] = arms[q]
    BY <1>4, Judging
  <2>2. arms'[p].bought = {} /\ arms'[p].research = i
    BY <1>1, <2>1 DEF States
  <2> QED
    BY <1>4, <2>1, <2>2
<1>5. ASSUME NEW p \in Processes, NEW at \in Nat, Begin(p, at)
      PROVE  \A q \in Processes : Stands(q)
  BY <1>5, Beginning
<1>6. ASSUME NEW p \in Processes, Look(p)
      PROVE  \A q \in Processes : Stands(q)
  <2>1. CASE Goes(p, "buy")
    BY <1>3, <2>1
  <2>2. CASE Reusable(arms[p].at) /\ Judges(p, Len(checkpoints))
    <3>1. Len(checkpoints) \in Nat /\ Len(checkpoints) \in DOMAIN checkpoints
      BY <2>2 DEF Typed, Reusable
    <3>2. checkpoints' = checkpoints
      BY <1>6 DEF Look, journal
    <3> QED
      BY <1>4, <2>2, <3>1, <3>2
  <2> QED
    BY <1>6, <2>1, <2>2 DEF Look
<1>7. ASSUME NEW p \in Processes, NEW r \in Baseline, Complete(p, r)
      PROVE  \A q \in Processes : Stands(q)
  <2> DEFINE a == [arms[p] EXCEPT !.bought = @ \cup {r}]
  <2>1. a \in States /\ a.bought = arms[p].bought \cup {r} /\ a.step = "buy" /\ r \in completed'
    BY <1>7 DEF Typed, States, Complete, Answered
  <2>2. arms' = [arms EXCEPT ![p] = a]
    BY <1>7 DEF Typed, Complete
  <2> HIDE DEF a
  <2>3. arms'[p] = a /\ \A q \in Processes \ {p} : arms'[q] = arms[q]
    BY <2>1, <2>2, Moved
  <2> QED
    BY <2>1, <2>3
<1>8. ASSUME NEW p \in Processes, Checkpoint(p)
      PROVE  \A q \in Processes : Stands(q)
  <2>1. Len(checkpoints) + 1 \in Nat /\ Len(checkpoints) + 1 \in DOMAIN checkpoints'
    BY <1>8, Appended
  <2> QED
    BY <1>4, <1>8, <2>1 DEF Checkpoint
<1>9. ASSUME EndsAttempt
      PROVE  \A q \in Processes : Stands(q)
  BY <1>1, <1>9, Ending DEF States
<1>10. ASSUME NEW r, NEW i, Follow(r, i)
      PROVE  \A q \in Processes : Stands(q)
  BY <1>1, <1>2, <1>3, <1>10 DEF Follow, Leaves
<1>11. ASSUME UNCHANGED arms
      PROVE  \A q \in Processes : Stands(q)
  BY <1>11
<1>12. ASSUME BeginPoll
      PROVE  \A q \in Processes : Stands(q)
  <2>1. PICK at : at \in {opened, now} /\ (at = opened => opened # NoDate) /\ Begin("poll", at)
    <3> DEFINE at == IF opened # NoDate /\ now - opened <= Reuse THEN opened ELSE now
    <3>1. at \in {opened, now} /\ (at = opened => opened # NoDate)
      BY DEF Typed, NoDate
    <3> HIDE DEF at
    <3> QED
      BY <1>12, <3>1 DEF BeginPoll, at
  <2>2. at \in Nat
    BY <2>1 DEF Typed
  <2> QED
    BY <1>1, <1>5, <2>1, <2>2
<1>13. ASSUME BeginBatch
      PROVE  \A q \in Processes : Stands(q)
  BY <1>1, <1>5, <1>13 DEF BeginBatch
<1>14. ASSUME NEW p \in Processes, Stop(p)
      PROVE  \A q \in Processes : Stands(q)
  BY <1>2, <1>14 DEF Stop, Leaves
<1>15. ASSUME BatchAttempt
      PROVE  \A q \in Processes : Stands(q)
  BY <1>1, <1>2, <1>15 DEF BatchAttempt
<1>16. ASSUME NEW record, NEW l, Shadow(record, l)
      PROVE  \A q \in Processes : Stands(q)
  BY <1>1, <1>2, <1>16 DEF Shadow, Leaves
<1> HIDE DEF Stands
<1>17. \A q \in Processes : Stands(q)
  <2>1. CASE UNCHANGED arms
    BY <1>11, <2>1
  <2>2. CASE Tick \/ UNCHANGED vars
    BY <2>1, <2>2 DEF Tick, vars
  <2>3. CASE (\E poor \in BOOLEAN : PollAttempt(poor)) \/ FailAttempt
    BY <1>9, <2>3 DEF PollAttempt, FailAttempt
  <2> QED
    BY <2>2, <2>3, <1>6, <1>7, <1>8, <1>10, <1>12, <1>13, <1>14, <1>15, <1>16 DEF Next
<1> QED
  BY <1>17 DEF Stands

LEMMA NextComplete ==
  ASSUME Typed, CheckpointsAreComplete, BoughtIsComplete, [Next]_vars
  PROVE  CheckpointsAreComplete' /\ BoughtIsComplete'
<1>1. completed \subseteq completed'
  BY CompletedRowsStand
<1>2. BoughtIsComplete'
  BY <1>1, PurchasesStand DEF BoughtIsComplete
<1>3. ASSUME NEW p \in Processes, Checkpoint(p) PROVE CheckpointsAreComplete'
  <2>1. PICK n : n = Len(checkpoints) + 1
    OBVIOUS
  <2> QED
    BY <1>1, <1>3, <2>1, Appended DEF CheckpointsAreComplete, BoughtIsComplete
<1>4. ASSUME UNCHANGED checkpoints PROVE CheckpointsAreComplete'
  BY <1>1, <1>4 DEF CheckpointsAreComplete
<1>5. CheckpointsAreComplete'
  BY <1>3, <1>4
  DEF Next, vars, journal, BeginBatch, BeginPoll, Begin, Look, Complete, Stop, BatchAttempt,
      PollAttempt, FailAttempt, Follow, Shadow, Tick
<1> QED
  BY <1>2, <1>5

LEMMA NextJudges ==
  ASSUME Typed, JudgesACheckpoint, [Next]_vars
  PROVE  JudgesACheckpoint'
BY PurchasesStand, CheckpointsStand DEF JudgesACheckpoint

\* A record that was made keeps its origin.
LEMMA RecordsStay ==
  ASSUME Inductive, [Next]_vars, NEW record \in records
  PROVE  /\ record.research \in DOMAIN checkpoints'
         /\ ComesFrom(record, checkpoints[record.research].runs)'
<1>1. PICK i \in DOMAIN checkpoints :
         record.research = i /\ ComesFrom(record, checkpoints[i].runs)
  BY DEF Inductive, RecordsHaveACheckpoint
<1>2. i \in DOMAIN checkpoints' /\ checkpoints'[i] = checkpoints[i]
  BY CheckpointsStand DEF Inductive
<1>3. \A r \in checkpoints[i].runs : stored'[r] = stored[r]
  BY CompletedRowsStand DEF Inductive, CheckpointsAreComplete
<1>4. PICK runs : runs = checkpoints[i].runs
  OBVIOUS
<1>5. ComesFrom(record, runs)'
  BY <1>1, <1>3, <1>4, OriginIsKept
<1> QED
  BY <1>1, <1>2, <1>4, <1>5

\* What is recorded is what the attempt was made from, as it is or filtered under
\* the attempt's instant.
LEMMA RecordStep ==
  ASSUME Inductive, [Next]_vars, NEW p \in Processes, arms[p].step = "judge",
         NEW packet, Record(p, packet), UNCHANGED <<ledger, checkpoints>>,
         packet \in {Researched(p), UsablePacket(Researched(p), arms[p].at, arms[p].window)}
  PROVE  RecordsHaveACheckpoint'
<1>1. PICK new :
        /\ records' = records \cup {new}
        /\ new.packet = packet /\ new.at = arms[p].at /\ new.window = arms[p].window
        /\ new.research = arms[p].research
  <2> DEFINE record == [packet |-> packet, at |-> arms[p].at, window |-> arms[p].window,
                        by |-> p, research |-> arms[p].research]
  <2>1. records' = records \cup {record}
    BY DEF Record
  <2>2. /\ record.packet = packet /\ record.at = arms[p].at
        /\ record.window = arms[p].window /\ record.research = arms[p].research
    OBVIOUS
  <2> HIDE DEF record
  <2> QED
    BY <2>1, <2>2
<1>2. PICK i : i = arms[p].research /\ i \in DOMAIN checkpoints
  BY DEF Inductive, JudgesACheckpoint
<1>3. PICK runs : runs = checkpoints[i].runs
  OBVIOUS
<1>4. ComesFrom(new, runs)
  BY <1>1, <1>2, <1>3 DEF ComesFrom, Researched
<1>5. new.research = i
  BY <1>1, <1>2
<1>6. ComesFrom(new, runs)'
  BY <1>4, OriginIsKept DEF ledger
<1>7. new.research \in DOMAIN checkpoints' /\ ComesFrom(new, checkpoints[new.research].runs)'
  BY <1>2, <1>3, <1>5, <1>6
<1> QED
  BY <1>1, <1>7, RecordsStay DEF RecordsHaveACheckpoint

LEMMA NextRecords ==
  ASSUME Inductive, [Next]_vars
  PROVE  RecordsHaveACheckpoint'
<1>1. CASE records' = records
  BY <1>1, RecordsStay DEF RecordsHaveACheckpoint
<1>2. "batch" \in Processes /\ "poll" \in Processes
  BY DEF Processes
<1>3. CASE BatchAttempt /\ Record("batch", Researched("batch"))
  BY <1>2, <1>3, RecordStep DEF BatchAttempt, journal
<1>4. CASE \E poor \in BOOLEAN : PollAttempt(poor) /\ records' # records
  <2> DEFINE packet == UsablePacket(Researched("poll"), arms["poll"].at, arms["poll"].window)
  <2>1. Record("poll", packet) /\ arms["poll"].step = "judge" /\ UNCHANGED <<ledger, checkpoints>>
    BY <1>4 DEF PollAttempt, Refuse, journal
  <2>2. packet \in {Researched("poll"),
                    UsablePacket(Researched("poll"), arms["poll"].at, arms["poll"].window)}
    OBVIOUS
  <2> HIDE DEF packet
  <2> QED
    BY <1>2, <2>1, <2>2, RecordStep
<1>5. CASE BatchAttempt /\ ~Record("batch", Researched("batch"))
  BY <1>1, <1>5 DEF BatchAttempt, Refuse
<1> QED
  BY <1>1, <1>3, <1>4, <1>5
  DEF Next, vars, forecasts, BeginBatch, BeginPoll, Begin, Look, Complete, Checkpoint, Stop,
      FailAttempt, Follow, Shadow, Tick

\* Checkpoints are complete and records come from them, at every step of store,
\* pipeline_live and tournament.
THEOREM InductiveHolds == Spec => []Inductive
<1>1. Init => Inductive
  <2> SUFFICES ASSUME Init PROVE Inductive
    OBVIOUS
  <2>1. \A p \in Processes : arms[p] = Idle
    BY DEF Init
  <2>2. Typed
    BY IdleIsAState DEF Init, Typed, NoDate
  <2>3. DOMAIN checkpoints = {}
    BY DEF Init
  <2> QED
    BY <2>1, <2>2, <2>3
    DEF Init, Idle, Inductive, CheckpointsAreComplete, BoughtIsComplete, JudgesACheckpoint,
        RecordsHaveACheckpoint
<1>2. Inductive /\ [Next]_vars => Inductive'
  BY NextTyped, NextComplete, NextJudges, NextRecords DEF Inductive
<1> QED
  BY <1>1, <1>2, PTL DEF Spec

\* Whatever is retrieved and checkpointed in between, and whatever instants and
\* settings the processes keep, the packet of a record can be built again under
\* the setting it was made under (submission_policy.require_research_artifacts).
THEOREM PacketsAreReproducibleHolds == Spec => []PacketsAreReproducible
<1>1. Inductive => PacketsAreReproducible
  BY DEF Inductive, RecordsHaveACheckpoint, ComesFrom, PacketsAreReproducible, Reproduces,
     Checkpointed
<1> QED
  BY InductiveHolds, <1>1, PTL

-----------------------------------------------------------------------------
(* One row for each key.  The collapse is recursive: its equation, and     *)
(* what it keeps, hold of every document or of a least one they fail for.  *)

LEMMA LeastOf ==
  ASSUME NEW T \in SUBSET Nat, T # {}
  PROVE  \E p \in T : \A q \in T : p <= q
<1>1. IsWellFoundedOn(OpToRel(<, Nat), Nat)
  BY NatLessThanWellFounded
<1>2. PICK p \in T : \A q \in T : <<q, p>> \notin OpToRel(<, Nat)
  BY <1>1, WFMin, Zenon
<1>3. p \in Nat /\ \A q \in T : q \in Nat
  OBVIOUS
<1>4. \A q \in T : ~(q < p)
  BY <1>2, <1>3, Zenon DEF OpToRel
<1> QED
  BY <1>3, <1>4

LEMMA CardinalityOfInterval ==
  ASSUME NEW n \in Nat
  PROVE  IsFiniteSet(1 .. n) /\ Cardinality(1 .. n) = n
<1>1. 1 \in Int /\ n \in Int
  OBVIOUS
<1>2. /\ IsFiniteSet(1 .. n)
      /\ Cardinality(1 .. n) = IF 1 > n THEN 0 ELSE n - 1 + 1
  BY <1>1, FS_Interval, Zenon
<1> QED
  BY <1>2

\* What the collapse does up to a document, it does.
Extends(docs, n, f) ==
   f = [m \in 0 .. n |-> IF m = 0 THEN <<>> ELSE Collapse(f[m - 1], docs[m])]

LEMMA ExtendsToAll ==
  ASSUME NEW docs, NEW n \in Nat
  PROVE  \E f : Extends(docs, n, f)
<1> DEFINE T == {m \in Nat : ~\E f : Extends(docs, m, f)}
<1> SUFFICES ASSUME T # {} PROVE FALSE
  OBVIOUS
<1>1. T \in SUBSET Nat
  OBVIOUS
<1> HIDE DEF T
<1>2. PICK m \in T : \A q \in T : m <= q
  BY <1>1, LeastOf
<1> USE DEF T
<1>3. m # 0
  <2> DEFINE f == [k \in 0 .. 0 |-> <<>>]
  <2>1. Extends(docs, 0, f)
    BY DEF Extends
  <2> QED
    BY <2>1
<1>4. m - 1 \in Nat /\ m \in Nat
  BY <1>3
<1>5. m - 1 \notin T
  BY <1>2, <1>4
<1>6. PICK f : Extends(docs, m - 1, f)
  BY <1>4, <1>5
<1> DEFINE g == [k \in 0 .. m |-> IF k = m THEN Collapse(f[m - 1], docs[m]) ELSE f[k]]
<1>7. Extends(docs, m, g)
  BY <1>3, <1>4, <1>6 DEF Extends
<1> QED
  BY <1>2, <1>7

LEMMA Unfolded ==
  ASSUME NEW docs, Len(docs) \in Nat
  PROVE \E f : Extends(docs, Len(docs), f) /\ Deduplicate(docs) = f[Len(docs)]
<1>1. Deduplicate(docs) = (CHOOSE f : Extends(docs, Len(docs), f))[Len(docs)]
  BY Zenon DEF Deduplicate, Extends
<1> QED
  BY <1>1, ExtendsToAll

\* Rows of one run, retrieved at one time.
IsRow(doc, r, t) ==
    /\ doc.run = r /\ doc.retrieved = t
    /\ doc.reported \in BOOLEAN /\ doc.json \in Nat

\* What was kept of the first n documents: each key once, as its strongest.
Keeps(docs, n, s) ==
    /\ s \in Seq(Members(docs))
    /\ \A i, j \in DOMAIN s : DedupKey(s[i]) = DedupKey(s[j]) => i = j
    /\ \A m \in 1 .. n : \E i \in DOMAIN s :
          DedupKey(s[i]) = DedupKey(docs[m]) /\ ~Stronger(docs[m], s[i])

LEMMA WeakerStaysWeaker ==
  ASSUME NEW r, NEW t \in Nat, NEW a, NEW b, NEW c,
         IsRow(a, r, t), IsRow(b, r, t), IsRow(c, r, t),
         ~Stronger(a, b)
  PROVE  ~Stronger(a, Prefer(b, c)) /\ ~Stronger(c, Prefer(b, c))
<1>1. CASE Stronger(c, b)
  BY <1>1 DEF IsRow, Stronger, Prefer
<1>2. CASE ~Stronger(c, b)
  BY <1>2 DEF Prefer
<1> QED
  BY <1>1, <1>2

LEMMA CollapseKeeps ==
  ASSUME NEW docs, docs \in Seq(Members(docs)), NEW r, NEW t \in Nat,
         \A doc \in Members(docs) : IsRow(doc, r, t),
         NEW n \in Nat, n + 1 \in DOMAIN docs, NEW s, Keeps(docs, n, s)
  PROVE  Keeps(docs, n + 1, Collapse(s, docs[n + 1]))
<1> DEFINE D == Members(docs)
           doc == docs[n + 1]
           same == {i \in DOMAIN s : DedupKey(s[i]) = DedupKey(doc)}
<1>1. /\ doc \in D /\ s \in Seq(D)
      /\ Len(s) \in Nat /\ DOMAIN s = 1 .. Len(s)
      /\ \A i \in DOMAIN s : s[i] \in D
      /\ \A m \in 1 .. n : docs[m] \in D
  BY DEF Keeps, Members
<1>2. CASE same = {}
  <2> DEFINE u == Append(s, doc)
  <2>1. Collapse(s, doc) = u
    BY <1>2 DEF Collapse
  <2>2. /\ u \in Seq(D) /\ DOMAIN u = 1 .. (Len(s) + 1)
        /\ u[Len(s) + 1] = doc
        /\ \A i \in 1 .. Len(s) : u[i] = s[i]
    <3> HIDE DEF D, doc
    <3> QED
      BY <1>1
  <2>3. ASSUME NEW i \in DOMAIN u, NEW j \in DOMAIN u,
               DedupKey(u[i]) = DedupKey(u[j])
        PROVE  i = j
    <3>1. \A k \in 1 .. Len(s) : DedupKey(s[k]) # DedupKey(doc)
      BY <1>1, <1>2
    <3> HIDE DEF u, D, doc
    <3>2. CASE i \in 1 .. Len(s) /\ j \in 1 .. Len(s)
      BY <1>1, <2>2, <2>3, <3>2 DEF Keeps
    <3>3. CASE i = Len(s) + 1 \/ j = Len(s) + 1
      BY <1>1, <2>2, <2>3, <3>1, <3>3
    <3> QED
      BY <1>1, <2>2, <3>2, <3>3
  <2>4. ASSUME NEW m \in 1 .. (n + 1)
        PROVE  \E i \in DOMAIN u :
                  DedupKey(u[i]) = DedupKey(docs[m]) /\ ~Stronger(docs[m], u[i])
    <3>1. CASE m = n + 1
      <4>1. ~Stronger(doc, doc)
        BY <1>1 DEF Stronger, IsRow
      <4> HIDE DEF u
      <4> QED
        BY <1>1, <2>2, <3>1, <4>1
    <3>2. CASE m \in 1 .. n
      <4>1. PICK i \in DOMAIN s :
               DedupKey(s[i]) = DedupKey(docs[m]) /\ ~Stronger(docs[m], s[i])
        BY <3>2 DEF Keeps
      <4> HIDE DEF u, D
      <4> QED
        BY <1>1, <2>2, <4>1
    <3> QED
      BY <3>1, <3>2
  <2> HIDE DEF u
  <2> QED
    BY <2>1, <2>2, <2>3, <2>4 DEF Keeps
<1>3. CASE same # {}
  <2> DEFINE u == [i \in DOMAIN s |->
                     IF i \in same THEN Prefer(s[i], doc) ELSE s[i]]
  <2>1. Collapse(s, doc) = u
    BY <1>3 DEF Collapse
  <2>2. /\ DOMAIN u = DOMAIN s
        /\ \A i \in DOMAIN s :
              u[i] \in D /\ DedupKey(u[i]) = DedupKey(s[i])
    BY <1>1 DEF Prefer
  <2>3. u \in Seq(D)
    <3> HIDE DEF u, D
    <3>1. u = [i \in 1 .. Len(s) |-> u[i]]
      BY <1>1, <2>1, <2>2 DEF u
    <3> QED
      BY <1>1, <2>2, <3>1
  <2>4. ASSUME NEW m \in 1 .. n, NEW i \in DOMAIN s,
               DedupKey(s[i]) = DedupKey(docs[m]), ~Stronger(docs[m], s[i])
        PROVE  ~Stronger(docs[m], u[i])
    BY <1>1, <2>4, WeakerStaysWeaker
  <2>5. ASSUME NEW i \in same
        PROVE  ~Stronger(doc, u[i])
    <3>1. ~Stronger(s[i], s[i])
      BY <1>1 DEF Stronger, IsRow
    <3> QED
      BY <1>1, <3>1, WeakerStaysWeaker
  <2>6. ASSUME NEW m \in 1 .. (n + 1)
        PROVE  \E i \in DOMAIN u :
                  DedupKey(u[i]) = DedupKey(docs[m]) /\ ~Stronger(docs[m], u[i])
    <3>1. CASE m = n + 1
      BY <1>3, <2>2, <2>5, <3>1
    <3>2. CASE m \in 1 .. n
      <4>1. PICK i \in DOMAIN s :
               DedupKey(s[i]) = DedupKey(docs[m]) /\ ~Stronger(docs[m], s[i])
        BY <3>2 DEF Keeps
      <4> QED
        BY <2>2, <2>4, <3>2, <4>1
    <3> QED
      BY <3>1, <3>2
  <2> HIDE DEF u
  <2> QED
    BY <2>1, <2>2, <2>3, <2>6 DEF Keeps
<1> QED
  BY <1>2, <1>3

LEMMA DeduplicateKeeps ==
  ASSUME NEW docs, docs \in Seq(Members(docs)), NEW r, NEW t \in Nat,
         \A doc \in Members(docs) : IsRow(doc, r, t)
  PROVE  Keeps(docs, Len(docs), Deduplicate(docs))
<1>1. Len(docs) \in Nat /\ DOMAIN docs = 1 .. Len(docs)
  OBVIOUS
<1>2. PICK f : Extends(docs, Len(docs), f) /\ Deduplicate(docs) = f[Len(docs)]
  BY <1>1, Unfolded
<1> DEFINE T == {m \in 0 .. Len(docs) : ~Keeps(docs, m, f[m])}
<1>3. T = {}
  <2> SUFFICES ASSUME T # {} PROVE FALSE
    OBVIOUS
  <2>1. T \in SUBSET Nat
    BY <1>1
  <2> HIDE DEF T
  <2>2. PICK m \in T : \A q \in T : m <= q
    BY <2>1, LeastOf
  <2> USE DEF T
  <2>3. m # 0
    <3>1. f[0] = <<>>
      BY <1>1, <1>2 DEF Extends
    <3>2. Keeps(docs, 0, <<>>)
      BY DEF Keeps
    <3> QED
      BY <3>1, <3>2
  <2>4. m - 1 \in 0 .. Len(docs) /\ m - 1 \notin T /\ m \in 1 .. Len(docs)
    BY <1>1, <2>2, <2>3
  <2>5. Keeps(docs, m - 1, f[m - 1])
    BY <2>4
  <2>6. f[m] = Collapse(f[m - 1], docs[m])
    BY <1>1, <1>2, <2>4 DEF Extends
  <2>7. m - 1 \in Nat /\ (m - 1) + 1 = m
    BY <1>1, <2>4
  <2> HIDE DEF T
  <2>8. Keeps(docs, (m - 1) + 1, Collapse(f[m - 1], docs[(m - 1) + 1]))
    BY <1>1, <2>4, <2>5, <2>7, CollapseKeeps
  <2> QED
    BY <2>4, <2>6, <2>7, <2>8 DEF T
<1> QED
  BY <1>1, <1>2, <1>3

\* What is kept is, of each key, the one strongest document.
Strongest(docs, kept) ==
    /\ Members(kept) =
         {doc \in Members(docs) :
            \A other \in Members(docs) :
                DedupKey(other) = DedupKey(doc) => ~Stronger(other, doc)}
    /\ Len(kept) = Cardinality({DedupKey(doc) : doc \in Members(kept)})

LEMMA KeepsTheStrongest ==
  ASSUME NEW docs, docs \in Seq(Members(docs)), NEW r, NEW t \in Nat,
         \A doc \in Members(docs) : IsRow(doc, r, t),
         \A a, b \in Members(docs) :
            <<a.url, a.hash, a.reported, a.json>> = <<b.url, b.hash, b.reported, b.json>>
              => a = b
  PROVE  /\ Strongest(docs, Deduplicate(docs))
         /\ Deduplicate(docs) \in Seq(Members(Deduplicate(docs)))
<1> DEFINE D == Members(docs)
           s == Deduplicate(docs)
           best == {doc \in D : \A other \in D :
                      DedupKey(other) = DedupKey(doc) => ~Stronger(other, doc)}
<1>1. Keeps(docs, Len(docs), s)
  BY DeduplicateKeeps
<1>2. /\ Len(docs) \in Nat /\ DOMAIN docs = 1 .. Len(docs)
      /\ s \in Seq(D) /\ Len(s) \in Nat /\ DOMAIN s = 1 .. Len(s)
      /\ \A i \in DOMAIN s : s[i] \in D
  <2>1. s \in Seq(D)
    BY <1>1 DEF Keeps
  <2> HIDE DEF s, D
  <2> QED
    BY <2>1
<1>3. \A doc \in D : \E i \in DOMAIN s :
         DedupKey(s[i]) = DedupKey(doc) /\ ~Stronger(doc, s[i])
  BY <1>1, <1>2 DEF Keeps, Members
<1>4. \A i, j \in DOMAIN s : DedupKey(s[i]) = DedupKey(s[j]) => i = j
  BY <1>1 DEF Keeps
<1> HIDE DEF s
<1>5. ASSUME NEW i \in DOMAIN s
      PROVE  s[i] \in best
  <2>1. ASSUME NEW other \in D, DedupKey(other) = DedupKey(s[i])
        PROVE  ~Stronger(other, s[i])
    <3>1. PICK j \in DOMAIN s :
             DedupKey(s[j]) = DedupKey(other) /\ ~Stronger(other, s[j])
      BY <1>3
    <3>2. j = i
      BY <1>4, <2>1, <3>1
    <3> QED
      BY <3>1, <3>2
  <2> QED
    BY <1>2, <2>1
<1>6. ASSUME NEW doc \in best
      PROVE  \E i \in DOMAIN s : s[i] = doc
  <2>1. PICK i \in DOMAIN s :
           DedupKey(s[i]) = DedupKey(doc) /\ ~Stronger(doc, s[i])
    BY <1>3
  <2>2. ~Stronger(s[i], doc)
    BY <1>2, <2>1
  <2>3. s[i].url = doc.url /\ s[i].hash = doc.hash
    BY <2>1 DEF DedupKey
  <2>4. IsRow(s[i], r, t) /\ IsRow(doc, r, t)
    BY <1>2
  <2>5. s[i].reported = doc.reported /\ s[i].json = doc.json
    BY <2>1, <2>2, <2>4 DEF Stronger, IsRow
  <2> QED
    BY <1>2, <2>3, <2>5
<1>7. Members(s) = best
  <2>1. \A doc : doc \in Members(s) <=> \E i \in DOMAIN s : s[i] = doc
    BY DEF Members
  <2> HIDE DEF best
  <2> QED
    BY <1>5, <1>6, <2>1
<1>8. Len(s) = Cardinality({DedupKey(doc) : doc \in Members(s)})
  <2> DEFINE K == {DedupKey(doc) : doc \in Members(s)}
             f == [i \in 1 .. Len(s) |-> DedupKey(s[i])]
  <2>5. Len(s) \in Nat
    BY <1>2
  <2>6. f \in [1 .. Len(s) -> K]
    <3>1. \A i \in 1 .. Len(s) : s[i] \in Members(s)
      BY <1>2 DEF Members
    <3>2. \A i \in 1 .. Len(s) : DedupKey(s[i]) \in K
      BY <3>1
    <3> HIDE DEF K
    <3> QED
      BY <3>2
  <2>7. \A k \in K : \E i \in 1 .. Len(s) : f[i] = k
    BY <1>2 DEF Members
  <2>1. f \in Surjection(1 .. Len(s), K)
    BY <2>6, <2>7 DEF Surjection
  <2>2. f \in Injection(1 .. Len(s), K)
    BY <1>2, <1>4, <2>1 DEF Surjection, Injection, IsInjective
  <2> HIDE DEF f, K
  <2>3. IsFiniteSet(1 .. Len(s)) /\ Cardinality(1 .. Len(s)) = Len(s)
    BY <2>5, CardinalityOfInterval
  <2>4. Cardinality(K) = Cardinality(1 .. Len(s))
    BY <2>1, <2>2, <2>3, FS_Surjection
  <2> QED
    BY <2>3, <2>4 DEF K
<1>9. s \in Seq(Members(s))
  <2>1. Len(s) \in Nat /\ s = [i \in 1 .. Len(s) |-> s[i]]
    BY <1>2
  <2>2. \A i \in 1 .. Len(s) : s[i] \in Members(s)
    BY <1>2 DEF Members
  <2> QED
    BY <2>1, <2>2
<1> QED
  BY <1>7, <1>8, <1>9 DEF Strongest, s

-----------------------------------------------------------------------------
(* The rows of every run.                                                  *)

RowsAreStrongest ==
    \A r \in Runs :
       /\ Strongest(answered[r], stored[r])
       /\ stored[r] \in Seq(Members(stored[r]))
       /\ \A doc \in Members(stored[r]) : doc.run = r

Rows ==
    /\ DOMAIN answered = Runs
    /\ RowsAreStrongest

\* What is answered for a run becomes rows of that run.
LEMMA ReturnedRows ==
  ASSUME NEW r \in Runs, NEW offer \in Offers[r], NEW at \in Nat
  PROVE  LET docs == [i \in DOMAIN offer |-> Returned(offer[i], r, at)]
         IN  /\ Strongest(docs, Deduplicate(docs))
             /\ Deduplicate(docs) \in Seq(Members(Deduplicate(docs)))
             /\ \A doc \in Members(Deduplicate(docs)) : doc.run = r
<1> DEFINE docs == [i \in DOMAIN offer |-> Returned(offer[i], r, at)]
<1>1. IsOffer(offer)
  BY EvidenceInputs
<1>2. \A i \in DOMAIN offer : offer[i] \in Members(offer)
  BY DEF Members
<1>3. \A i \in DOMAIN docs : docs[i] \in Members(docs)
  BY DEF Members
<1>4. docs \in Seq(Members(docs))
  <2>1. offer \in Seq(Members(offer))
    BY <1>1 DEF IsOffer
  <2>2. Len(offer) \in Nat /\ DOMAIN offer = 1 .. Len(offer)
    BY <2>1
  <2>3. docs = [i \in 1 .. Len(offer) |-> docs[i]]
    BY <2>2
  <2> HIDE DEF docs
  <2>4. DOMAIN docs = 1 .. Len(offer)
    BY <2>3
  <2> QED
    BY <1>3, <2>2, <2>3, <2>4
<1>5. ASSUME NEW doc, IsDocument(doc)
      PROVE  /\ IsRow(Returned(doc, r, at), r, at)
             /\ \A f \in Fields : Returned(doc, r, at)[f] = doc[f]
  <2>1. {"reported", "json"} \subseteq Fields /\ {"run", "retrieved"} \cap Fields = {}
    BY DEF Fields
  <2>2. /\ Returned(doc, r, at)["run"] = r
        /\ Returned(doc, r, at)["retrieved"] = at
        /\ \A f \in Fields : Returned(doc, r, at)[f] = doc[f]
    BY <2>1 DEF Returned
  <2> QED
    BY <1>5, <2>1, <2>2 DEF IsRow, IsDocument
<1>6. \A doc \in Members(docs) :
         \E i \in DOMAIN offer : doc = Returned(offer[i], r, at) /\ IsDocument(offer[i])
  BY <1>1, <1>2 DEF Members, IsOffer
<1>7. \A doc \in Members(docs) : IsRow(doc, r, at)
  <2> HIDE DEF docs
  <2> QED
    BY <1>5, <1>6
<1>8. ASSUME NEW a \in Members(docs), NEW b \in Members(docs),
             <<a.url, a.hash, a.reported, a.json>> = <<b.url, b.hash, b.reported, b.json>>
      PROVE  a = b
  <2> HIDE DEF docs
  <2>1. PICK i \in DOMAIN offer : a = Returned(offer[i], r, at) /\ IsDocument(offer[i])
    BY <1>6
  <2>2. PICK j \in DOMAIN offer : b = Returned(offer[j], r, at) /\ IsDocument(offer[j])
    BY <1>6
  <2>3. {"url", "hash", "reported", "json"} \subseteq Fields
    BY DEF Fields
  <2>4. /\ offer[i].url = a.url /\ offer[i].hash = a.hash
        /\ offer[i].reported = a.reported /\ offer[i].json = a.json
    BY <1>5, <2>1, <2>3
  <2>5. /\ offer[j].url = b.url /\ offer[j].hash = b.hash
        /\ offer[j].reported = b.reported /\ offer[j].json = b.json
    BY <1>5, <2>2, <2>3
  <2>6. offer[i] = offer[j]
    BY <1>1, <1>2, <1>8, <2>4, <2>5 DEF IsOffer
  <2> QED
    BY <2>1, <2>2, <2>6
<1> HIDE DEF docs
<1>9. /\ Strongest(docs, Deduplicate(docs))
      /\ Deduplicate(docs) \in Seq(Members(Deduplicate(docs)))
  BY <1>4, <1>7, <1>8, KeepsTheStrongest
<1>10. \A doc \in Members(Deduplicate(docs)) : doc.run = r
  BY <1>7, <1>9 DEF Strongest, IsRow
<1> QED
  BY <1>9, <1>10 DEF docs

LEMMA InitRows == Init => Rows
<1> SUFFICES ASSUME Init PROVE Rows
  OBVIOUS
<1>1. Members(<<>>) = {} /\ Len(<<>>) = 0
  BY DEF Members
<1>2. Strongest(<<>>, <<>>)
  BY <1>1, FS_EmptySet DEF Strongest
<1> QED
  BY <1>1, <1>2 DEF Init, Rows, RowsAreStrongest

LEMMA RowsOfAnswered ==
  ASSUME Inductive, Rows, NEW r \in Runs, NEW at \in Nat, Answered(r, at)
  PROVE  Rows'
<1>1. PICK offer \in Offers[r] :
         LET docs == [i \in DOMAIN offer |-> Returned(offer[i], r, at)]
         IN  /\ answered' = [answered EXCEPT ![r] = docs]
             /\ stored' = [stored EXCEPT ![r] = Deduplicate(docs)]
  BY DEF Answered
<1> DEFINE docs == [i \in DOMAIN offer |-> Returned(offer[i], r, at)]
<1>2. /\ Strongest(docs, Deduplicate(docs))
      /\ Deduplicate(docs) \in Seq(Members(Deduplicate(docs)))
      /\ \A doc \in Members(Deduplicate(docs)) : doc.run = r
  BY ReturnedRows
<1> HIDE DEF docs
<1>3. /\ DOMAIN answered = Runs /\ DOMAIN stored = Runs
  BY DEF Rows, Inductive, Typed
<1>4. /\ answered'[r] = docs /\ stored'[r] = Deduplicate(docs)
      /\ DOMAIN answered' = Runs
      /\ \A other \in Runs \ {r} :
            answered'[other] = answered[other] /\ stored'[other] = stored[other]
  BY <1>1, <1>3 DEF docs
<1> QED
  BY <1>2, <1>4 DEF Rows, RowsAreStrongest

LEMMA NextRows ==
  ASSUME Inductive, Rows, [Next]_vars
  PROVE  Rows'
<1>1. \A p \in Processes : arms[p].at \in Nat
  BY DEF Inductive, Typed, States
<1>2. CASE \E p \in Processes, r \in Baseline : Complete(p, r)
  BY <1>1, <1>2, RowsOfAnswered DEF Complete, Runs
<1>3. CASE \E r \in Lens, i \in DOMAIN checkpoints : Follow(r, i) /\ Answered(r, arms["poll"].at)
  BY <1>1, <1>3, RowsOfAnswered DEF Processes, Runs
<1>4. CASE UNCHANGED ledger
  BY <1>4 DEF Rows, RowsAreStrongest, ledger
<1> QED
  BY <1>2, <1>3, <1>4
  DEF Next, vars, BeginBatch, BeginPoll, Begin, Look, Checkpoint, Stop, BatchAttempt, PollAttempt,
      FailAttempt, Follow, Shadow, Tick

\* Whatever order a provider answers in, the ledger keeps of each document the
\* strongest claim, once (dedup.py).
THEOREM StoredIsStrongestHolds == Spec => []StoredIsStrongest
<1>1. Inductive /\ Rows /\ [Next]_vars => Rows'
  BY NextRows
<1>2. Rows => StoredIsStrongest
  BY DEF Rows, RowsAreStrongest, Strongest, StoredIsStrongest
<1> QED
  BY <1>1, <1>2, InitRows, InductiveHolds, PTL DEF Spec

-----------------------------------------------------------------------------
(* The shadow arm.  A poll's research is bought under the window it is in, *)
(* and windows follow one another: so what comes between the research the  *)
(* control was made from and the research the lens follows is a batch's.   *)

PollsWindow == arms["poll"].step # "idle" => arms["poll"].at = opened

WindowsInOrder ==
    \A i \in DOMAIN checkpoints : checkpoints[i].by = "poll" =>
        /\ checkpoints[i].at <= opened
        /\ \A j \in DOMAIN checkpoints :
              i < j /\ checkpoints[j].by = "poll" => checkpoints[i].at <= checkpoints[j].at

\* No poll has checkpointed since, and the checkpoint is not ahead.
IsLatest(i, at) ==
    /\ i \in DOMAIN checkpoints /\ checkpoints[i].at <= at
    /\ \A j \in DOMAIN checkpoints : i < j => checkpoints[j].by = "batch"

JudgesTheLatest ==
    arms["poll"].step = "judge" => IsLatest(arms["poll"].research, arms["poll"].at)

Researching == PollsWindow /\ WindowsInOrder /\ JudgesTheLatest

ControlIsUsable ==
    \A record \in control :
        /\ arms["poll"].step \in {"follow", "shadow"}
        /\ record.at = arms["poll"].at /\ record.window = arms["poll"].window
        /\ IsLatest(record.research, record.at)
        /\ record.packet =
             UsablePacket(Packet(checkpoints[record.research].runs), record.at, record.window)

LensFollows ==
    \A l \in followed :
        /\ arms["poll"].step = "shadow"
        /\ l.run \in Lens /\ l.at = arms["poll"].at
        /\ l.follows \in DOMAIN checkpoints
        /\ checkpoints[l.follows].at = l.at /\ checkpoints[l.follows].runs = l.base
        /\ \A record \in control :
              l.follows < record.research => checkpoints[record.research].at # l.at

\* What a batch does leaves the poll where it is.
LEMMA BatchMoves ==
  ASSUME Typed,
         \/ BeginBatch \/ Look("batch") \/ (\E r \in Baseline : Complete("batch", r))
         \/ Checkpoint("batch") \/ Stop("batch") \/ BatchAttempt \/ Tick \/ UNCHANGED vars
  PROVE  /\ arms'["poll"] = arms["poll"]
         /\ UNCHANGED <<opened, control, followed>>
         /\ UNCHANGED checkpoints \/ Checkpoint("batch")
<1>1. /\ "batch" \in Processes /\ "poll" \in Processes \ {"batch"} /\ "buy" \in Steps
      /\ now \in Nat /\ Len(checkpoints) \in Nat /\ Len(checkpoints) + 1 \in Nat
      /\ arms["batch"] \in States
  BY DEF Processes, Steps, Typed
<1>2. ASSUME NEW a \in States, arms' = [arms EXCEPT !["batch"] = a]
      PROVE  arms'["poll"] = arms["poll"]
  BY <1>1, <1>2, Moved
<1>3. CASE BeginBatch
  <2>1. Begin("batch", now) /\ UNCHANGED <<opened, checkpoints, control, followed>>
    BY <1>3 DEF BeginBatch, Begin, poll
  <2>2. arms'["poll"] = arms["poll"]
    BY <1>1, <2>1, Beginning
  <2> QED
    BY <2>1, <2>2
<1>4. CASE Look("batch")
  BY <1>1, <1>4, Judging, Going DEF Look, journal, poll
<1>5. ASSUME NEW r \in Baseline, Complete("batch", r)
      PROVE  arms'["poll"] = arms["poll"] /\ UNCHANGED <<opened, control, followed, checkpoints>>
  <2>1. [arms["batch"] EXCEPT !.bought = @ \cup {r}] \in States
    BY <1>1 DEF States
  <2>2. arms' = [arms EXCEPT !["batch"] = [arms["batch"] EXCEPT !.bought = @ \cup {r}]]
    BY <1>5 DEF Complete, Typed
  <2>3. arms'["poll"] = arms["poll"]
    BY <1>2, <2>1, <2>2
  <2> QED
    BY <1>5, <2>3 DEF Complete, journal, poll
<1>6. CASE Checkpoint("batch")
  BY <1>1, <1>6, Judging DEF Checkpoint, poll
<1>7. CASE Stop("batch")
  BY <1>2, <1>7, IdleIsAState DEF Stop, Leaves, journal, poll
<1>8. CASE BatchAttempt
  <2>1. arms'["poll"] = arms["poll"]
    BY <1>2, <1>8, IdleIsAState DEF BatchAttempt
  <2>2. control' = control
    BY <1>8 DEF BatchAttempt, Record, Refuse
  <2> QED
    BY <1>8, <2>1, <2>2 DEF BatchAttempt, journal
<1>9. CASE Tick \/ UNCHANGED vars
  BY <1>9 DEF Tick, vars, journal, poll
<1> QED
  BY <1>3, <1>4, <1>5, <1>6, <1>7, <1>8, <1>9

\* A poll that is through has nothing left, and one that comes to its lens
\* without a record, or goes on to buy, keeps what it has.
LEMMA PollMoves ==
  ASSUME Typed,
         \/ Look("poll") /\ Goes("poll", "buy")
         \/ \E r \in Baseline : Complete("poll", r)
         \/ Stop("poll") \/ FailAttempt
         \/ (\E r \in Lens, i \in DOMAIN checkpoints : Follow(r, i) /\ Leaves("poll"))
         \/ \E record \in control, l \in followed : Shadow(record, l)
  PROVE  /\ arms["poll"].step # "idle" /\ UNCHANGED <<opened, checkpoints>>
         /\ \/ arms'["poll"].step = "idle" /\ control' = {} /\ followed' = {}
            \/ /\ arms["poll"].step \in {"look", "buy", "judge"}
               /\ arms'["poll"].step \in {"buy", "follow"}
               /\ arms'["poll"].at = arms["poll"].at
               /\ UNCHANGED <<control, followed>>
<1>1. /\ "poll" \in Processes /\ "buy" \in Steps /\ arms["poll"] \in States
  BY DEF Processes, Steps, Typed
<1>2. ASSUME Leaves("poll")
      PROVE  arms'["poll"].step = "idle" /\ control' = {} /\ followed' = {}
  BY <1>1, <1>2, Leaving DEF Leaves, Idle
<1>3. CASE Look("poll") /\ Goes("poll", "buy")
  <2>1. arms'["poll"] = [arms["poll"] EXCEPT !.step = "buy"]
    BY <1>1, <1>3, Going
  <2>2. arms'["poll"].step = "buy" /\ arms'["poll"].at = arms["poll"].at
    BY <1>1, <2>1 DEF States
  <2> QED
    BY <1>3, <2>2 DEF Look, journal, poll
<1>4. ASSUME NEW r \in Baseline, Complete("poll", r)
      PROVE  /\ arms["poll"].step = "buy" /\ arms'["poll"].step = "buy"
             /\ arms'["poll"].at = arms["poll"].at
             /\ UNCHANGED <<opened, checkpoints, control, followed>>
  <2> DEFINE a == [arms["poll"] EXCEPT !.bought = @ \cup {r}]
  <2>1. /\ a \in States /\ a.step = arms["poll"].step /\ a.at = arms["poll"].at
    BY <1>1 DEF States
  <2>2. arms' = [arms EXCEPT !["poll"] = a]
    BY <1>4 DEF Complete, Typed
  <2> HIDE DEF a
  <2>3. arms'["poll"] = a
    BY <1>1, <2>1, <2>2, Moved
  <2> QED
    BY <1>4, <2>1, <2>3 DEF Complete, journal, poll
<1>5. CASE Stop("poll")
  BY <1>2, <1>5 DEF Stop, journal
<1>6. CASE FailAttempt
  <2>1. arms'["poll"].step = "follow" /\ arms'["poll"].at = arms["poll"].at
    <3>1. arms'["poll"] = [arms["poll"] EXCEPT !.step = "follow", !.bought = {}, !.research = 0]
      BY <1>6, Ending DEF FailAttempt
    <3> QED
      BY <1>1, <3>1 DEF States
  <2> QED
    BY <1>6, <2>1 DEF FailAttempt, journal, poll
<1>7. CASE \E r \in Lens, i \in DOMAIN checkpoints : Follow(r, i) /\ Leaves("poll")
  BY <1>2, <1>7 DEF Follow
<1>8. CASE \E record \in control, l \in followed : Shadow(record, l)
  BY <1>2, <1>8 DEF Shadow, journal
<1> QED
  BY <1>3, <1>4, <1>5, <1>6, <1>7, <1>8

\* The other steps of a poll.
PollActs ==
    \/ BeginPoll
    \/ Look("poll") /\ Reusable(arms["poll"].at) /\ Judges("poll", Len(checkpoints))
    \/ Checkpoint("poll")
    \/ \E poor \in BOOLEAN : PollAttempt(poor)
    \/ \E r \in Lens, i \in DOMAIN checkpoints : Follow(r, i) /\ followed' # {}

\* Every step is one of these.
LEMMA StepsSplit ==
  ASSUME Typed, [Next]_vars
  PROVE  \/ /\ arms'["poll"] = arms["poll"]
            /\ UNCHANGED <<opened, control, followed>>
            /\ UNCHANGED checkpoints \/ Checkpoint("batch")
         \/ /\ arms["poll"].step # "idle" /\ UNCHANGED <<opened, checkpoints>>
            /\ \/ arms'["poll"].step = "idle" /\ control' = {} /\ followed' = {}
               \/ /\ arms["poll"].step \in {"look", "buy", "judge"}
                  /\ arms'["poll"].step \in {"buy", "follow"}
                  /\ arms'["poll"].at = arms["poll"].at
                  /\ UNCHANGED <<control, followed>>
         \/ PollActs
<1>1. \A p \in Processes : p = "batch" \/ p = "poll"
  BY DEF Processes
<1>2. ASSUME NEW p \in Processes, \/ Look(p) \/ (\E r \in Baseline : Complete(p, r))
                                  \/ Checkpoint(p) \/ Stop(p)
      PROVE  \/ \/ Look("batch") \/ (\E r \in Baseline : Complete("batch", r))
                \/ Checkpoint("batch") \/ Stop("batch")
             \/ \/ Look("poll") /\ Goes("poll", "buy")
                \/ (\E r \in Baseline : Complete("poll", r)) \/ Stop("poll")
             \/ PollActs
  <2>1. Look("poll") => \/ Goes("poll", "buy")
                        \/ Reusable(arms["poll"].at) /\ Judges("poll", Len(checkpoints))
    BY DEF Look
  <2> QED
    BY <1>1, <1>2, <2>1 DEF PollActs
<1>3. ASSUME NEW r \in Lens, NEW i \in DOMAIN checkpoints, Follow(r, i)
      PROVE  Leaves("poll") \/ followed' # {}
  BY <1>3 DEF Follow
<1>4. CASE \/ BeginBatch \/ Look("batch") \/ (\E r \in Baseline : Complete("batch", r))
           \/ Checkpoint("batch") \/ Stop("batch") \/ BatchAttempt \/ Tick \/ UNCHANGED vars
  BY <1>4, BatchMoves
<1>5. CASE \/ Look("poll") /\ Goes("poll", "buy")
           \/ \E r \in Baseline : Complete("poll", r)
           \/ Stop("poll") \/ FailAttempt
           \/ (\E r \in Lens, i \in DOMAIN checkpoints : Follow(r, i) /\ Leaves("poll"))
           \/ \E record \in control, l \in followed : Shadow(record, l)
  BY <1>5, PollMoves
<1>6. CASE PollActs
  BY <1>6
<1>7. \/ \/ BeginBatch \/ Look("batch") \/ (\E r \in Baseline : Complete("batch", r))
         \/ Checkpoint("batch") \/ Stop("batch") \/ BatchAttempt \/ Tick \/ UNCHANGED vars
      \/ \/ Look("poll") /\ Goes("poll", "buy")
         \/ \E r \in Baseline : Complete("poll", r)
         \/ Stop("poll") \/ FailAttempt
         \/ (\E r \in Lens, i \in DOMAIN checkpoints : Follow(r, i) /\ Leaves("poll"))
         \/ \E record \in control, l \in followed : Shadow(record, l)
      \/ PollActs
  <2>1. CASE BeginPoll \/ \E poor \in BOOLEAN : PollAttempt(poor)
    BY <2>1 DEF PollActs
  <2>2. CASE \E r \in Lens, i \in DOMAIN checkpoints : Follow(r, i)
    BY <1>3, <2>2 DEF PollActs
  <2> QED
    BY <1>2, <2>1, <2>2, Zenon DEF Next
<1> QED
  BY <1>4, <1>5, <1>6, <1>7

LEMMA PollBegins ==
  ASSUME Typed, BeginPoll
  PROVE  /\ arms'["poll"].step = "look" /\ arms'["poll"].at = opened'
         /\ arms["poll"].step = "idle" /\ opened <= opened' /\ opened' \in Nat
         /\ UNCHANGED <<checkpoints, control, followed>>
<1>1. PICK at : at \in {opened, now} /\ (at = opened => opened # NoDate)
                  /\ opened' = at /\ Begin("poll", at)
  <2> DEFINE at == IF opened # NoDate /\ now - opened <= Reuse THEN opened ELSE now
  <2>1. at \in {opened, now} /\ (at = opened => opened # NoDate)
    BY DEF Typed, NoDate
  <2> HIDE DEF at
  <2> QED
    BY <2>1 DEF BeginPoll, at
<1>2. at \in Nat /\ opened <= at
  BY <1>1 DEF Typed, NoDate
<1>3. "poll" \in Processes
  BY DEF Processes
<1>4. arms["poll"].step = "idle" /\ arms'["poll"].step = "look" /\ arms'["poll"].at = at
  BY <1>1, <1>2, <1>3, Beginning
<1>5. UNCHANGED <<checkpoints, control, followed>>
  BY <1>1 DEF Begin, poll
<1> QED
  BY <1>1, <1>2, <1>4, <1>5

LEMMA PollLooks ==
  ASSUME Typed, Look("poll"), Reusable(arms["poll"].at), Judges("poll", Len(checkpoints))
  PROVE  /\ arms["poll"].step = "look" /\ arms'["poll"].step = "judge"
         /\ arms'["poll"].at = arms["poll"].at
         /\ IsLatest(arms'["poll"].research, arms["poll"].at)
         /\ UNCHANGED <<opened, checkpoints, control, followed>>
<1>1. "poll" \in Processes /\ arms["poll"] \in States /\ Len(checkpoints) \in Nat
  BY DEF Processes, Typed
<1>2. arms'["poll"] = [arms["poll"] EXCEPT !.step = "judge", !.bought = {},
                                           !.research = Len(checkpoints)]
  BY <1>1, Judging
<1>3. /\ arms'["poll"].step = "judge" /\ arms'["poll"].at = arms["poll"].at
      /\ arms'["poll"].research = Len(checkpoints)
  BY <1>1, <1>2 DEF States
<1>4. IsLatest(Len(checkpoints), arms["poll"].at)
  <2>1. checkpoints # <<>> /\ DOMAIN checkpoints = 1 .. Len(checkpoints)
    BY DEF Typed, Reusable
  <2>2. Len(checkpoints) \in DOMAIN checkpoints
    BY <2>1, <1>1 DEF Typed
  <2>3. Last \in Events
    BY <2>2 DEF Typed, Last
  <2>4. Last.at \in Nat /\ arms["poll"].at \in Nat /\ Reuse \in Nat
    BY <1>1, <2>3, EvidenceInputs DEF Events, States
  <2>5. Last.at <= arms["poll"].at
    BY <2>4 DEF Reusable
  <2> QED
    BY <1>1, <2>1, <2>2, <2>5 DEF Last, IsLatest
<1> QED
  BY <1>3, <1>4 DEF Look, journal, poll

LEMMA PollCheckpoints ==
  ASSUME Typed, Checkpoint("poll")
  PROVE  /\ arms["poll"].step = "buy" /\ arms'["poll"].step = "judge"
         /\ arms'["poll"].at = arms["poll"].at
         /\ arms'["poll"].research = Len(checkpoints) + 1
         /\ UNCHANGED <<opened, control, followed>>
<1>1. "poll" \in Processes /\ arms["poll"] \in States /\ Len(checkpoints) + 1 \in Nat
  BY DEF Processes, Typed
<1>2. arms'["poll"] = [arms["poll"] EXCEPT !.step = "judge", !.bought = {},
                                           !.research = Len(checkpoints) + 1]
  BY <1>1, Judging DEF Checkpoint
<1>3. /\ arms'["poll"].step = "judge" /\ arms'["poll"].at = arms["poll"].at
      /\ arms'["poll"].research = Len(checkpoints) + 1
  BY <1>1, <1>2 DEF States
<1> QED
  BY <1>3 DEF Checkpoint, poll

\* The record is of what was usable of the checkpoint.
LEMMA PollAttempts ==
  ASSUME Typed, NEW poor \in BOOLEAN, PollAttempt(poor)
  PROVE  /\ arms["poll"].step = "judge" /\ arms'["poll"].step = "follow"
         /\ arms'["poll"].at = arms["poll"].at /\ arms'["poll"].window = arms["poll"].window
         /\ UNCHANGED <<ledger, opened, checkpoints, followed>>
         /\ \/ UNCHANGED control
            \/ \E record :
                 /\ control' = {record}
                 /\ record.at = arms["poll"].at /\ record.window = arms["poll"].window
                 /\ record.research = arms["poll"].research
                 /\ record.packet =
                      UsablePacket(Packet(checkpoints[record.research].runs),
                                   record.at, record.window)
<1>1. arms["poll"] \in States
  BY DEF Processes, Typed
<1>2. arms'["poll"] = [arms["poll"] EXCEPT !.step = "follow", !.bought = {}, !.research = 0]
  BY Ending DEF PollAttempt
<1>3. /\ arms'["poll"].step = "follow" /\ arms'["poll"].at = arms["poll"].at
      /\ arms'["poll"].window = arms["poll"].window
  BY <1>1, <1>2 DEF States
<1> DEFINE packet == UsablePacket(Researched("poll"), arms["poll"].at, arms["poll"].window)
           record == [packet |-> packet, at |-> arms["poll"].at, window |-> arms["poll"].window,
                      by |-> "poll", research |-> arms["poll"].research]
<1>4. UNCHANGED control \/ control' = {record}
  BY DEF PollAttempt, Record, Refuse
<1>5. /\ record.at = arms["poll"].at /\ record.window = arms["poll"].window
      /\ record.research = arms["poll"].research /\ record.packet = packet
  OBVIOUS
<1> HIDE DEF record
<1> QED
  BY <1>3, <1>4, <1>5 DEF PollAttempt, Researched, journal

LEMMA PollFollows ==
  ASSUME Typed, NEW r \in Lens, NEW i \in DOMAIN checkpoints, Follow(r, i), followed' # {}
  PROVE  /\ arms["poll"].step = "follow" /\ arms'["poll"].step = "shadow"
         /\ arms'["poll"].at = arms["poll"].at /\ arms'["poll"].window = arms["poll"].window
         /\ UNCHANGED <<opened, checkpoints, control>>
         /\ i \in Bought(arms["poll"].at) /\ \A j \in Bought(arms["poll"].at) : j <= i
         /\ \E l : /\ followed' = {l}
                   /\ l.run = r /\ l.base = checkpoints[i].runs /\ l.follows = i
                   /\ l.at = arms["poll"].at
<1>1. "poll" \in Processes /\ arms["poll"] \in States /\ "shadow" \in Steps
  BY DEF Processes, Steps, Typed
<1> DEFINE l == [run |-> r, base |-> checkpoints[i].runs, follows |-> i, at |-> arms["poll"].at]
<1>2. followed' = {l} /\ Goes("poll", "shadow") /\ UNCHANGED control
  BY DEF Follow, Leaves
<1>3. l.run = r /\ l.base = checkpoints[i].runs /\ l.follows = i /\ l.at = arms["poll"].at
  OBVIOUS
<1> HIDE DEF l
<1>4. arms'["poll"] = [arms["poll"] EXCEPT !.step = "shadow"]
  BY <1>1, <1>2, Going
<1>5. /\ arms'["poll"].step = "shadow" /\ arms'["poll"].at = arms["poll"].at
      /\ arms'["poll"].window = arms["poll"].window
  BY <1>1, <1>4 DEF States
<1> QED
  BY <1>2, <1>3, <1>5 DEF Follow

\* What a checkpoint is of does not change, nor what was checkpointed after it,
\* but for a batch's.
LEMMA LatestStays ==
  ASSUME Typed, NEW i, NEW at, IsLatest(i, at), UNCHANGED checkpoints \/ Checkpoint("batch")
  PROVE  IsLatest(i, at)' /\ checkpoints'[i] = checkpoints[i]
<1>1. CASE UNCHANGED checkpoints
  BY <1>1 DEF IsLatest
<1>2. CASE Checkpoint("batch")
  <2>1. PICK n : n = Len(checkpoints) + 1
    OBVIOUS
  <2>2. "batch" \in Processes
    BY DEF Processes
  <2> QED
    BY <1>2, <2>1, <2>2, Appended DEF IsLatest
<1> QED
  BY <1>1, <1>2

LEMMA NextResearching ==
  ASSUME Typed, Researching, [Next]_vars
  PROVE  Researching'
<1>1. /\ \A i \in DOMAIN checkpoints : checkpoints[i] \in Events /\ checkpoints[i].at \in Nat
      /\ arms["poll"].at \in Nat /\ opened \in Int /\ opened' \in Int
  <2>1. Typed'
    BY NextTyped
  <2>2. arms["poll"] \in States /\ \A i \in DOMAIN checkpoints : checkpoints[i] \in Events
    BY DEF Typed, Processes
  <2>3. \A i \in DOMAIN checkpoints : checkpoints[i].at \in Nat
    BY <2>2 DEF Events
  <2>4. arms["poll"].at \in Nat
    BY <2>2 DEF States
  <2>5. opened \in Int /\ opened' \in Int
    BY <2>1 DEF Typed, NoDate
  <2> QED
    BY <2>2, <2>3, <2>4, <2>5
<1>2. ASSUME arms'["poll"] = arms["poll"], UNCHANGED opened,
             UNCHANGED checkpoints \/ Checkpoint("batch")
      PROVE  Researching'
  <2>1. PollsWindow'
    BY <1>2 DEF Researching, PollsWindow
  <2>2. JudgesTheLatest'
    <3>1. PICK i, at : i = arms["poll"].research /\ at = arms["poll"].at
      OBVIOUS
    <3>2. IsLatest(i, at) => IsLatest(i, at)'
      BY <1>2, LatestStays
    <3> QED
      BY <1>2, <3>1, <3>2 DEF Researching, JudgesTheLatest
  <2>3. WindowsInOrder'
    <3>1. CASE UNCHANGED checkpoints
      BY <1>2, <3>1 DEF Researching, WindowsInOrder
    <3>2. CASE Checkpoint("batch")
      <4>1. PICK n : n = Len(checkpoints) + 1
        OBVIOUS
      <4>2. "batch" \in Processes
        BY DEF Processes
      <4>3. /\ \A i \in DOMAIN checkpoints' : i \in DOMAIN checkpoints \/ i = n
            /\ \A i \in DOMAIN checkpoints : checkpoints'[i] = checkpoints[i]
            /\ checkpoints'[n].by = "batch"
        BY <3>2, <4>1, <4>2, Appended
      <4> QED
        BY <1>2, <4>3 DEF Researching, WindowsInOrder
    <3> QED
      BY <1>2, <3>1, <3>2
  <2> QED
    BY <2>1, <2>2, <2>3 DEF Researching
<1>3. ASSUME UNCHANGED checkpoints, opened <= opened',
             arms'["poll"].step # "idle" => arms'["poll"].at = opened',
             arms'["poll"].step # "judge"
      PROVE  Researching'
  <2>1. WindowsInOrder'
    BY <1>1, <1>3 DEF Researching, WindowsInOrder
  <2> QED
    BY <1>3, <2>1 DEF Researching, PollsWindow, JudgesTheLatest
<1>4. ASSUME arms["poll"].step # "idle", UNCHANGED <<opened, checkpoints>>,
             \/ arms'["poll"].step = "idle"
             \/ /\ arms'["poll"].step \in {"buy", "follow", "shadow"}
                /\ arms'["poll"].at = arms["poll"].at
      PROVE  Researching'
  BY <1>1, <1>3, <1>4 DEF Researching, PollsWindow
<1>5. CASE BeginPoll
  BY <1>3, <1>5, PollBegins
<1>6. CASE Look("poll") /\ Reusable(arms["poll"].at) /\ Judges("poll", Len(checkpoints))
  <2>1. /\ arms["poll"].step = "look" /\ arms'["poll"].step = "judge"
        /\ arms'["poll"].at = arms["poll"].at /\ UNCHANGED <<opened, checkpoints>>
        /\ IsLatest(arms'["poll"].research, arms["poll"].at)
    BY <1>6, PollLooks
  <2>2. JudgesTheLatest'
    BY <2>1 DEF JudgesTheLatest, IsLatest
  <2> QED
    BY <2>1, <2>2 DEF Researching, PollsWindow, WindowsInOrder
<1>7. CASE Checkpoint("poll")
  <2>1. PICK n : n = Len(checkpoints) + 1
    OBVIOUS
  <2>2. "poll" \in Processes
    BY DEF Processes
  <2>3. /\ arms["poll"].step = "buy" /\ arms'["poll"].step = "judge"
        /\ arms'["poll"].at = arms["poll"].at /\ arms'["poll"].research = n
        /\ opened' = opened
    BY <1>7, <2>1, PollCheckpoints
  <2>4. /\ n \in Nat /\ n \in DOMAIN checkpoints'
        /\ \A i \in DOMAIN checkpoints' : i \in DOMAIN checkpoints \/ i = n
        /\ \A i \in DOMAIN checkpoints : i < n /\ checkpoints'[i] = checkpoints[i]
        /\ checkpoints'[n].at = arms["poll"].at
    BY <1>7, <2>1, <2>2, Appended
  <2>5. arms["poll"].at = opened
    BY <2>3 DEF Researching, PollsWindow
  <2>6. DOMAIN checkpoints \subseteq Nat
    BY DEF Typed
  <2>7. JudgesTheLatest'
    BY <1>1, <2>3, <2>4, <2>6 DEF JudgesTheLatest, IsLatest
  <2>8. WindowsInOrder'
    BY <1>1, <2>3, <2>4, <2>5, <2>6 DEF Researching, WindowsInOrder
  <2> QED
    BY <2>3, <2>5, <2>7, <2>8 DEF Researching, PollsWindow
<1>8. CASE \E poor \in BOOLEAN : PollAttempt(poor)
  BY <1>4, <1>8, PollAttempts
<1>9. CASE \E r \in Lens, i \in DOMAIN checkpoints : Follow(r, i) /\ followed' # {}
  BY <1>4, <1>9, PollFollows
<1> QED
  BY <1>2, <1>4, <1>5, <1>6, <1>7, <1>8, <1>9, StepsSplit DEF PollActs

LEMMA ControlStays ==
  ASSUME Inductive, ControlIsUsable, [Next]_vars, NEW record \in control,
         UNCHANGED checkpoints \/ Checkpoint("batch")
  PROVE  /\ IsLatest(record.research, record.at)'
         /\ record.packet =
              UsablePacket(Packet(checkpoints[record.research].runs), record.at, record.window)'
<1>1. PICK i : i = record.research /\ i \in DOMAIN checkpoints
  BY DEF ControlIsUsable, IsLatest
<1>2. IsLatest(i, record.at)' /\ checkpoints'[i] = checkpoints[i]
  BY <1>1, LatestStays DEF Inductive, ControlIsUsable
<1>3. PICK runs : runs = checkpoints[i].runs
  OBVIOUS
<1>4. Packet(runs)' = Packet(runs)
  BY <1>1, <1>3, CompletedRowsStand, PacketIsKept DEF Inductive, CheckpointsAreComplete
<1>5. UsablePacket(Packet(runs), record.at, record.window)'
        = UsablePacket(Packet(runs), record.at, record.window)
  BY <1>4 DEF UsablePacket, Keep
<1> QED
  BY <1>1, <1>2, <1>3, <1>5 DEF ControlIsUsable

LEMMA NextControl ==
  ASSUME Inductive, Researching, ControlIsUsable, [Next]_vars
  PROVE  ControlIsUsable'
<1> USE DEF Inductive
<1>1. ASSUME arms'["poll"] = arms["poll"], UNCHANGED control,
             UNCHANGED checkpoints \/ Checkpoint("batch")
      PROVE  ControlIsUsable'
  BY <1>1, ControlStays DEF ControlIsUsable
<1>2. ASSUME arms["poll"].step \notin {"follow", "shadow"}, UNCHANGED control
      PROVE  ControlIsUsable'
  BY <1>2 DEF ControlIsUsable
<1>3. ASSUME control' = {} PROVE ControlIsUsable'
  BY <1>3 DEF ControlIsUsable
<1>4. CASE BeginPoll
  BY <1>2, <1>4, PollBegins
<1>5. CASE Look("poll") /\ Reusable(arms["poll"].at) /\ Judges("poll", Len(checkpoints))
  BY <1>2, <1>5, PollLooks
<1>6. CASE Checkpoint("poll")
  BY <1>2, <1>6, PollCheckpoints
<1>7. ASSUME NEW poor \in BOOLEAN, PollAttempt(poor) PROVE ControlIsUsable'
  <2>1. /\ arms["poll"].step = "judge" /\ arms'["poll"].step = "follow"
        /\ arms'["poll"].at = arms["poll"].at /\ arms'["poll"].window = arms["poll"].window
        /\ UNCHANGED <<ledger, opened, checkpoints, followed>>
    BY <1>7, PollAttempts
  <2>2. CASE UNCHANGED control
    BY <1>2, <2>1, <2>2
  <2>3. ASSUME NEW record, control' = {record},
               record.at = arms["poll"].at, record.window = arms["poll"].window,
               record.research = arms["poll"].research,
               record.packet =
                 UsablePacket(Packet(checkpoints[record.research].runs),
                              record.at, record.window)
        PROVE  ControlIsUsable'
    <3>1. IsLatest(record.research, record.at)'
      BY <2>1, <2>3 DEF Researching, JudgesTheLatest, IsLatest
    <3>2. PICK runs : runs = checkpoints[record.research].runs
      OBVIOUS
    <3>3. Packet(runs)' = Packet(runs)
      BY <2>1, PacketIsKept DEF ledger
    <3>4. UsablePacket(Packet(runs), record.at, record.window)'
            = UsablePacket(Packet(runs), record.at, record.window)
      BY <3>3 DEF UsablePacket, Keep
    <3> QED
      BY <2>1, <2>3, <3>1, <3>2, <3>4 DEF ControlIsUsable
  <2> QED
    BY <1>7, <2>2, <2>3, PollAttempts
<1>8. CASE \E r \in Lens, i \in DOMAIN checkpoints : Follow(r, i) /\ followed' # {}
  <2>1. /\ arms["poll"].step = "follow" /\ arms'["poll"].step = "shadow"
        /\ arms'["poll"].at = arms["poll"].at /\ arms'["poll"].window = arms["poll"].window
        /\ UNCHANGED <<checkpoints, control>>
    BY <1>8, PollFollows
  <2> QED
    BY <2>1, ControlStays DEF ControlIsUsable
<1> QED
  BY <1>1, <1>2, <1>3, <1>4, <1>5, <1>6, <1>7, <1>8, StepsSplit DEF PollActs

LEMMA NextLens ==
  ASSUME Typed, ControlIsUsable, LensFollows, [Next]_vars
  PROVE  LensFollows'
<1>1. ASSUME arms'["poll"] = arms["poll"], UNCHANGED <<control, followed>> PROVE LensFollows'
  <2>1. \A record \in control : record.research \in DOMAIN checkpoints
    BY DEF ControlIsUsable, IsLatest
  <2> QED
    BY <1>1, <2>1, CheckpointsStand DEF LensFollows
<1>2. ASSUME arms["poll"].step # "shadow", UNCHANGED followed PROVE LensFollows'
  BY <1>2 DEF LensFollows
<1>3. ASSUME followed' = {} PROVE LensFollows'
  BY <1>3 DEF LensFollows
<1>4. CASE BeginPoll
  BY <1>2, <1>4, PollBegins
<1>5. CASE Look("poll") /\ Reusable(arms["poll"].at) /\ Judges("poll", Len(checkpoints))
  BY <1>2, <1>5, PollLooks
<1>6. CASE Checkpoint("poll")
  BY <1>2, <1>6, PollCheckpoints
<1>7. CASE \E poor \in BOOLEAN : PollAttempt(poor)
  BY <1>2, <1>7, PollAttempts
<1>8. ASSUME NEW r \in Lens, NEW i \in DOMAIN checkpoints, Follow(r, i), followed' # {}
      PROVE  LensFollows'
  <2>1. /\ arms'["poll"].step = "shadow" /\ arms'["poll"].at = arms["poll"].at
        /\ UNCHANGED <<checkpoints, control>>
        /\ i \in Bought(arms["poll"].at) /\ \A j \in Bought(arms["poll"].at) : j <= i
    BY <1>8, PollFollows
  <2>2. PICK l : /\ followed' = {l}
                 /\ l.run = r /\ l.base = checkpoints[i].runs /\ l.follows = i
                 /\ l.at = arms["poll"].at
    BY <1>8, PollFollows
  <2>3. ASSUME NEW record \in control, i < record.research,
               checkpoints[record.research].at = l.at
        PROVE  FALSE
    <3>1. record.research \in DOMAIN checkpoints
      BY DEF ControlIsUsable, IsLatest
    <3>2. record.research <= i /\ record.research \in Nat /\ i \in Nat
      BY <2>1, <2>2, <2>3, <3>1 DEF Bought, Typed
    <3> QED
      BY <2>3, <3>2
  <2> QED
    BY <2>1, <2>2, <2>3 DEF LensFollows, Bought
<1> QED
  BY <1>1, <1>2, <1>3, <1>4, <1>5, <1>6, <1>7, <1>8, StepsSplit DEF PollActs

LEMMA UsableOf ==
  ASSUME NEW runs, NEW at, NEW window
  PROVE  /\ UsablePacket(Packet(runs), at, window).runs = runs
         /\ \A doc : doc \in UsablePacket(Packet(runs), at, window).documents
               <=> /\ \E r \in runs : doc \in Members(stored[r])
                   /\ Usable(doc, at, window)
BY DEF UsablePacket, Packet, Keep

\* Where the control was not made from the research the lens followed, a batch
\* has come between.
LEMMA ComesBetween ==
  ASSUME Typed, Researching, ControlIsUsable, LensFollows,
         NEW record \in control, NEW l \in followed
  PROVE  \/ l.follows = record.research
         \/ \E i \in DOMAIN checkpoints :
               /\ l.follows <= i
               /\ checkpoints[i].by = "batch" /\ checkpoints[i].at <= record.at
<1>1. PICK j, k : j = l.follows /\ k = record.research
  OBVIOUS
<1>2. /\ j \in DOMAIN checkpoints /\ k \in DOMAIN checkpoints
      /\ DOMAIN checkpoints \subseteq Nat
      /\ checkpoints[j].at = record.at /\ checkpoints[k].at <= record.at
      /\ j < k => checkpoints[k].at # record.at
      /\ k < j => checkpoints[j].by = "batch"
  BY <1>1 DEF ControlIsUsable, LensFollows, IsLatest, Typed
<1>3. /\ checkpoints[j].at \in Nat /\ checkpoints[k].at \in Nat
      /\ checkpoints[j].by \in Processes /\ checkpoints[k].by \in Processes
  <2>1. checkpoints[j] \in Events /\ checkpoints[k] \in Events
    BY <1>2 DEF Typed
  <2> QED
    BY <2>1 DEF Events
<1>4. j \in Nat /\ k \in Nat /\ record.at \in Nat
  BY <1>2, <1>3
<1>5. CASE k < j
  BY <1>1, <1>2, <1>3, <1>4, <1>5
<1>6. CASE j < k
  <2>1. checkpoints[k].at < record.at
    BY <1>2, <1>3, <1>4, <1>6
  <2>2. checkpoints[j].by = "poll" => checkpoints[k].by # "poll"
    BY <1>2, <1>3, <1>4, <1>6, <2>1 DEF Researching, WindowsInOrder
  <2>3. checkpoints[j].by = "batch" \/ checkpoints[k].by = "batch"
    BY <1>3, <2>2 DEF Processes
  <2> QED
    BY <1>1, <1>2, <1>3, <1>4, <1>6, <2>3
<1> QED
  BY <1>1, <1>4, <1>5, <1>6

\* A shadow's packet is its control's, and rows of the lens.
LEMMA ShadowStep ==
  ASSUME Inductive, Rows, Researching, ControlIsUsable, LensFollows,
         NEW record \in control, NEW l \in followed, Shadow(record, l),
         NEW s, s = [control |-> record, lens |-> l, packet |-> Together(l)]
  PROVE  /\ SharesItsControl(s) \/ Overtaken(s)
         /\ \E doc \in s.packet.documents : doc.run \in Lens
<1>1. /\ s.control = record /\ s.lens = l /\ s.packet = Together(l)
      /\ l.run \in Lens
  BY DEF LensFollows
<1>2. \E doc \in s.packet.documents : doc.run \in Lens
  BY <1>1 DEF Shadow, NewShadow
<1>3. CASE l.follows # record.research
  <2>1. Overtaken(s)
    BY <1>1, <1>3, ComesBetween DEF Inductive, Overtaken
  <2> QED
    BY <1>2, <2>1
<1>4. CASE l.follows = record.research
  <2>1. /\ l.base = checkpoints[l.follows].runs /\ l.follows \in DOMAIN checkpoints
        /\ record.at = arms["poll"].at /\ record.window = arms["poll"].window
        /\ record.packet = UsablePacket(Packet(l.base), record.at, record.window)
    BY <1>4 DEF ControlIsUsable, LensFollows
  <2>2. l.base \subseteq Baseline
    <3>1. checkpoints[l.follows] \in Events
      BY <2>1 DEF Inductive, Typed
    <3> QED
      BY <2>1, <3>1, EvidenceInputs DEF Events
  <2>3. \A doc : doc \in s.packet.documents
           <=> /\ \E r \in l.base \cup {l.run} : doc \in Members(stored[r])
               /\ Usable(doc, record.at, record.window)
    BY <1>1, <2>1, UsableOf DEF Together
  <2>4. \A doc : doc \in record.packet.documents
           <=> /\ \E r \in l.base : doc \in Members(stored[r])
               /\ Usable(doc, record.at, record.window)
    BY <2>1, UsableOf
  <2>5. \A r \in Runs : \A doc \in Members(stored[r]) : doc.run = r
    BY DEF Rows, RowsAreStrongest
  <2>6. l.base \cup {l.run} \subseteq Runs /\ l.run \notin Baseline
    BY <1>1, <2>2, EvidenceInputs DEF Runs
  <2>7. SharesItsControl(s)
    BY <1>1, <2>2, <2>3, <2>4, <2>5, <2>6 DEF SharesItsControl
  <2> QED
    BY <1>2, <2>7
<1> QED
  BY <1>3, <1>4

LEMMA NextShadows ==
  ASSUME Inductive, Rows, Researching, ControlIsUsable, LensFollows, ShadowsAddTheLens,
         [Next]_vars
  PROVE  ShadowsAddTheLens'
<1>1. ASSUME NEW s, SharesItsControl(s) \/ Overtaken(s)
      PROVE  SharesItsControl(s)' \/ Overtaken(s)'
  BY <1>1, CheckpointsStand DEF Inductive, SharesItsControl, Overtaken
<1>2. CASE shadows' = shadows
  BY <1>1, <1>2 DEF ShadowsAddTheLens
<1>3. ASSUME NEW record \in control, NEW l \in followed, Shadow(record, l)
      PROVE  ShadowsAddTheLens'
  <2>1. PICK s : /\ s = [control |-> record, lens |-> l, packet |-> Together(l)]
                 /\ shadows' = shadows \cup {s}
    BY <1>3 DEF Shadow, NewShadow
  <2>2. /\ SharesItsControl(s)' \/ Overtaken(s)'
        /\ \E doc \in s.packet.documents : doc.run \in Lens
    BY <1>1, <1>3, <2>1, ShadowStep
  <2> QED
    BY <1>1, <2>1, <2>2 DEF ShadowsAddTheLens
<1> QED
  BY <1>2, <1>3
  DEF Next, vars, forecasts, BeginBatch, BeginPoll, Begin, Look, Complete, Checkpoint, Stop,
      BatchAttempt, PollAttempt, FailAttempt, Follow, Tick

\* A shadow forecast rests on something of the lens and else on what its control
\* rests on, unless a batch under an older instant came between them: whatever
\* was returned or usable, wherever a poll died, and whichever windows were gone
\* on with (tournament._collect_local_lens, shadow.run_shadow_forecast).
THEOREM ShadowsAddTheLensHolds == Spec => []ShadowsAddTheLens
<1> DEFINE Shadowed == Researching /\ ControlIsUsable /\ LensFollows /\ ShadowsAddTheLens
<1>1. Init => Shadowed
  <2> SUFFICES ASSUME Init PROVE Shadowed
    OBVIOUS
  <2>1. arms["poll"].step = "idle" /\ DOMAIN checkpoints = {}
    BY DEF Init, Idle, Processes
  <2> QED
    BY <2>1
    DEF Init, Researching, PollsWindow, WindowsInOrder, JudgesTheLatest, ControlIsUsable,
        LensFollows, ShadowsAddTheLens
<1>2. Inductive /\ Rows /\ Shadowed /\ [Next]_vars => Shadowed'
  BY NextResearching, NextControl, NextLens, NextShadows DEF Inductive
<1>3. Inductive /\ Rows /\ [Next]_vars => Rows'
  BY NextRows
<1>4. Shadowed => ShadowsAddTheLens
  OBVIOUS
<1> HIDE DEF Shadowed
<1> QED
  BY <1>1, <1>2, <1>3, <1>4, InitRows, InductiveHolds, PTL DEF Spec

-----------------------------------------------------------------------------
(* Union and find.                                                         *)

\* A parent is never greater than its child.
IsForest(p, n) == p \in [1 .. n -> 1 .. n] /\ \A i \in 1 .. n : p[i] <= i

Roots(p, m, f) == f = [i \in 1 .. m |-> IF p[i] = i THEN i ELSE f[p[i]]]

LEMMA RootsToAll ==
  ASSUME NEW n \in Nat, NEW p, IsForest(p, n), NEW m \in 0 .. n
  PROVE  \E f : Roots(p, m, f)
<1> DEFINE T == {k \in 0 .. n : ~\E f : Roots(p, k, f)}
<1> SUFFICES ASSUME T # {} PROVE FALSE
  OBVIOUS
<1>1. T \in SUBSET Nat
  OBVIOUS
<1> HIDE DEF T
<1>2. PICK k \in T : \A q \in T : k <= q
  BY <1>1, LeastOf
<1> USE DEF T
<1>3. k # 0
  <2> DEFINE f == [i \in {} |-> 0]
  <2>1. 1 .. 0 = {}
    OBVIOUS
  <2>2. Roots(p, 0, f)
    BY <2>1 DEF Roots
  <2> QED
    BY <2>2
<1>4. k \in 1 .. n /\ k - 1 \in 0 .. n
  BY <1>3
<1>5. PICK f : Roots(p, k - 1, f)
  BY <1>2, <1>4
<1> DEFINE g == [i \in 1 .. k |-> IF i = k THEN (IF p[k] = k THEN k ELSE f[p[k]]) ELSE f[i]]
<1>6. \A i \in 1 .. k : p[i] \in 1 .. k /\ p[i] <= i /\ p[i] \in Nat
  BY <1>4 DEF IsForest
<1>7. Roots(p, k, g)
  <2>1. f = [i \in 1 .. (k - 1) |-> IF p[i] = i THEN i ELSE f[p[i]]]
    BY <1>5 DEF Roots
  <2>2. ASSUME NEW i \in 1 .. k
        PROVE  g[i] = IF p[i] = i THEN i ELSE g[p[i]]
    <3>1. CASE i = k
      <4>1. p[k] # k => p[k] # k /\ p[k] \in 1 .. k
        BY <1>4, <1>6
      <4> QED
        BY <3>1, <4>1
    <3>2. CASE i # k
      <4>1. i \in 1 .. (k - 1) /\ p[i] # k /\ p[i] \in 1 .. k
        BY <1>4, <1>6, <3>2
      <4>2. f[i] = IF p[i] = i THEN i ELSE f[p[i]]
        BY <2>1, <4>1
      <4> QED
        BY <3>2, <4>1, <4>2
    <3> QED
      BY <3>1, <3>2
  <2> DEFINE h == [i \in 1 .. k |-> IF p[i] = i THEN i ELSE g[p[i]]]
  <2>3. g = h
    BY <2>2
  <2> HIDE DEF g
  <2> QED
    BY <2>3 DEF Roots
<1> QED
  BY <1>2, <1>7

LEMMA FindStep ==
  ASSUME NEW n \in Nat, NEW p, IsForest(p, n), NEW i \in 1 .. n
  PROVE  Find(p, i) = IF p[i] = i THEN i ELSE Find(p, p[i])
<1>1. DOMAIN p = 1 .. n /\ p[i] \in 1 .. n
  BY DEF IsForest
<1> DEFINE f == CHOOSE f : Roots(p, n, f)
<1>2. \A k : Find(p, k) = f[k]
  BY <1>1, Zenon DEF Find, Roots
<1>3. Roots(p, n, f)
  BY RootsToAll
<1> HIDE DEF f
<1> QED
  BY <1>1, <1>2, <1>3 DEF Roots

LEMMA FindFinds ==
  ASSUME NEW n \in Nat, NEW p, IsForest(p, n), NEW i \in 1 .. n
  PROVE  /\ Find(p, i) \in 1 .. n
         /\ p[Find(p, i)] = Find(p, i)
         /\ Find(p, i) <= i
<1> DEFINE Good(k) == /\ Find(p, k) \in 1 .. n
                      /\ p[Find(p, k)] = Find(p, k)
                      /\ Find(p, k) <= k
           T == {k \in 1 .. n : ~Good(k)}
<1>1. T = {}
  <2> SUFFICES ASSUME T # {} PROVE FALSE
    OBVIOUS
  <2>1. T \in SUBSET Nat
    OBVIOUS
  <2> HIDE DEF T
  <2>2. PICK k \in T : \A q \in T : k <= q
    BY <2>1, LeastOf
  <2> USE DEF T
  <2>3. k \in 1 .. n /\ p[k] \in 1 .. n /\ p[k] <= k
    BY DEF IsForest
  <2>4. Find(p, k) = IF p[k] = k THEN k ELSE Find(p, p[k])
    BY <2>3, FindStep
  <2>5. CASE p[k] = k
    BY <2>3, <2>4, <2>5
  <2>6. CASE p[k] # k
    <3>1. p[k] \notin T
      BY <2>2, <2>3, <2>6
    <3>2. Good(p[k])
      BY <2>3, <3>1
    <3> QED
      BY <2>3, <2>4, <2>6, <3>2
  <2> QED
    BY <2>5, <2>6
<1> QED
  BY <1>1

\* A root becomes the child of a lesser one.
Links(p, n, a, b, l) ==
    /\ a \in 1 .. n /\ b \in 1 .. n
    /\ p[a] = a /\ p[b] = b /\ a <= b
    /\ l = [p EXCEPT ![b] = a]

\* It takes its tree along.
LEMMA Linked ==
  ASSUME NEW n \in Nat, NEW p, IsForest(p, n), NEW a, NEW b, NEW l, Links(p, n, a, b, l)
  PROVE  /\ IsForest(l, n)
         /\ \A i \in 1 .. n :
               /\ Find(p, i) = b => Find(l, i) = a
               /\ Find(p, i) # b => Find(l, i) = Find(p, i)
<1> DEFINE T == {k \in 1 .. n : Find(l, k) # IF Find(p, k) = b THEN a ELSE Find(p, k)}
<1> USE DEF Links
<1>1. IsForest(l, n)
  BY DEF IsForest
<1>2. T = {}
  <2> SUFFICES ASSUME T # {} PROVE FALSE
    OBVIOUS
  <2>1. T \in SUBSET Nat
    OBVIOUS
  <2> HIDE DEF T
  <2>2. PICK k \in T : \A q \in T : k <= q
    BY <2>1, LeastOf
  <2>11. \A q \in 1 .. n : q < k => q \notin T
    BY <2>1, <2>2
  <2> USE DEF T
  <2>3. k \in 1 .. n /\ p[k] \in 1 .. n /\ p[k] <= k
    BY DEF IsForest
  <2>4. /\ l[b] = a /\ \A i \in 1 .. n \ {b} : l[i] = p[i]
    BY DEF IsForest
  <2>5. Find(p, k) = IF p[k] = k THEN k ELSE Find(p, p[k])
    BY <2>3, FindStep
  <2>6. Find(l, k) = IF l[k] = k THEN k ELSE Find(l, l[k])
    BY <1>1, <2>3, FindStep
  <2>7. Find(l, a) = a
    <3>1. l[a] = a
      BY <2>4
    <3> QED
      BY <1>1, <3>1, FindStep
  <2>8. CASE k = b
    BY <2>4, <2>5, <2>6, <2>7, <2>8
  <2>9. CASE k # b /\ p[k] = k
    BY <2>3, <2>4, <2>5, <2>6, <2>9
  <2>10. CASE k # b /\ p[k] # k
    <3>3. p[k] < k
      BY <2>3, <2>10
    <3>1. p[k] \notin T
      <4> HIDE DEF T
      <4> QED
        BY <2>3, <2>11, <3>3
    <3>2. Find(l, p[k]) = IF Find(p, p[k]) = b THEN a ELSE Find(p, p[k])
      BY <2>3, <3>1
    <3> QED
      BY <2>3, <2>4, <2>5, <2>6, <2>10, <3>2
  <2> QED
    BY <2>8, <2>9, <2>10
<1> QED
  BY <1>1, <1>2

LEMMA Unions ==
  ASSUME NEW n \in Nat, NEW p, IsForest(p, n), NEW i \in 1 .. n, NEW j \in 1 .. n
  PROVE  /\ IsForest(Union(p, i, j), n)
         /\ \A x, y \in 1 .. n :
               Find(Union(p, i, j), x) = Find(Union(p, i, j), y)
                 <=> \/ Find(p, x) = Find(p, y)
                     \/ {Find(p, x), Find(p, y)} \subseteq {Find(p, i), Find(p, j)}
<1> DEFINE a == Find(p, i)
           b == Find(p, j)
<1>1. a \in 1 .. n /\ b \in 1 .. n /\ p[a] = a /\ p[b] = b
  BY FindFinds
<1>2. \A x \in 1 .. n : Find(p, x) \in 1 .. n
  BY FindFinds
<1> DEFINE l == Union(p, i, j)
<1>3. ASSUME NEW c \in {a, b}, NEW d \in {a, b}, {c, d} = {a, b}, c <= d,
             l = [p EXCEPT ![d] = c]
      PROVE  /\ IsForest(l, n)
             /\ \A x, y \in 1 .. n :
                   Find(l, x) = Find(l, y)
                     <=> Find(p, x) = Find(p, y) \/ {Find(p, x), Find(p, y)} \subseteq {a, b}
  <2>1. c \in 1 .. n /\ d \in 1 .. n /\ p[c] = c /\ p[d] = d
    BY <1>1, <1>3
  <2> HIDE DEF a, b, l
  <2>2. Links(p, n, c, d, l)
    BY <1>3, <2>1 DEF Links
  <2>3. /\ IsForest(l, n)
        /\ \A x \in 1 .. n :
              /\ Find(p, x) = d => Find(l, x) = c
              /\ Find(p, x) # d => Find(l, x) = Find(p, x)
    BY <2>2, Linked
  <2> QED
    BY <1>3, <2>3
<1>4. CASE a < b
  <2>1. l = [p EXCEPT ![b] = a] /\ a <= b
    BY <1>1, <1>4 DEF Union
  <2> HIDE DEF a, b, l
  <2> QED
    BY <1>3, <2>1 DEF a, b, l
<1>5. CASE ~(a < b)
  <2>1. l = [p EXCEPT ![a] = b] /\ b <= a
    BY <1>1, <1>5 DEF Union
  <2> HIDE DEF a, b, l
  <2> QED
    BY <1>3, <2>1 DEF a, b, l
<1> QED
  BY <1>4, <1>5

-----------------------------------------------------------------------------
(* Clusters.                                                               *)

LEMMA NearIsSymmetric ==
  ASSUME NEW a, NEW b
  PROVE  NearDuplicate(a, b) => NearDuplicate(b, a)
<1>1. a.words \cap b.words = b.words \cap a.words /\ a.words \cup b.words = b.words \cup a.words
  OBVIOUS
<1>2. \A tenths : Alike(a, b, tenths) => Alike(b, a, tenths)
  BY <1>1 DEF Alike
<1> QED
  BY <1>2 DEF NearDuplicate

\* No near duplicate leads out of the items at the places of a set.
IsClosed(items, S) ==
    \A i \in S, j \in (1 .. Len(items)) \ S : ~NearDuplicate(items[i], items[j])

\* After the pairs seen so far, near duplicates share their root, and only what
\* near duplicates lead to does.
Groups(items, seen, p) ==
    /\ IsForest(p, Len(items))
    /\ \A i, j \in 1 .. Len(items) :
          i < j /\ <<i, j>> \in seen /\ NearDuplicate(items[i], items[j])
            => Find(p, i) = Find(p, j)
    /\ \A S \in SUBSET (1 .. Len(items)) : IsClosed(items, S) =>
          \A i \in S, j \in 1 .. Len(items) : Find(p, i) = Find(p, j) => j \in S

Seen(n, k) == {ij \in (1 .. n) \X (1 .. n) : (ij[1] - 1) * n + ij[2] <= k}

LEMMA PairAt ==
  ASSUME NEW n \in Nat, NEW k \in 1 .. n * n
  PROVE  /\ ((k - 1) \div n) + 1 \in 1 .. n
         /\ ((k - 1) % n) + 1 \in 1 .. n
         /\ Seen(n, k) = Seen(n, k - 1) \cup {<<((k - 1) \div n) + 1, ((k - 1) % n) + 1>>}
<1>1. n # 0 /\ n * n \in Nat
  BY SMTT(30)
<1> DEFINE i == (k - 1) \div n
           j == (k - 1) % n
<1>2. k - 1 \in 0 .. (n * n - 1)
  BY <1>1
<1>3. i \in 0 .. (n - 1) /\ j \in 0 .. (n - 1) /\ k - 1 = i * n + j
  BY <1>1, <1>2, SMTT(30)
<1>4. ASSUME NEW x \in 1 .. n, NEW y \in 1 .. n
      PROVE  (x - 1) * n + y = k => x = i + 1 /\ y = j + 1
  BY <1>1, <1>2, <1>4, SMTT(30)
<1>5. ASSUME NEW x \in 1 .. n, NEW y \in 1 .. n
      PROVE  (x - 1) * n + y \in Int
  BY SMTT(30)
<1>6. i * n + (j + 1) = k
  BY <1>3, SMTT(30)
<1> HIDE DEF i, j
<1>7. ASSUME NEW x \in 1 .. n, NEW y \in 1 .. n
      PROVE  (x - 1) * n + y <= k <=> (x - 1) * n + y <= k - 1 \/ (x = i + 1 /\ y = j + 1)
  <2> DEFINE v == (x - 1) * n + y
  <2>1. v \in Int /\ (v = k => x = i + 1 /\ y = j + 1)
    BY <1>4, <1>5
  <2>2. x = i + 1 /\ y = j + 1 => v = k
    BY <1>3, <1>6
  <2> HIDE DEF v
  <2>3. v <= k <=> v <= k - 1 \/ (x = i + 1 /\ y = j + 1)
    BY <2>1, <2>2
  <2> QED
    BY <2>3 DEF v
<1>8. Seen(n, k) = Seen(n, k - 1) \cup {<<i + 1, j + 1>>}
  <2>1. i + 1 \in 1 .. n /\ j + 1 \in 1 .. n
    BY <1>3
  <2> QED
    BY <1>7, <2>1 DEF Seen
<1> QED
  BY <1>3, <1>8 DEF i, j

LEMMA JoinedGroups ==
  ASSUME NEW items, Len(items) \in Nat, NEW k \in 1 .. Len(items) * Len(items), NEW p,
         Groups(items, Seen(Len(items), k - 1), p)
  PROVE  Groups(items, Seen(Len(items), k), Joined(items, p, k))
<1> DEFINE n == Len(items)
           i == ((k - 1) \div n) + 1
           j == ((k - 1) % n) + 1
<1>1. i \in 1 .. n /\ j \in 1 .. n /\ Seen(n, k) = Seen(n, k - 1) \cup {<<i, j>>}
  BY PairAt
<1>2. Joined(items, p, k) =
        IF i < j /\ NearDuplicate(items[i], items[j]) THEN Union(p, i, j) ELSE p
  BY DEF Joined
<1> HIDE DEF i, j
<1>3. IsForest(p, n)
  BY DEF Groups
<1>4. CASE ~(i < j /\ NearDuplicate(items[i], items[j]))
  <2>1. \A x, y \in 1 .. n :
           x < y /\ <<x, y>> \in Seen(n, k) /\ NearDuplicate(items[x], items[y])
             => <<x, y>> \in Seen(n, k - 1)
    BY <1>1, <1>4
  <2> QED
    BY <1>2, <1>4, <2>1 DEF Groups
<1>5. CASE i < j /\ NearDuplicate(items[i], items[j])
  <2> DEFINE u == Union(p, i, j)
  <2>1. /\ IsForest(u, n)
        /\ \A x, y \in 1 .. n :
              Find(u, x) = Find(u, y)
                <=> \/ Find(p, x) = Find(p, y)
                    \/ {Find(p, x), Find(p, y)} \subseteq {Find(p, i), Find(p, j)}
    BY <1>1, <1>3, Unions
  <2>2. Joined(items, p, k) = u
    BY <1>2, <1>5
  <2> HIDE DEF u
  <2>3. ASSUME NEW x \in 1 .. n, NEW y \in 1 .. n,
               x < y, <<x, y>> \in Seen(n, k), NearDuplicate(items[x], items[y])
        PROVE  Find(u, x) = Find(u, y)
    <3>1. CASE <<x, y>> \in Seen(n, k - 1)
      BY <2>1, <2>3, <3>1 DEF Groups
    <3>2. CASE x = i /\ y = j
      BY <1>1, <2>1, <3>2
    <3> QED
      BY <1>1, <2>3, <3>1, <3>2
  <2>4. ASSUME NEW S \in SUBSET (1 .. n), IsClosed(items, S),
               NEW x \in S, NEW y \in 1 .. n, Find(u, x) = Find(u, y)
        PROVE  y \in S
    <3>1. \A v \in S, w \in 1 .. n : Find(p, v) = Find(p, w) => w \in S
      BY <2>4 DEF Groups
    <3>2. i \in S <=> j \in S
      BY <1>1, <1>5, <2>4, NearIsSymmetric DEF IsClosed
    <3>3. \/ Find(p, x) = Find(p, y)
          \/ {Find(p, x), Find(p, y)} \subseteq {Find(p, i), Find(p, j)}
      BY <2>1, <2>4
    <3>4. CASE {Find(p, x), Find(p, y)} \subseteq {Find(p, i), Find(p, j)}
      <4>1. i \in S \/ j \in S
        BY <1>1, <3>1, <3>4
      <4> QED
        BY <1>1, <3>1, <3>2, <3>4, <4>1
    <3> QED
      BY <3>1, <3>3, <3>4
  <2> QED
    BY <2>1, <2>2, <2>3, <2>4 DEF Groups
<1> QED
  BY <1>4, <1>5

Joins(items, m, f) ==
    f = [k \in 0 .. m |->
           IF k = 0 THEN [i \in 1 .. Len(items) |-> i] ELSE Joined(items, f[k - 1], k)]

LEMMA JoinsToAll ==
  ASSUME NEW items, NEW m \in Nat
  PROVE  \E f : Joins(items, m, f)
<1> DEFINE T == {k \in Nat : ~\E f : Joins(items, k, f)}
<1> SUFFICES ASSUME T # {} PROVE FALSE
  OBVIOUS
<1>1. T \in SUBSET Nat
  OBVIOUS
<1> HIDE DEF T
<1>2. PICK k \in T : \A q \in T : k <= q
  BY <1>1, LeastOf
<1> USE DEF T
<1>3. k # 0
  <2> DEFINE f == [q \in 0 .. 0 |-> [i \in 1 .. Len(items) |-> i]]
  <2>1. Joins(items, 0, f)
    BY DEF Joins
  <2> QED
    BY <2>1
<1>4. k - 1 \in Nat /\ k \in Nat
  BY <1>3
<1>5. k - 1 \notin T
  BY <1>2, <1>4
<1>6. PICK f : Joins(items, k - 1, f)
  BY <1>4, <1>5
<1> DEFINE g == [q \in 0 .. k |-> IF q = k THEN Joined(items, f[k - 1], k) ELSE f[q]]
<1>7. Joins(items, k, g)
  <2> DEFINE first == [i \in 1 .. Len(items) |-> i]
             h == [q \in 0 .. k |-> IF q = 0 THEN first ELSE Joined(items, g[q - 1], q)]
  <2>1. f = [q \in 0 .. k - 1 |-> IF q = 0 THEN first ELSE Joined(items, f[q - 1], q)]
    BY <1>6 DEF Joins
  <2> HIDE DEF first
  <2>2. ASSUME NEW q \in 0 .. k
        PROVE  g[q] = IF q = 0 THEN first ELSE Joined(items, g[q - 1], q)
    <3>1. CASE q = k
      BY <1>3, <1>4, <3>1
    <3>2. CASE q # k
      <4>1. /\ q \in 0 .. k - 1 /\ f[q] = g[q]
            /\ q # 0 => q - 1 \in 0 .. k - 1 /\ f[q - 1] = g[q - 1]
        BY <1>4, <3>2
      <4> HIDE DEF g
      <4> QED
        BY <2>1, <4>1
    <3> QED
      BY <3>1, <3>2
  <2>3. g = h
    BY <2>2
  <2> HIDE DEF g
  <2> QED
    BY <2>3 DEF Joins, first
<1> QED
  BY <1>2, <1>7

LEMMA ParentsGroup ==
  ASSUME NEW items, Len(items) \in Nat
  PROVE  Groups(items, (1 .. Len(items)) \X (1 .. Len(items)), Parents(items))
<1> DEFINE n == Len(items)
           last == n * n
<1>1. last \in Nat
  BY SMTT(30)
<1>2. PICK f : Joins(items, last, f) /\ Parents(items) = f[last]
  <2>1. Parents(items) = (CHOOSE f : Joins(items, last, f))[last]
    BY Zenon DEF Parents, Joins
  <2> QED
    BY <1>1, <2>1, JoinsToAll
<1> DEFINE T == {k \in 0 .. last : ~Groups(items, Seen(n, k), f[k])}
<1>3. T = {}
  <2> SUFFICES ASSUME T # {} PROVE FALSE
    OBVIOUS
  <2> HIDE DEF last
  <2>1. T \in SUBSET Nat
    BY <1>1
  <2> HIDE DEF T
  <2>2. PICK k \in T : \A q \in T : k <= q
    BY <2>1, LeastOf
  <2> USE DEF T
  <2>3. k # 0
    <3> DEFINE id == [i \in 1 .. n |-> i]
    <3>1. f[0] = id
      BY <1>1, <1>2 DEF Joins
    <3>2. IsForest(id, n)
      BY DEF IsForest
    <3>3. \A i \in 1 .. n : Find(id, i) = i
      BY <3>2, FindStep
    <3>4. ASSUME NEW ij \in Seen(n, 0) PROVE FALSE
      <4>1. PICK x \in 1 .. n, y \in 1 .. n : (x - 1) * n + y <= 0
        BY DEF Seen
      <4>2. (x - 1) * n >= 0
        BY SMTT(30)
      <4>3. (x - 1) * n \in Int
        BY SMTT(30)
      <4> QED
        BY <4>1, <4>2, <4>3
    <3>5. Groups(items, Seen(n, 0), id)
      BY <3>2, <3>3, <3>4 DEF Groups
    <3> QED
      BY <3>1, <3>5
  <2>4. k \in 1 .. last /\ k - 1 \in 0 .. last /\ k - 1 \notin T
    BY <1>1, <2>2, <2>3
  <2>5. Groups(items, Seen(n, k - 1), f[k - 1])
    BY <2>4
  <2>6. f[k] = Joined(items, f[k - 1], k)
    BY <1>1, <1>2, <2>4 DEF Joins
  <2>7. Groups(items, Seen(n, k), f[k])
    <3> HIDE DEF T
    <3> QED
      BY <2>4, <2>5, <2>6, JoinedGroups DEF last
  <2> QED
    BY <2>4, <2>7
<1>4. Seen(n, last) = (1 .. n) \X (1 .. n)
  <2>1. ASSUME NEW x \in 1 .. n, NEW y \in 1 .. n
        PROVE  (x - 1) * n + y <= n * n
    <3>1. (x - 1) * n <= (n - 1) * n
      BY SMTT(30)
    <3> QED
      BY <3>1, SMTT(30)
  <2> QED
    BY <2>1 DEF Seen
<1> HIDE DEF last
<1>5. last \in 0 .. last
  BY <1>1
<1> QED
  BY <1>2, <1>3, <1>4, <1>5

\* The clusters are the components of the near duplicates.
LEMMA ClustersAreComponents ==
  ASSUME NEW items, items \in Seq(Members(items))
  PROVE  /\ UNION Clusters(items) = Members(items)
         /\ Clusters(items) =
              {group \in SUBSET Members(items) : IsComponent(group, Members(items))}
<1> DEFINE n == Len(items)
           docs == Members(items)
           Root(i) == Find(Parents(items), i)
           class(i) == {items[k] : k \in {k \in 1 .. n : Root(k) = Root(i)}}
<1>1. n \in Nat /\ DOMAIN items = 1 .. n
  OBVIOUS
<1>2. Clusters(items) = {class(i) : i \in 1 .. n}
  BY <1>1 DEF Clusters
<1>3. \A doc : doc \in docs <=> \E i \in 1 .. n : items[i] = doc
  BY <1>1 DEF Members
<1>4. /\ \A i, j \in 1 .. n : i < j /\ NearDuplicate(items[i], items[j]) => Root(i) = Root(j)
      /\ \A S \in SUBSET (1 .. n) : IsClosed(items, S) =>
            \A i \in S, j \in 1 .. n : Root(i) = Root(j) => j \in S
  BY <1>1, ParentsGroup DEF Groups
<1> HIDE DEF Root, docs
<1>5. ASSUME NEW i \in 1 .. n, NEW j \in 1 .. n, NearDuplicate(items[i], items[j])
      PROVE  Root(i) = Root(j)
  <2>1. i < j \/ i = j \/ j < i
    BY <1>1
  <2> QED
    BY <1>4, <1>5, <2>1, NearIsSymmetric
<1>6. ASSUME NEW i \in 1 .. n, NEW j \in 1 .. n
      PROVE  items[j] \in class(i) <=> Root(j) = Root(i)
  <2>1. ASSUME NEW k \in 1 .. n, items[k] = items[j] PROVE Root(k) = Root(j)
    BY <1>5, <2>1 DEF NearDuplicate
  <2> QED
    BY <2>1
<1>7. \A i \in 1 .. n : \A doc \in class(i) : \E k \in 1 .. n : items[k] = doc
  OBVIOUS
<1> HIDE DEF class, n
<1>8. ASSUME NEW i \in 1 .. n PROVE IsComponent(class(i), docs) /\ class(i) \subseteq docs
  <2>1. class(i) # {} /\ class(i) \subseteq docs
    BY <1>3, <1>6, <1>7
  <2>2. ASSUME NEW a \in class(i), NEW b \in docs \ class(i), NearDuplicate(a, b) PROVE FALSE
    <3>1. PICK x \in 1 .. n, y \in 1 .. n : items[x] = a /\ items[y] = b
      BY <1>3, <1>7
    <3> QED
      BY <1>5, <1>6, <2>2, <3>1
  <2>3. ASSUME NEW part \in (SUBSET class(i)) \ {{}, class(i)},
               \A a \in part, b \in class(i) \ part : ~NearDuplicate(a, b)
        PROVE  FALSE
    <3>6. part \subseteq class(i) /\ part # {} /\ part # class(i)
      BY <2>3, Zenon
    <3> DEFINE S == {k \in 1 .. n : items[k] \in part}
    <3>1. S \in SUBSET (1 .. n)
      OBVIOUS
    <3>2. ASSUME NEW x \in S, NEW y \in (1 .. n) \ S, NearDuplicate(items[x], items[y])
          PROVE  FALSE
      <4>1. items[x] \in class(i) /\ Root(x) = Root(y)
        BY <1>5, <3>2
      <4>2. items[y] \in class(i)
        BY <1>6, <4>1
      <4> QED
        BY <2>3, <3>2, <4>2
    <3>3. IsClosed(items, S)
      BY <3>2 DEF IsClosed, n
    <3>4. PICK x \in S : items[x] \in part
      <4>1. PICK doc \in class(i) : doc \in part
        BY <3>6
      <4> QED
        BY <1>7, <4>1
    <3>5. ASSUME NEW doc \in class(i) PROVE doc \in part
      <4>1. PICK y \in 1 .. n : items[y] = doc
        BY <1>7
      <4>2. Root(x) = Root(y)
        BY <1>6, <3>4, <4>1
      <4>3. y \in S
        <5> HIDE DEF S
        <5> QED
          BY <1>4, <3>1, <3>3, <3>4, <4>2
      <4> QED
        BY <4>1, <4>3
    <3> QED
      <4>1. class(i) \subseteq part
        BY <3>5
      <4> QED
        BY <3>6, <4>1
  <2> QED
    BY <2>1, <2>2, <2>3 DEF IsComponent
<1>9. ASSUME NEW group \in SUBSET docs, IsComponent(group, docs)
      PROVE  \E i \in 1 .. n : group = class(i)
  <2> DEFINE S == {k \in 1 .. n : items[k] \in group}
  <2>1. S \in SUBSET (1 .. n) /\ IsClosed(items, S)
    BY <1>3, <1>9 DEF IsClosed, IsComponent, n
  <2>2. PICK x \in S : items[x] \in group
    BY <1>3, <1>9 DEF IsComponent
  <2>3. ASSUME NEW doc \in class(x) PROVE doc \in group
    <3>1. PICK y \in 1 .. n : items[y] = doc
      BY <1>7
    <3>2. Root(x) = Root(y)
      BY <1>6, <3>1
    <3>3. y \in S
      <4> HIDE DEF S
      <4> QED
        BY <1>4, <2>1, <3>2
    <3> QED
      BY <3>1, <3>3
  <2>4. ASSUME class(x) # group PROVE FALSE
    <3>1. class(x) \in (SUBSET group) \ {{}, group}
      <4>1. class(x) \subseteq group
        BY <2>3
      <4>2. class(x) # {}
        BY <1>6
      <4> QED
        BY <2>4, <4>1, <4>2, Zenon
    <3>2. PICK a \in class(x), b \in group \ class(x) : NearDuplicate(a, b)
      BY <1>9, <3>1 DEF IsComponent
    <3>3. PICK u \in 1 .. n, v \in 1 .. n : items[u] = a /\ items[v] = b
      BY <1>3, <3>1, <3>2
    <3> QED
      BY <1>5, <1>6, <3>2, <3>3
  <2> QED
    BY <2>4
<1>10. Clusters(items) = {group \in SUBSET docs : IsComponent(group, docs)}
  <2>1. Clusters(items) = {class(i) : i \in 1 .. n}
    BY <1>2 DEF n
  <2> QED
    BY <1>8, <1>9, <2>1
<1>11. UNION Clusters(items) = docs
  <2>1. Clusters(items) = {class(i) : i \in 1 .. n}
    BY <1>2 DEF n
  <2>2. ASSUME NEW doc \in docs PROVE \E i \in 1 .. n : doc \in class(i)
    BY <1>3, <1>6
  <2> QED
    BY <1>8, <2>1, <2>2
<1> QED
  BY <1>10, <1>11 DEF docs

\* What is independent has a title and no near duplicate in the baseline.
LEMMA IndependentOnes ==
  ASSUME NEW base, NEW items
  PROVE  IndependentReports(base, items) =
           {group \in Clusters(items) :
              /\ \E doc \in group : doc.words # {}
              /\ \A doc \in group, b \in base : ~NearDuplicate(doc, b)}
<1>1. ASSUME NEW doc
      PROVE  /\ Classify(doc, base) \in {"novel", "unassessed"}
                  <=> \A b \in base : ~NearDuplicate(doc, b)
             /\ Classify(doc, base) = "novel"
                  <=> doc.words # {} /\ \A b \in base : ~NearDuplicate(doc, b)
  <2>1. \A b : b.url = doc.url \/ b.hash = doc.hash => NearDuplicate(doc, b)
    BY DEF NearDuplicate
  <2> QED
    BY <2>1 DEF Classify
<1> QED
  BY <1>1 DEF IndependentReports

-----------------------------------------------------------------------------
(* The report on a lens checkpoint.                                        *)

LensRuns == \A l \in lenses : l.run \in Lens

LEMMA NextLensRuns ==
  ASSUME LensRuns, [Next]_vars
  PROVE  LensRuns'
<1>1. CASE UNCHANGED lenses
  BY <1>1 DEF LensRuns
<1>2. ASSUME NEW r \in Lens, NEW i \in DOMAIN checkpoints, Follow(r, i) PROVE LensRuns'
  BY <1>2 DEF Follow, LensRuns
<1> QED
  BY <1>1, <1>2
  DEF Next, vars, journal, BeginBatch, BeginPoll, Begin, Look, Complete, Checkpoint, Stop,
      BatchAttempt, PollAttempt, FailAttempt, Shadow, Tick

LEMMA RowsMakeComponents ==
  ASSUME Rows, LensRuns
  PROVE  ReportsAreComponents
<1> SUFFICES ASSUME NEW l \in lenses
             PROVE  LET report == Report(l)
                        docs == Members(stored[l.run])
                    IN  /\ report.clusters = {group \in SUBSET docs : IsComponent(group, docs)}
                        /\ report.independent =
                             {group \in report.clusters :
                                /\ \E doc \in group : doc.words # {}
                                /\ \A doc \in group, b \in Packet(l.base).documents :
                                      ~NearDuplicate(doc, b)}
  BY DEF ReportsAreComponents
<1>1. stored[l.run] \in Seq(Members(stored[l.run]))
  BY DEF Rows, RowsAreStrongest, LensRuns, Runs
<1>2. PICK items, base : items = stored[l.run] /\ base = Packet(l.base).documents
  OBVIOUS
<1>3. /\ Report(l).clusters = Clusters(items)
      /\ Report(l).independent = IndependentReports(base, items)
  BY <1>2 DEF Report
<1>4. Clusters(items) = {group \in SUBSET Members(items) : IsComponent(group, Members(items))}
  BY <1>1, <1>2, ClustersAreComponents
<1> QED
  BY <1>2, <1>3, <1>4, IndependentOnes

\* What the report shows as one report is a connected component of the lens's
\* near duplicates, whatever order the ledger gives them in, and an independent
\* one repeats nothing of the baseline (overlap.py, lens_report.py).
THEOREM ReportsAreComponentsHolds == Spec => []ReportsAreComponents
<1>1. Init => LensRuns
  BY DEF Init, LensRuns
<1>2. /\ LensRuns /\ [Next]_vars => LensRuns'
      /\ Inductive /\ Rows /\ [Next]_vars => Rows'
  BY NextLensRuns, NextRows
<1>3. Rows /\ LensRuns => ReportsAreComponents
  BY RowsMakeComponents
<1> QED
  BY <1>1, <1>2, <1>3, InitRows, InductiveHolds, PTL DEF Spec

=============================================================================
