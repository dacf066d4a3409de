---------------------------- MODULE AttemptProofs ----------------------------
(***************************************************************************)
(* Inductive holds at every step of Attempt, and what follows from it.     *)
(***************************************************************************)
EXTENDS AttemptInvariant, TLAPS

-----------------------------------------------------------------------------
(* What a step of process p leaves alone.                                  *)

Others(p) ==
    \A q \in Procs \ {p} : pc'[q] = pc[q] /\ pass'[q] = pass[q] /\ job'[q] = job[q]

\* Only p's open runs change, and new runs are p's.
RunsKept(p) ==
    /\ DOMAIN runs \subseteq DOMAIN runs'
    /\ \A i \in DOMAIN runs :
        runs[i].complete \/ i[1] # job[p].attempt => runs'[i] = runs[i]
    /\ \A i \in DOMAIN runs' : i \in DOMAIN runs \/ i[1] = job[p].attempt

Moves(p) ==
    /\ Others(p)
    /\ RunsKept(p)
    /\ outputs \subseteq outputs'
    /\ minted <= minted' /\ clock <= clock'

LEMMA CompletedKept ==
  ASSUME NEW p, NEW question, RunsKept(p)
  PROVE  /\ Completed(question) \subseteq Completed(question)'
         /\ \A i \in Completed(question) : runs'[i] = runs[i]
BY DEF RunsKept, Completed

LEMMA EvidenceKept ==
  ASSUME NEW ids, \A i \in ids : runs'[i] = runs[i]
  PROVE  Evidence(ids)' = Evidence(ids) /\ Troubled(ids)' = Troubled(ids)
<1>1. \A i \in ids : runs'[i].docs = runs[i].docs /\ runs'[i].failed = runs[i].failed
  OBVIOUS
<1>2. {runs'[i].docs : i \in ids} = {runs[i].docs : i \in ids}
  BY <1>1
<1> QED
  BY <1>1, <1>2 DEF Evidence, Troubled

LEMMA BackedKept ==
  ASSUME NEW p, NEW ids, NEW docs, NEW question, NEW now, NEW live,
         RunsKept(p), Backed(ids, docs, question, now, live)
  PROVE  /\ Backed(ids, docs, question, now, live)'
         /\ Evidence(ids)' = Evidence(ids)
         /\ Troubled(ids)' = Troubled(ids)
<1>1. \A i \in ids : runs'[i] = runs[i]
  BY CompletedKept DEF Backed
<1>2. Evidence(ids)' = Evidence(ids) /\ Troubled(ids)' = Troubled(ids)
  BY <1>1, EvidenceKept
<1> QED
  BY <1>1, <1>2, CompletedKept DEF Backed

LEMMA FilesKept ==
  ASSUME outputs \subseteq outputs', NEW attempt, NEW docs, NEW reply
  PROVE  /\ InFile(attempt, docs, reply) => InFile(attempt, docs, reply)'
         /\ AnswersTo(reply, docs) => AnswersTo(reply, docs)'
BY DEF InFile, AnswersTo

LEMMA RecordKept ==
  ASSUME NEW p, Moves(p), NEW r, RecordIsSound(r)
  PROVE  RecordIsSound(r)'
<1>1. /\ Backed(r.runs, r.docs, r.question, r.at, ~r.replay)'
      /\ Troubled(r.runs)' = Troubled(r.runs)
  BY BackedKept DEF Moves, RecordIsSound
<1>2. Explained(r.runs, r.docs, r.gaps) => Explained(r.runs, r.docs, r.gaps)'
  BY <1>1 DEF Explained
<1>3. /\ InFile(r.attempt, r.docs, r.reply) => InFile(r.attempt, r.docs, r.reply)'
      /\ AnswersTo(r.reply, r.docs) => AnswersTo(r.reply, r.docs)'
  BY FilesKept DEF Moves
<1> QED
  BY <1>1, <1>2, <1>3 DEF RecordIsSound

\* What a process at rest, or another than p, has judged.
LEMMA JudgedKept ==
  ASSUME NEW p, Moves(p), NEW q, NEW at, NEW j, Judged(q, at, j)
  PROVE  Judged(q, at, j)'
<1>1. ASSUME at \in Judging
      PROVE  /\ Backed(j.ids, j.docs, j.question, j.now, q \notin Replays)'
             /\ Evidence(j.ids)' = Evidence(j.ids)
             /\ Troubled(j.ids)' = Troubled(j.ids)
  BY <1>1, BackedKept DEF Judged, Moves
<1>2. ASSUME at \in Judging
      PROVE  Explained(j.ids, j.docs, {j.poor}) => Explained(j.ids, j.docs, {j.poor})'
  BY <1>1, <1>2 DEF Explained
<1>3. /\ InFile(j.attempt, j.docs, j.reply) => InFile(j.attempt, j.docs, j.reply)'
      /\ AnswersTo(j.reply, j.docs) => AnswersTo(j.reply, j.docs)'
  BY FilesKept DEF Moves
<1> QED
  BY <1>1, <1>2, <1>3 DEF Judged, Judging

\* A process whose attempt is another's keeps its retrieval.
LEMMA RetrievingKept ==
  ASSUME NEW p, RunsKept(p), NEW at, NEW s, NEW j, j.attempt # job[p].attempt,
         s.provider \in Providers, Retrieving(at, s, j)
  PROVE  Retrieving(at, s, j)'
<1>1. ASSUME at = "research" PROVE \A i \in DOMAIN runs' : i[1] # j.attempt
  BY <1>1 DEF RunsKept, Retrieving
<1>2. ASSUME at = "retrieve"
      PROVE  /\ s.ids \subseteq Completed(s.question)'
             /\ \A i \in s.ids : runs'[i].at = s.now
  BY <1>2, CompletedKept DEF Retrieving
<1>3. ASSUME at = "retrieve", NEW provider \in Providers
      PROVE  LET run == <<s.attempt, provider>> IN
             /\ run \in DOMAIN runs' <=> run \in DOMAIN runs
             /\ run \in DOMAIN runs => runs'[run] = runs[run]
  <2>1. <<s.attempt, provider>>[1] # job[p].attempt
    BY <1>3 DEF Retrieving
  <2> QED
    BY <2>1 DEF RunsKept
<1>4. ASSUME at = "retrieve"
      PROVE  LET run == <<s.attempt, s.provider>> IN
             /\ s.stage = "open" => run \notin DOMAIN runs'
             /\ s.stage \in {"call", "store"} =>
                  /\ run \in DOMAIN runs' /\ ~runs'[run].complete
                  /\ runs'[run].question = s.question /\ runs'[run].at = s.now
  BY <1>3, <1>4 DEF Retrieving
<1>5. ASSUME at = "retrieve", s.provider = "asknews", s.stage \in {"open", "call", "store"}
      PROVE  <<s.attempt, "exa">> \notin DOMAIN runs'
  BY <1>3, <1>5 DEF Retrieving, Providers
<1> QED
  BY <1>1, <1>2, <1>4, <1>5 DEF Retrieving

LEMMA OthersKnow ==
  ASSUME Inductive, NEW p \in Procs, Moves(p), Types', NEW q \in Procs \ {p}
  PROVE  ProcessKnows(q)'
<1>1. PICK at : at = pc[q]
  OBVIOUS
<1>2. PICK s : s = pass[q]
  OBVIOUS
<1>3. PICK j : j = job[q]
  OBVIOUS
<1>4. at = pc'[q] /\ s = pass'[q] /\ j = job'[q]
  BY <1>1, <1>2, <1>3 DEF Moves, Others
<1>5. Numbered(at, j) /\ Retrieving(at, s, j) /\ Judged(q, at, j)
  BY <1>1, <1>2, <1>3 DEF Inductive, ProcessKnows
<1>6. j \in JobType /\ s \in PassType /\ minted \in Nat /\ clock \in 0 .. MaxClock
  BY <1>2, <1>3 DEF Inductive, Types
<1>7. Numbered(at, j)'
  <2>1. minted' >= j.attempt /\ clock' >= j.now
    BY <1>5, <1>6 DEF Moves, Numbered, JobType, Types
  <2> QED
    BY <1>5, <2>1 DEF Numbered
<1>8. Retrieving(at, s, j)'
  <2>1. CASE at \in Active
    <3>1. j.attempt # job[p].attempt
      BY <1>3, <1>5, <2>1 DEF Inductive, AttemptsAreOwn, Numbered
    <3> QED
      BY <1>5, <1>6, <3>1, RetrievingKept DEF Moves, PassType
  <2>2. CASE at \notin Active
    BY <2>2 DEF Retrieving, Active
  <2> QED
    BY <2>1, <2>2
<1>9. Judged(q, at, j)'
  BY <1>5, JudgedKept
<1> QED
  BY <1>4, <1>7, <1>8, <1>9 DEF ProcessKnows

-----------------------------------------------------------------------------
(* What is left to show of a step.                                         *)

\* Of what is stored, a step changes little.
Stored ==
    /\ checkpoints' = checkpoints \/ CheckpointsNameTheirRuns'
    /\ outputs' = outputs \/ OutputsHaveTheirOrigin'
    /\ \A r \in records' : r \in records \/ RecordIsSound(r)'

LEMMA StepInductive ==
  ASSUME Inductive, NEW p \in Procs, Moves(p), Types', ProcessKnows(p)', AttemptsAreOwn',
         RunsAreDated', Stored
  PROVE  Inductive'
<1>1. \A q \in Procs : ProcessKnows(q)'
  BY OthersKnow
<1>2. CheckpointsNameTheirRuns'
  <2>1. ASSUME checkpoints' = checkpoints, NEW q \in Questions
        PROVE  /\ checkpoints[q].ids \subseteq Completed(q)'
               /\ \A i \in checkpoints[q].ids : runs'[i].at = checkpoints[q].at
    BY CompletedKept DEF Inductive, CheckpointsNameTheirRuns, Moves
  <2> QED
    BY <2>1 DEF Stored, CheckpointsNameTheirRuns
<1>3. OutputsHaveTheirOrigin'
  <2>1. ASSUME outputs' = outputs PROVE OutputsHaveTheirOrigin'
    BY <2>1 DEF Inductive, OutputsHaveTheirOrigin, AnswersTo
  <2> QED
    BY <2>1 DEF Stored
<1>4. \A r \in records' : RecordIsSound(r)'
  BY RecordKept DEF Stored, Inductive
<1> QED
  BY <1>1, <1>2, <1>3, <1>4 DEF Inductive

\* Steps that neither touch the runs nor take an attempt id, most of them.
LEMMA PlainStep ==
  ASSUME Inductive, NEW p \in Procs, Others(p), Types',
         UNCHANGED <<runs, clock, minted>>, outputs \subseteq outputs',
         job'[p].attempt \in {job[p].attempt, 0}, ProcessKnows(p)', Stored
  PROVE  Inductive'
<1>1. Moves(p)
  BY DEF Moves, RunsKept, Inductive, Types
<1>2. AttemptsAreOwn'
  BY DEF Inductive, AttemptsAreOwn, Others
<1>3. RunsAreDated'
  BY DEF Inductive, RunsAreDated
<1> QED
  BY <1>1, <1>2, <1>3, StepInductive

-----------------------------------------------------------------------------
(* Ends of an attempt.                                                     *)

LEMMA Blank == Idle \in JobType /\ Off \in PassType
<1>1. 0 \in 0 .. MaxClock
  BY RetrievalBounds
<1> QED
  BY <1>1 DEF Idle, Off, JobType, PassType, Providers, RunIds

\* A process at rest knows its number only.
LEMMA RestKnows ==
  ASSUME NEW p \in Procs, pc'[p] \in {"idle", "next", "aborted"},
         p \in Replays => pc'[p] = "idle",
         job'[p].attempt <= minted', job'[p].now <= clock'
  PROVE  ProcessKnows(p)'
BY DEF ProcessKnows, Numbered, Retrieving, Judged, Active, Judging

LEMMA EndInductive ==
  ASSUME Inductive, NEW p \in Procs, NEW known \in Nat, NEW unpriced \in Nat,
         Rest(p, known, unpriced) \/ Gone(p) \/ Aborted(p),
         UNCHANGED <<runs, checkpoints, outputs, clock, minted>>,
         \A r \in records' : r \in records \/ RecordIsSound(r)'
  PROVE  Inductive'
<1> DEFINE next == [Idle EXCEPT !.todo = job[p].todo, !.now = job[p].now,
                                !.attempt = job[p].attempt,
                                !.known = job[p].known + known,
                                !.unpriced = job[p].unpriced + unpriced]
           at == pc'[p]
<1>1. job[p] \in JobType /\ pass \in [Procs -> PassType] /\ job \in [Procs -> JobType]
  BY DEF Inductive, Types
<1>2. next \in JobType /\ next.attempt = job[p].attempt /\ next.now = job[p].now
  <2>1. /\ job[p].todo \in SUBSET Questions /\ job[p].now \in 0 .. MaxClock
        /\ job[p].attempt \in Nat
        /\ job[p].known + known \in Nat /\ job[p].unpriced + unpriced \in Nat
    BY <1>1 DEF JobType
  <2>2. PICK todo \in SUBSET Questions, now \in 0 .. MaxClock, attempt \in Nat,
             k \in Nat, u \in Nat :
             /\ todo = job[p].todo /\ now = job[p].now /\ attempt = job[p].attempt
             /\ k = job[p].known + known /\ u = job[p].unpriced + unpriced
    BY <2>1
  <2> DEFINE j == [Idle EXCEPT !.todo = todo, !.now = now, !.attempt = attempt,
                               !.known = k, !.unpriced = u]
  <2>3. next = j
    BY <2>2
  <2>4. j \in JobType /\ j.attempt = attempt /\ j.now = now
    BY Blank DEF JobType
  <2> HIDE DEF j, next
  <2> QED
    BY <2>2, <2>3, <2>4
<1>3. \E end \in {"idle", "next", "aborted"}, j \in {Idle, next} :
        /\ pc' = [pc EXCEPT ![p] = end]
        /\ job' = [job EXCEPT ![p] = j]
        /\ pass' = [pass EXCEPT ![p] = Off]
        /\ p \in Replays => end = "idle"
  BY AttemptNames DEF Rest, Gone, Aborted
<1>4. PICK end \in {"idle", "next", "aborted"}, j \in {Idle, next} :
        /\ pc' = [pc EXCEPT ![p] = end]
        /\ job' = [job EXCEPT ![p] = j]
        /\ pass' = [pass EXCEPT ![p] = Off]
        /\ p \in Replays => end = "idle"
  BY <1>3
<1>5. Types'
  BY <1>1, <1>2, <1>4, Blank DEF Inductive, Types
<1>6. Others(p)
  BY <1>1, <1>4 DEF Others, Inductive, Types
<1>7. job[p].attempt <= minted /\ job[p].now <= clock
  BY DEF Inductive, ProcessKnows, Numbered
<1>8. /\ pc'[p] = end /\ job'[p] = j
      /\ j.attempt \in {job[p].attempt, 0} /\ j.now \in {job[p].now, 0}
  <2>1. pc'[p] = end /\ job'[p] = j
    BY <1>4 DEF Inductive, Types
  <2>2. Idle.attempt = 0 /\ Idle.now = 0
    BY DEF Idle
  <2> QED
    BY <1>2, <2>1, <2>2
<1>9. minted' \in Nat /\ clock' \in Nat
  BY DEF Inductive, Types
<1>10. ProcessKnows(p)'
  BY <1>4, <1>7, <1>8, <1>9, RestKnows
<1> QED
  BY <1>5, <1>6, <1>8, <1>10, PlainStep DEF Stored

LEMMA CostsAreNumbers ==
  ASSUME Inductive, NEW p \in Procs
  PROVE  /\ pass[p].known \in Nat /\ pass[p].unpriced \in Nat
         /\ pass[p].known + ModelCost(p) \in Nat
         /\ pass[p].unpriced + ModelUnpriced(p) \in Nat
<1>1. job[p] \in JobType /\ pass[p] \in PassType
  BY DEF Inductive, Types
<1> QED
  BY <1>1 DEF JobType, PassType, ModelCost, ModelUnpriced

\* The attempt ends and leaves an event at most.
LEMMA EndSteps ==
  ASSUME Inductive, NEW p \in Procs,
         \/ EndBatch(p) \/ RefuseQuestion(p) \/ ReuseFails(p) \/ ResearchFails(p)
         \/ PollStops(p) \/ CheckpointFails(p) \/ NoEvidence(p) \/ NothingUsable(p)
         \/ GenerationRefused(p) \/ GenerationFailed(p) \/ NotRecorded(p)
         \/ ReplyRejected(p) \/ Crash(p)
  PROVE  Inductive'
<1>1. \E known, unpriced \in Nat : Rest(p, known, unpriced) \/ Gone(p) \/ Aborted(p)
  <2>1. 0 \in Nat
    OBVIOUS
  <2> QED
    BY <2>1, CostsAreNumbers DEF EndBatch, RefuseQuestion, ReuseFails, ResearchFails,
       PollStops, CheckpointFails, NoEvidence, NothingUsable, GenerationRefused,
       GenerationFailed, NotRecorded, ReplyRejected, Crash
<1>2. UNCHANGED <<runs, checkpoints, outputs, clock, minted, records>>
  BY DEF EndBatch, RefuseQuestion, ReuseFails, ResearchFails,
     PollStops, CheckpointFails, NoEvidence, NothingUsable, GenerationRefused,
     GenerationFailed, NotRecorded, ReplyRejected, Crash, ledger, counts
<1> QED
  BY <1>1, <1>2, EndInductive

\* The record is what was judged, and a replay's names its file.
LEMMA NewRecordIsSound ==
  ASSUME Inductive, NEW p \in Procs, AppendVersion(p),
         p \in Replays => job[p].filed = "written"
  PROVE  RecordIsSound(NewRecord(p))
<1> DEFINE r == NewRecord(p)
<1>1. /\ r.runs = job[p].ids /\ r.docs = job[p].docs /\ r.question = job[p].question
      /\ r.at = job[p].now /\ r.attempt = job[p].attempt /\ r.reply = job[p].reply
      /\ r.gaps = Gaps(p)
      /\ r.path = (job[p].filed = "written") /\ r.replay = (p \in Replays)
  BY DEF NewRecord
<1>2. Judged(p, "filed", job[p]) /\ pc[p] = "filed"
  BY DEF AppendVersion, Inductive, ProcessKnows
<1> HIDE DEF r
<1>3. (r.path <=> job[p].filed = "written") /\ (r.replay <=> p \in Replays)
  BY <1>1, Zenon
<1>4. Backed(r.runs, r.docs, r.question, r.at, ~r.replay)
  BY <1>1, <1>2, <1>3 DEF Judged, Judging, Backed
<1>5. r.path => InFile(r.attempt, r.docs, r.reply)
  BY <1>1, <1>2, <1>3 DEF Judged
<1>6. r.replay => r.path /\ AnswersTo(r.reply, r.docs)
  BY <1>1, <1>2, <1>3 DEF Judged
<1>7. ~r.replay => Explained(r.runs, r.docs, r.gaps)
  BY <1>1, <1>2, <1>3 DEF Judged, Explained, Gaps
<1> QED
  BY <1>4, <1>5, <1>6, <1>7 DEF RecordIsSound, r

LEMMA RecordStep ==
  ASSUME Inductive, NEW p \in Procs, Record(p) \/ RecordReplay(p)
  PROVE  Inductive'
<1>1. AppendVersion(p) /\ (p \in Replays => job[p].filed = "written")
  BY DEF Record, RecordReplay
<1>2. PICK r : r = NewRecord(p)
  OBVIOUS
<1>3. RecordIsSound(r)
  BY <1>1, <1>2, NewRecordIsSound
<1>4. \E known, unpriced \in Nat : Rest(p, known, unpriced)
  BY <1>1, CostsAreNumbers DEF AppendVersion
<1>5. UNCHANGED <<runs, checkpoints, outputs, clock, minted>> /\ records' = records \cup {r}
  BY <1>1, <1>2 DEF AppendVersion, counts
<1>6. Moves(p)
  BY <1>4, <1>5 DEF Moves, Others, RunsKept, Rest, Inductive, Types
<1>7. RecordIsSound(r)'
  BY <1>3, <1>6, RecordKept
<1> QED
  BY <1>4, <1>5, <1>7, EndInductive

-----------------------------------------------------------------------------
(* Steps that take an attempt id, or read the clock.                       *)

LEMMA FreshStep ==
  ASSUME Inductive, NEW p \in Procs, Others(p), Types',
         UNCHANGED <<runs, ledger, outputs>>, clock <= clock', minted <= minted',
         job'[p].attempt = 0 \/ minted < job'[p].attempt,
         ProcessKnows(p)'
  PROVE  Inductive'
<1>1. Moves(p)
  BY DEF Moves, RunsKept
<1>2. \A q \in Procs : job[q].attempt \in Nat /\ job[q].attempt <= minted
  BY DEF Inductive, Types, JobType, ProcessKnows, Numbered
<1>3. minted \in Nat /\ minted' \in Nat /\ clock \in Nat /\ clock' \in Nat
  BY DEF Inductive, Types
<1>4. AttemptsAreOwn'
  <2>1. \A q \in Procs \ {p} : job'[q] = job[q]
    BY DEF Others
  <2>2. job'[p].attempt \in Nat
    BY DEF Types, JobType
  <2>3. \A q \in Procs \ {p} : job'[p].attempt # 0 => job'[p].attempt # job'[q].attempt
    BY <1>2, <1>3, <2>1, <2>2
  <2>4. ASSUME NEW q \in Procs, NEW s \in Procs, q # s, job'[q].attempt # 0
        PROVE  job'[q].attempt # job'[s].attempt
    <3>1. CASE q = p
      BY <2>3, <2>4, <3>1
    <3>2. CASE s = p
      BY <2>3, <2>4, <3>2
    <3>3. CASE q # p /\ s # p
      BY <2>1, <2>4, <3>3 DEF Inductive, AttemptsAreOwn
    <3> QED
      BY <3>1, <3>2, <3>3
  <2> QED
    BY <2>4 DEF AttemptsAreOwn
<1>5. RunsAreDated'
  BY <1>3 DEF Inductive, RunsAreDated, Types, RunIds, RunType
<1>6. Stored
  BY DEF Stored, ledger
<1> QED
  BY <1>1, <1>4, <1>5, <1>6, StepInductive

\* A process that takes up a question with a new id has no run yet.
LEMMA FreshKnows ==
  ASSUME Inductive, NEW p \in Procs, p \notin Replays, pc'[p] = "research",
         runs' = runs, minted' = minted + 1, job'[p].attempt = minted + 1,
         job'[p].now <= clock', job'[p].question \in Questions
  PROVE  ProcessKnows(p)'
<1>1. \A i \in DOMAIN runs : i[1] # minted + 1
  BY DEF Inductive, RunsAreDated, Types, RunIds
<1>2. minted \in Nat
  BY DEF Inductive, Types
<1> QED
  BY <1>1, <1>2 DEF ProcessKnows, Numbered, Retrieving, Judged, Judging, Active

LEMMA ReadingsAreLater ==
  ASSUME Inductive, NEW t \in Readings
  PROVE  t \in 0 .. MaxClock /\ clock <= t
BY RetrievalBounds DEF Readings, Inductive, Types

LEMMA StartBatchStep ==
  ASSUME Inductive, NEW p \in Procs, StartBatch(p)
  PROVE  Inductive'
<1>1. PICK todo \in SUBSET Questions, t \in Readings :
        /\ clock' = t
        /\ job' = [job EXCEPT ![p] = [Idle EXCEPT !.todo = todo, !.now = t]]
  BY DEF StartBatch
<1>2. PICK j : j = [Idle EXCEPT !.todo = todo, !.now = t]
  OBVIOUS
<1>3. t \in 0 .. MaxClock /\ clock <= t
  BY ReadingsAreLater
<1>4. j \in JobType /\ j.attempt = 0 /\ j.now = t
  <2>1. todo \in SUBSET Questions /\ t \in 0 .. MaxClock
    BY <1>3
  <2> QED
    BY <1>2, <2>1, Blank DEF JobType, Idle
<1>5. job' = [job EXCEPT ![p] = j] /\ pc' = [pc EXCEPT ![p] = "next"]
  BY <1>1, <1>2 DEF StartBatch
<1>6. UNCHANGED <<runs, ledger, outputs, pass, minted>>
  BY DEF StartBatch, retrieval
<1>7. Types'
  BY <1>1, <1>3, <1>4, <1>5, <1>6 DEF Inductive, Types, ledger
<1>8. Others(p) /\ job'[p] = j /\ pc'[p] = "next"
  BY <1>5, <1>6 DEF Others, Inductive, Types
<1>9. p \notin Replays
  BY AttemptNames DEF StartBatch
<1>10. minted' \in Nat /\ minted <= minted'
  BY <1>6 DEF Inductive, Types
<1>11. ProcessKnows(p)'
  <2>1. clock' = t /\ t <= t /\ 0 <= minted'
    BY <1>1, <1>3, <1>10
  <2> QED
    BY <1>4, <1>8, <1>9, <2>1, RestKnows
<1> QED
  BY <1>1, <1>3, <1>4, <1>6, <1>7, <1>8, <1>10, <1>11, FreshStep

LEMMA TakeQuestionStep ==
  ASSUME Inductive, NEW p \in Procs, TakeQuestion(p)
  PROVE  Inductive'
<1>1. PICK question \in job[p].todo :
        job' = [job EXCEPT ![p].question = question,
                           ![p].todo = @ \ {question},
                           ![p].attempt = minted + 1]
  BY DEF TakeQuestion
<1>2. PICK j : j = [job[p] EXCEPT !.question = question,
                                  !.todo = @ \ {question},
                                  !.attempt = minted + 1]
  OBVIOUS
<1>3. job[p] \in JobType /\ minted \in Nat /\ job[p].now <= clock /\ p \notin Replays
  BY DEF Inductive, Types, ProcessKnows, Numbered, Judged, TakeQuestion
<1>4. question \in Questions
  BY <1>3 DEF JobType
<1>5. j \in JobType /\ j.attempt = minted + 1 /\ j.now = job[p].now /\ j.question = question
  <2>0. job[p].todo \ {question} \in SUBSET Questions /\ minted + 1 \in Nat
    BY <1>3 DEF JobType
  <2>1. PICK k \in JobType, todo \in SUBSET Questions, attempt \in Nat :
          k = job[p] /\ todo = job[p].todo \ {question} /\ attempt = minted + 1
    BY <1>3, <2>0
  <2>2. j = [k EXCEPT !.question = question, !.todo = todo, !.attempt = attempt]
    BY <1>2, <2>1
  <2>3. j \in JobType /\ j.attempt = attempt /\ j.now = k.now /\ j.question = question
    BY <1>4, <2>2 DEF JobType
  <2> QED
    BY <2>1, <2>3
<1>6. job' = [job EXCEPT ![p] = j] /\ pc' = [pc EXCEPT ![p] = "research"]
  BY <1>1, <1>2 DEF TakeQuestion
<1>7. UNCHANGED <<runs, ledger, outputs, pass, clock>> /\ minted' = minted + 1
  BY DEF TakeQuestion, retrieval
<1>8. Types'
  BY <1>3, <1>5, <1>6, <1>7 DEF Inductive, Types, ledger
<1>9. Others(p) /\ job'[p] = j /\ pc'[p] = "research"
  BY <1>6, <1>7 DEF Others, Inductive, Types
<1>10. ProcessKnows(p)'
  BY <1>3, <1>4, <1>5, <1>7, <1>9, FreshKnows
<1>11. clock \in Nat /\ clock <= clock' /\ minted <= minted' /\ minted < minted + 1
  BY <1>3, <1>7 DEF Inductive, Types
<1> QED
  BY <1>5, <1>7, <1>8, <1>9, <1>10, <1>11, FreshStep

LEMMA StartPollStep ==
  ASSUME Inductive, NEW p \in Procs, StartPoll(p)
  PROVE  Inductive'
<1>1. PICK q \in Questions, now \in {t \in 0 .. clock' : clock' - t <= Window} :
        job' = [job EXCEPT ![p] = [Idle EXCEPT !.question = q, !.now = now,
                                               !.attempt = minted + 1]]
  BY DEF StartPoll
<1>2. PICK j : j = [Idle EXCEPT !.question = q, !.now = now, !.attempt = minted + 1]
  OBVIOUS
<1>3. clock' \in 0 .. MaxClock /\ clock <= clock' /\ minted \in Nat /\ p \notin Replays
  BY ReadingsAreLater, AttemptNames DEF StartPoll, Inductive, Types
<1>4. now \in 0 .. MaxClock /\ now <= clock'
  BY <1>3, RetrievalBounds
<1>5. j \in JobType /\ j.attempt = minted + 1 /\ j.now = now /\ j.question = q
  <2>1. PICK attempt \in Nat : attempt = minted + 1
    BY <1>3
  <2>2. j = [Idle EXCEPT !.question = q, !.now = now, !.attempt = attempt]
    BY <1>2, <2>1
  <2>3. j \in JobType /\ j.attempt = attempt /\ j.now = now /\ j.question = q
    BY <1>4, <2>2, Blank DEF JobType
  <2> QED
    BY <2>1, <2>3
<1>6. job' = [job EXCEPT ![p] = j] /\ pc' = [pc EXCEPT ![p] = "research"]
  BY <1>1, <1>2 DEF StartPoll
<1>7. UNCHANGED <<runs, ledger, outputs, pass>> /\ minted' = minted + 1
  BY DEF StartPoll, retrieval
<1>8. Types'
  BY <1>3, <1>5, <1>6, <1>7 DEF Inductive, Types, ledger
<1>9. Others(p) /\ job'[p] = j /\ pc'[p] = "research"
  BY <1>6, <1>7 DEF Others, Inductive, Types
<1>10. ProcessKnows(p)'
  BY <1>3, <1>4, <1>5, <1>7, <1>9, FreshKnows
<1>11. minted <= minted' /\ minted < minted + 1
  BY <1>3, <1>7
<1> QED
  BY <1>3, <1>5, <1>7, <1>8, <1>9, <1>10, <1>11, FreshStep

\* What a replay rebuilds from its question's completed runs is what was asked.
LEMMA StartReplayStep ==
  ASSUME Inductive, NEW p \in Procs, StartReplay(p)
  PROVE  Inductive'
<1>1. PICK question \in Questions, output \in outputs :
        /\ output.question = question
        /\ Rebuilt(output)
        /\ job' = [job EXCEPT
                     ![p] = [Idle EXCEPT
                               !.question = output.question, !.now = clock',
                               !.attempt = minted + 1,
                               !.ids = Completed(output.question),
                               !.docs = Evidence(Completed(output.question)),
                               !.reply = output.reply]]
  BY DEF StartReplay, ReadOutput
<1>2. output \in outputs /\ output.question = question
  BY <1>1
<1>3. clock' \in 0 .. MaxClock /\ clock <= clock' /\ minted \in Nat /\ clock \in Nat
  BY ReadingsAreLater DEF StartReplay, Inductive, Types
<1>4. PICK ids : ids = Completed(question)
  OBVIOUS
<1>5. PICK docs : docs = Evidence(ids)
  OBVIOUS
<1>6. PICK reply : reply = output.reply
  OBVIOUS
<1>7. reply # 0 /\ docs = output.asked /\ AnswersTo(reply, docs)
  BY <1>1, <1>2, <1>4, <1>5, <1>6 DEF Rebuilt, Inductive, OutputsHaveTheirOrigin
<1>8. ids \in SUBSET RunIds /\ docs \in SUBSET Docs
  BY <1>4, <1>5 DEF Completed, Evidence, Inductive, Types, RunType
<1>9. reply \in Nat
  BY <1>2, <1>6 DEF Inductive, OutputsHaveTheirOrigin
<1>10. PICK j : j = [Idle EXCEPT !.question = question, !.now = clock',
                                 !.attempt = minted + 1, !.ids = ids,
                                 !.docs = docs, !.reply = reply]
  OBVIOUS
<1>11. /\ j \in JobType /\ j.attempt = minted + 1 /\ j.now = clock' /\ j.question = question
       /\ j.ids = ids /\ j.docs = docs /\ j.reply = reply
  <2>1. PICK now \in 0 .. MaxClock, attempt \in Nat : now = clock' /\ attempt = minted + 1
    BY <1>3
  <2>2. j = [Idle EXCEPT !.question = question, !.now = now, !.attempt = attempt,
                         !.ids = ids, !.docs = docs, !.reply = reply]
    BY <1>10, <2>1
  <2>3. /\ j \in JobType /\ j.attempt = attempt /\ j.now = now /\ j.question = question
        /\ j.ids = ids /\ j.docs = docs /\ j.reply = reply
    BY <1>8, <1>9, <2>2, Blank DEF JobType
  <2> QED
    BY <2>1, <2>3
<1>12. job' = [job EXCEPT ![p] = j] /\ pc' = [pc EXCEPT ![p] = "reply"]
  BY <1>1, <1>2, <1>4, <1>5, <1>6, <1>10 DEF StartReplay
<1>13. UNCHANGED <<runs, ledger, outputs, pass>> /\ minted' = minted + 1 /\ p \in Replays
  BY DEF StartReplay, retrieval
<1>14. Types'
  BY <1>3, <1>11, <1>12, <1>13 DEF Inductive, Types, ledger
<1>15. Others(p) /\ job'[p] = j /\ pc'[p] = "reply"
  BY <1>12, <1>13 DEF Others, Inductive, Types
<1>16. Numbered(pc[p], job[p])'
  BY <1>3, <1>11, <1>13, <1>15 DEF Numbered
<1>17. Retrieving(pc[p], pass[p], job[p])'
  BY <1>15 DEF Retrieving
<1>18. Judged(p, "reply", j)'
  <2>1. /\ ids \subseteq Completed(question)' /\ docs \subseteq Evidence(ids)'
        /\ \A i \in ids : runs'[i] = runs[i] /\ i \in DOMAIN runs
    BY <1>4, <1>5, <1>13 DEF Completed, Evidence
  <2>2. \A i \in ids : runs'[i].at <= j.now
    BY <1>3, <1>11, <2>1 DEF Inductive, RunsAreDated, Types, RunType
  <2>3. AnswersTo(reply, docs)'
    BY <1>7, <1>13 DEF AnswersTo
  <2> QED
    BY <1>7, <1>11, <1>13, <2>1, <2>2, <2>3 DEF Judged, Judging, Backed
<1>19. ProcessKnows(p)'
  BY <1>15, <1>16, <1>17, <1>18 DEF ProcessKnows
<1>20. minted <= minted' /\ minted < minted + 1
  BY <1>3, <1>13
<1> QED
  BY <1>3, <1>11, <1>13, <1>14, <1>15, <1>19, <1>20, FreshStep

-----------------------------------------------------------------------------
(* Steps from evidence to file.                                            *)

\* Such a step of p gives it a place and a job.
LEMMA WorkStep ==
  ASSUME Inductive, NEW p \in Procs, NEW at \in Judging, NEW j \in JobType,
         pc' = [pc EXCEPT ![p] = at], job' = [job EXCEPT ![p] = j],
         j.attempt = job[p].attempt, j.now = job[p].now, j.question = job[p].question,
         pc[p] \in Active,
         pass' \in [Procs -> PassType],
         \A q \in Procs \ {p} : pass'[q] = pass[q],
         checkpoints' \in [Questions -> [at : 0 .. MaxClock, ids : SUBSET RunIds]],
         UNCHANGED <<runs, clock, minted>>, outputs \subseteq outputs', Stored,
         Judged(p, at, j)'
  PROVE  Inductive'
<1>1. Types'
  BY DEF Inductive, Types, Judging
<1>2. Others(p) /\ pc'[p] = at /\ job'[p] = j
  BY DEF Others, Inductive, Types
<1>3. Numbered(at, j)' /\ at \notin {"research", "retrieve"}
  BY DEF Inductive, ProcessKnows, Numbered, Judging
<1>4. ProcessKnows(p)'
  BY <1>2, <1>3 DEF ProcessKnows, Retrieving
<1> QED
  BY <1>1, <1>2, <1>4, PlainStep

LEMMA ReuseStep ==
  ASSUME Inductive, NEW p \in Procs, Reuse(p)
  PROVE  Inductive'
<1>1. PICK question \in Questions, k \in JobType :
        k = job[p] /\ question = k.question /\ k.now \in 0 .. MaxClock
  BY DEF Inductive, Types, JobType, ProcessKnows, Numbered, Active, Reuse
<1>2. PICK ids \in SUBSET RunIds, date \in 0 .. MaxClock :
        ids = checkpoints[question].ids /\ date = checkpoints[question].at
  BY DEF Inductive, Types
<1>3. PICK docs : docs = Evidence(ids)
  OBVIOUS
<1>4. docs \in SUBSET Docs /\ docs # {} /\ k.now - date \in 0 .. Window
  <2>1. ids \subseteq DOMAIN runs
    BY <1>2 DEF Inductive, CheckpointsNameTheirRuns, Completed
  <2>2. docs \in SUBSET Docs
    BY <1>3, <2>1 DEF Evidence, Inductive, Types, RunType
  <2> QED
    BY <1>1, <1>2, <1>3, <2>2 DEF Reuse, Reusable, Current
<1>5. PICK j : j = [k EXCEPT !.ids = ids, !.docs = docs]
  OBVIOUS
<1>6. /\ j \in JobType /\ j.attempt = k.attempt /\ j.now = k.now /\ j.question = question
      /\ j.ids = ids /\ j.docs = docs
  BY <1>1, <1>4, <1>5 DEF JobType
<1>7. job' = [job EXCEPT ![p] = j] /\ pc' = [pc EXCEPT ![p] = "evidence"]
  BY <1>1, <1>2, <1>3, <1>5 DEF Reuse
<1>8. /\ UNCHANGED <<runs, clock, minted, pass, checkpoints, outputs, records>>
      /\ pc[p] = "research"
  BY DEF Reuse, retrieval, counts, ledger
<1>9. Judged(p, "evidence", j)'
  <2>1. p \notin Replays
    BY <1>8 DEF Inductive, ProcessKnows, Judged
  <2>2. /\ ids \subseteq Completed(question)
        /\ \A i \in ids : runs[i].at = date
    BY <1>2 DEF Inductive, CheckpointsNameTheirRuns
  <2>3. ids \subseteq Completed(question)' /\ docs = Evidence(ids)'
    BY <1>3, <1>8, <2>2 DEF Completed, Evidence
  <2>4. \A i \in ids : runs'[i].at <= j.now /\ j.now - runs'[i].at <= Window
    BY <1>1, <1>4, <1>6, <1>8, <2>2, AttemptBounds
  <2> QED
    BY <1>4, <1>6, <2>1, <2>3, <2>4 DEF Judged, Judging, Backed
<1>11. Stored
  BY <1>8 DEF Stored
<1> QED
  BY <1>1, <1>6, <1>7, <1>8, <1>9, <1>11, WorkStep DEF Inductive, Types, Active, Judging

LEMMA CheckpointStep ==
  ASSUME Inductive, NEW p \in Procs, Checkpoint(p)
  PROVE  Inductive'
<1>1. PICK question \in Questions, k \in JobType :
        k = job[p] /\ question = k.question /\ k.now \in 0 .. MaxClock
  BY DEF Inductive, Types, JobType, ProcessKnows, Numbered, Active, Checkpoint
<1>2. PICK s \in PassType : s = pass[p]
  BY DEF Inductive, Types
<1>3. PICK ids \in SUBSET RunIds : ids = s.ids
  BY DEF PassType
<1>4. PICK docs : docs = Evidence(ids)
  OBVIOUS
<1>5. PICK troubled \in BOOLEAN : troubled = Troubled(ids)
  BY DEF Troubled
<1>6. pc[p] = "retrieve" /\ Retrieving("retrieve", s, k) /\ p \notin Replays
  BY <1>1, <1>2 DEF Checkpoint, Inductive, ProcessKnows, Judged
<1>7. /\ ids \subseteq Completed(question)
      /\ \A i \in ids : runs[i].at = k.now
  BY <1>1, <1>3, <1>6 DEF Retrieving
<1>8. docs \in SUBSET Docs
  BY <1>4, <1>7 DEF Completed, Evidence, Inductive, Types, RunType
<1>9. PICK j : j = [k EXCEPT !.ids = ids, !.troubled = troubled, !.docs = docs]
  OBVIOUS
<1>10. /\ j \in JobType /\ j.attempt = k.attempt /\ j.now = k.now /\ j.question = question
       /\ j.ids = ids /\ j.docs = docs /\ j.troubled = troubled
  BY <1>1, <1>8, <1>9 DEF JobType
<1>11. job' = [job EXCEPT ![p] = j] /\ pc' = [pc EXCEPT ![p] = "evidence"]
  BY <1>1, <1>2, <1>3, <1>4, <1>5, <1>9 DEF Checkpoint
<1>12. UNCHANGED <<runs, clock, minted, outputs, records>>
  BY DEF Checkpoint, counts
<1>13. PICK t : t = [Off EXCEPT !.known = s.known, !.unpriced = s.unpriced]
  OBVIOUS
<1>14. t \in PassType /\ pass' = [pass EXCEPT ![p] = t]
  <2>1. PICK known \in Nat, unpriced \in Nat : known = s.known /\ unpriced = s.unpriced
    BY DEF PassType
  <2> QED
    BY <1>2, <1>13, <2>1, Blank DEF PassType, Checkpoint
<1>15. pass' \in [Procs -> PassType] /\ \A q \in Procs \ {p} : pass'[q] = pass[q]
  BY <1>14 DEF Inductive, Types
<1>16. checkpoints' = [checkpoints EXCEPT ![question] = [at |-> k.now, ids |-> ids]]
  BY <1>1, <1>2, <1>3 DEF Checkpoint
<1>17. checkpoints' \in [Questions -> [at : 0 .. MaxClock, ids : SUBSET RunIds]]
  BY <1>1, <1>16 DEF Inductive, Types
<1>18. CheckpointsNameTheirRuns'
  <2>1. ASSUME NEW q \in Questions
        PROVE  /\ checkpoints'[q].ids \subseteq Completed(q)
               /\ \A i \in checkpoints'[q].ids : runs[i].at = checkpoints'[q].at
    BY <1>7, <1>16, <2>1 DEF Inductive, Types, CheckpointsNameTheirRuns
  <2> QED
    BY <1>12, <2>1 DEF CheckpointsNameTheirRuns, Completed
<1>19. Judged(p, "evidence", j)'
  <2>1. /\ ids \subseteq Completed(question)' /\ docs = Evidence(ids)'
        /\ troubled = Troubled(ids)'
    BY <1>4, <1>5, <1>7, <1>12 DEF Completed, Evidence, Troubled
  <2>2. \A i \in ids : runs'[i].at <= j.now /\ j.now - runs'[i].at <= Window
    BY <1>1, <1>7, <1>10, <1>12, AttemptBounds
  <2> QED
    BY <1>6, <1>10, <2>1, <2>2 DEF Judged, Judging, Backed
<1>21. Stored
  BY <1>12, <1>18 DEF Stored
<1> QED
  BY <1>1, <1>6, <1>10, <1>11, <1>12, <1>15, <1>17, <1>19, <1>21, WorkStep
  DEF Active, Judging

LEMMA GoOnStep ==
  ASSUME Inductive, NEW p \in Procs, GoOn(p)
  PROVE  Inductive'
<1>1. PICK k \in JobType : k = job[p]
  BY DEF Inductive, Types
<1>2. pc[p] = "evidence" /\ Judged(p, "evidence", k)
  BY <1>1 DEF GoOn, Inductive, ProcessKnows
<1>3. PICK docs : docs = IF p \in Polls THEN k.docs \cap Usable ELSE k.docs
  OBVIOUS
<1>4. PICK final \in BOOLEAN :
        LET poor == IF k.docs = {} THEN Poor(p, final) ELSE "no" IN
        /\ docs # {} \/ poor # "no"
        /\ job' = [job EXCEPT ![p].poor = poor, ![p].docs = docs,
                              ![p].absent = /\ p \in Polls
                                            /\ k.question \in Naming
                                            /\ docs \cap Official = {}]
  BY <1>1, <1>3 DEF GoOn
<1>5. PICK poor : poor = IF k.docs = {} THEN Poor(p, final) ELSE "no"
  OBVIOUS
<1>6. PICK absent \in BOOLEAN :
        absent = (p \in Polls /\ k.question \in Naming /\ docs \cap Official = {})
  OBVIOUS
<1>7. poor \in {"no", "no_documents", "provider_failed_exhausted"}
  BY <1>1, <1>5 DEF Poor, JobType
<1>8. docs \in SUBSET Docs /\ docs \subseteq k.docs
  BY <1>1, <1>3 DEF JobType
<1>9. PICK j : j = [k EXCEPT !.poor = poor, !.docs = docs, !.absent = absent]
  OBVIOUS
<1>10. /\ j \in JobType /\ j.attempt = k.attempt /\ j.now = k.now
       /\ j.question = k.question /\ j.ids = k.ids /\ j.docs = docs /\ j.poor = poor
  BY <1>1, <1>7, <1>8, <1>9 DEF JobType
<1>11. job' = [job EXCEPT ![p] = j] /\ pc' = [pc EXCEPT ![p] = "model"]
  <2>1. job' = [job EXCEPT ![p].poor = poor, ![p].docs = docs, ![p].absent = absent]
    BY <1>4, <1>5, <1>6, Zenon
  <2> QED
    BY <1>1, <1>9, <2>1 DEF GoOn
<1>12. UNCHANGED <<runs, clock, minted, pass, checkpoints, outputs, records>>
  BY DEF GoOn, retrieval, counts, ledger
<1>13. Explained(k.ids, docs, {poor})
  <2>1. ASSUME docs = {}
        PROVE  k.docs = {} /\ poor # "no" /\ poor = Poor(p, final)
    BY <1>4, <1>5, <2>1
  <2>2. docs = {} => k.troubled = Troubled(k.ids)
    BY <1>2, <2>1 DEF Judged
  <2> QED
    BY <1>1, <2>1, <2>2 DEF Explained, Poor
<1>14. Judged(p, "model", j)'
  <2>1. Backed(k.ids, k.docs, k.question, k.now, TRUE) /\ p \notin Replays
    BY <1>2 DEF Judged, Judging, Backed
  <2>2. Backed(k.ids, docs, k.question, k.now, TRUE)
    BY <1>8, <2>1 DEF Backed
  <2>3. /\ Backed(k.ids, docs, k.question, k.now, TRUE)'
        /\ Explained(k.ids, docs, {poor})'
    BY <1>12, <1>13, <2>2 DEF Backed, Explained, Completed, Evidence, Troubled
  <2> QED
    BY <1>10, <2>1, <2>3 DEF Judged, Judging, Backed
<1>16. Stored
  BY <1>12 DEF Stored
<1> QED
  BY <1>1, <1>2, <1>10, <1>11, <1>12, <1>14, <1>16, WorkStep
  DEF Inductive, Types, Active, Judging


LEMMA ModelCallStep ==
  ASSUME Inductive, NEW p \in Procs, ModelCall(p)
  PROVE  Inductive'
<1>1. PICK k \in JobType : k = job[p]
  BY DEF Inductive, Types
<1>2. pc[p] = "model" /\ Judged(p, "model", k)
  BY <1>1 DEF ModelCall, Inductive, ProcessKnows
<1>3. PICK priced \in Nat, reply \in {0, k.attempt}, at \in {"model", "reply"} :
        /\ job' = [job EXCEPT ![p].tries = @ + 1, ![p].priced = @ + priced,
                              ![p].reply = reply]
        /\ pc' = [pc EXCEPT ![p] = at]
  <2>1. Prices \subseteq Nat
    BY RetrievalSwitches
  <2> QED
    BY <1>1, <2>1 DEF ModelCall
<1>4. PICK tries \in Nat, cost \in Nat : tries = k.tries + 1 /\ cost = k.priced + priced
  BY DEF JobType
<1>5. PICK j : j = [k EXCEPT !.tries = tries, !.priced = cost, !.reply = reply]
  OBVIOUS
<1>6. k.attempt \in Nat
  BY DEF JobType
<1>7. /\ j \in JobType /\ j.attempt = k.attempt /\ j.now = k.now
      /\ j.question = k.question /\ j.ids = k.ids /\ j.docs = k.docs
      /\ j.poor = k.poor /\ j.reply = reply
  <2>1. reply \in Nat
    BY <1>3, <1>6
  <2> QED
    BY <1>5, <2>1 DEF JobType
<1>8. job' = [job EXCEPT ![p] = j]
  BY <1>1, <1>3, <1>4, <1>5
<1>9. UNCHANGED <<runs, clock, minted, pass, checkpoints, outputs, records>>
  BY DEF ModelCall, retrieval, counts, ledger
<1>10. Judged(p, at, j)'
  <2>1. p \notin Replays /\ Backed(k.ids, k.docs, k.question, k.now, TRUE)
        /\ Explained(k.ids, k.docs, {k.poor})
    BY <1>2 DEF Judged, Judging, Backed
  <2>2. /\ Backed(k.ids, k.docs, k.question, k.now, TRUE)'
        /\ Explained(k.ids, k.docs, {k.poor})'
    BY <1>9, <2>1 DEF Backed, Explained, Completed, Evidence, Troubled
  <2> QED
    BY <1>7, <2>1, <2>2 DEF Judged, Judging, Backed
<1>11. Stored
  BY <1>9 DEF Stored
<1>12. /\ at \in Judging /\ pc[p] \in Active /\ k.attempt = job[p].attempt
       /\ k.now = job[p].now /\ k.question = job[p].question
       /\ pass' \in [Procs -> PassType] /\ \A q \in Procs \ {p} : pass'[q] = pass[q]
       /\ checkpoints' \in [Questions -> [at : 0 .. MaxClock, ids : SUBSET RunIds]]
       /\ outputs \subseteq outputs'
  BY <1>1, <1>2, <1>9 DEF Inductive, Types, Active, Judging
<1> QED
  BY <1>3, <1>7, <1>8, <1>9, <1>10, <1>11, <1>12, WorkStep

\* The reply is filed, or it is not.
LEMMA FileReplyStep ==
  ASSUME Inductive, NEW p \in Procs, FileReply(p) \/ FileReplyFails(p)
  PROVE  Inductive'
<1>1. PICK k \in JobType : k = job[p]
  BY DEF Inductive, Types
<1>2. pc[p] = "reply" /\ Judged(p, "reply", k)
  BY <1>1 DEF FileReply, FileReplyFails, Inductive, ProcessKnows
<1>3. PICK filed \in {"off", "written", "failed"},
           output \in {[attempt |-> k.attempt, question |-> k.question,
                        asked |-> k.docs, reply |-> k.reply]} :
        /\ job' = [job EXCEPT ![p].filed = filed]
        /\ pc' = [pc EXCEPT ![p] = "filed"]
        /\ outputs' \in {outputs, outputs \cup {output}}
        /\ filed = "written" => output \in outputs'
  BY <1>1 DEF FileReply, FileReplyFails
<1>4. PICK j : j = [k EXCEPT !.filed = filed]
  OBVIOUS
<1>5. /\ j \in JobType /\ j.attempt = k.attempt /\ j.now = k.now
      /\ j.question = k.question /\ j.ids = k.ids /\ j.docs = k.docs
      /\ j.poor = k.poor /\ j.reply = k.reply /\ j.filed = filed
  BY <1>4 DEF JobType
<1>6. job' = [job EXCEPT ![p] = j]
  BY <1>1, <1>3, <1>4
<1>7. UNCHANGED <<runs, clock, minted, pass, checkpoints, records>>
  BY DEF FileReply, FileReplyFails, retrieval, counts, ledger
<1>8. outputs \subseteq outputs' /\ \A o \in outputs' : o \in outputs \/ o = output
  BY <1>3
<1>9. Judged(p, "filed", j)'
  <2>1. Backed(k.ids, k.docs, k.question, k.now, p \notin Replays)'
    <3>1. Backed(k.ids, k.docs, k.question, k.now, p \notin Replays)
      BY <1>2 DEF Judged, Judging
    <3> QED
      BY <1>7, <3>1 DEF Backed, Completed, Evidence
  <2>2. p \notin Replays => Explained(k.ids, k.docs, {k.poor})'
    BY <1>2, <1>7 DEF Judged, Explained, Troubled
  <2>3. filed = "written" => InFile(k.attempt, k.docs, k.reply)'
    BY <1>3 DEF InFile
  <2>4. AnswersTo(k.reply, k.docs) => AnswersTo(k.reply, k.docs)'
    BY <1>8, FilesKept
  <2> QED
    BY <1>2, <1>5, <2>1, <2>2, <2>3, <2>4 DEF Judged, Judging
<1>10. OutputsHaveTheirOrigin'
  <2>1. k.reply \in Nat
    BY DEF JobType
  <2>2. ASSUME NEW o \in outputs, o.reply # 0 PROVE AnswersTo(o.reply, o.asked)'
    BY <1>8, <2>2, FilesKept DEF Inductive, OutputsHaveTheirOrigin
  <2>3. ASSUME output \in outputs', k.reply # 0 PROVE AnswersTo(k.reply, k.docs)'
    <3>1. CASE p \in Replays
      BY <1>2, <1>8, <3>1, FilesKept DEF Judged
    <3>2. CASE p \notin Replays
      <4>1. k.reply = k.attempt
        BY <1>2, <2>3, <3>2 DEF Judged
      <4> QED
        BY <1>3, <2>3, <4>1 DEF AnswersTo
    <3> QED
      BY <3>1, <3>2
  <2>4. output.reply = k.reply /\ output.asked = k.docs
    BY <1>3
  <2> QED
    BY <1>8, <2>1, <2>2, <2>3, <2>4 DEF OutputsHaveTheirOrigin, Inductive
<1>11. Stored
  BY <1>7, <1>10 DEF Stored
<1> QED
  BY <1>1, <1>2, <1>3, <1>5, <1>6, <1>7, <1>8, <1>9, <1>11, WorkStep
  DEF Inductive, Types, Active, Judging

-----------------------------------------------------------------------------
(* Steps of a retrieval.                                                   *)

\* p's retrieval becomes t, and the runs change as p may change them.
LEMMA PassStep ==
  ASSUME Inductive, NEW p \in Procs, NEW t \in PassType,
         pc[p] = "retrieve", pass' = [pass EXCEPT ![p] = t],
         UNCHANGED <<ledger, outputs, pc, job, counts>>,
         \A i \in DOMAIN runs' : i \in RunIds /\ runs'[i] \in RunType,
         RunsKept(p), RunsAreDated',
         Retrieving("retrieve", t, job[p])'
  PROVE  Inductive'
<1>1. Types'
  BY DEF Inductive, Types, ledger, counts
<1>2. pass'[p] = t /\ Others(p)
  BY DEF Others, Inductive, Types
<1>3. Moves(p)
  BY <1>2 DEF Moves, counts, Inductive, Types
<1>4. AttemptsAreOwn'
  BY DEF Inductive, AttemptsAreOwn
<1>5. ProcessKnows(p)'
  <2>1. PICK k : k = job[p] /\ k = job'[p]
    OBVIOUS
  <2>2. Judged(p, "retrieve", k)'
    BY <1>3, <2>1, JudgedKept DEF Inductive, ProcessKnows
  <2>3. Numbered("retrieve", k)'
    BY <2>1 DEF Inductive, ProcessKnows, Numbered, counts
  <2> QED
    BY <1>2, <2>1, <2>2, <2>3 DEF ProcessKnows
<1>6. Stored
  BY DEF Stored, ledger
<1> QED
  BY <1>1, <1>3, <1>4, <1>5, <1>6, StepInductive

\* The next call, or the end: no run changes.
LEMMA CallStep ==
  ASSUME Inductive, NEW p \in Procs, NEW s, s = pass[p], NEW t \in PassType,
         pc[p] = "retrieve", pass' = [pass EXCEPT ![p] = t],
         UNCHANGED <<runs, ledger, outputs, pc, job, counts>>,
         t.attempt = s.attempt, t.question = s.question, t.now = s.now,
         t.provider = s.provider, t.ids = s.ids,
         t.stage # "open",
         t.stage \in {"call", "store"} => s.stage = "call"
  PROVE  Inductive'
<1>1. RunsKept(p) /\ RunsAreDated'
  BY DEF RunsKept, Inductive, RunsAreDated, counts
<1>2. PICK k : k = job[p]
  OBVIOUS
<1>3. Retrieving("retrieve", s, k)
  BY <1>2 DEF Inductive, ProcessKnows
<1>4. Retrieving("retrieve", t, k)
  BY <1>3 DEF Retrieving
<1>5. Retrieving("retrieve", t, k)'
  BY <1>4 DEF Retrieving, Completed
<1>6. \A i \in DOMAIN runs' : i \in RunIds /\ runs'[i] \in RunType
  BY DEF Inductive, Types
<1> QED
  BY <1>1, <1>2, <1>5, <1>6, PassStep

\* Only the account differs once the calls are billed.
LEMMA BilledIsPass ==
  ASSUME NEW p, pass[p] \in PassType
  PROVE  /\ Billed(p) \in PassType
         /\ Billed(p).attempt = pass[p].attempt /\ Billed(p).question = pass[p].question
         /\ Billed(p).now = pass[p].now /\ Billed(p).provider = pass[p].provider
         /\ Billed(p).ids = pass[p].ids /\ Billed(p).lost = pass[p].lost
<1>1. PICK s \in PassType : s = pass[p]
  OBVIOUS
<1>2. Cost(s) # None => Cost(s) \in Nat
  BY DEF Cost, PassType, Providers
<1>3. PICK known \in Nat, unpriced \in Nat :
        Billed(p) = [s EXCEPT !.known = known, !.unpriced = unpriced]
  <2>1. s.known \in Nat /\ s.unpriced \in Nat /\ s.calls \in Nat
    BY DEF PassType
  <2>2. CASE p \in Polls
    <3>1. Billed(p) = s
      BY <1>1, <2>2 DEF Billed
    <3>2. s = [s EXCEPT !.known = s.known, !.unpriced = s.unpriced]
      BY DEF PassType
    <3> QED
      BY <2>1, <3>1, <3>2
  <2>3. CASE p \notin Polls /\ Cost(s) # None
    <3>1. PICK known \in Nat : known = s.known + Cost(s)
      BY <1>2, <2>1, <2>3
    <3>2. Billed(p) = [s EXCEPT !.known = known]
      BY <1>1, <2>3, <3>1 DEF Billed
    <3>3. [s EXCEPT !.known = known] = [s EXCEPT !.known = known, !.unpriced = s.unpriced]
      BY DEF PassType
    <3> QED
      BY <2>1, <3>2, <3>3
  <2>4. CASE p \notin Polls /\ Cost(s) = None
    <3>1. PICK unpriced \in Nat : unpriced = s.unpriced + s.calls
      BY <2>1
    <3>2. Billed(p) = [s EXCEPT !.unpriced = unpriced]
      BY <1>1, <2>4, <3>1 DEF Billed
    <3>3. [s EXCEPT !.unpriced = unpriced]
            = [s EXCEPT !.known = s.known, !.unpriced = unpriced]
      BY DEF PassType
    <3> QED
      BY <2>1, <3>2, <3>3
  <2> QED
    BY <2>2, <2>3, <2>4
<1> QED
  BY <1>1, <1>3 DEF PassType

LEMMA BuyStartStep ==
  ASSUME Inductive, NEW p \in Procs, Buy(p)
  PROVE  Inductive'
<1>1. PICK k \in JobType : k = job[p]
  BY DEF Inductive, Types
<1>2. PICK question \in Questions, attempt \in Nat, now \in 0 .. MaxClock :
        question = k.question /\ attempt = k.attempt /\ now = k.now
  BY <1>1 DEF Inductive, ProcessKnows, Numbered, JobType, Active, Buy
<1>3. PICK t : t = Begun(attempt, question, now)
  OBVIOUS
<1>4. /\ t \in PassType /\ t.stage = "open" /\ t.attempt = attempt
      /\ t.question = question /\ t.now = now /\ t.provider = "asknews" /\ t.ids = {}
  BY <1>3, Blank DEF Begun, PassType, Off
<1>5. pass' = [pass EXCEPT ![p] = t] /\ pc' = [pc EXCEPT ![p] = "retrieve"]
  BY <1>1, <1>2, <1>3 DEF Buy
<1>6. /\ UNCHANGED <<runs, ledger, outputs, job, counts>>
      /\ pc[p] = "research"
  BY DEF Buy
<1>7. Types'
  BY <1>4, <1>5, <1>6 DEF Inductive, Types, ledger, counts
<1>8. Others(p) /\ pass'[p] = t /\ pc'[p] = "retrieve"
  BY <1>5, <1>6 DEF Others, Inductive, Types
<1>9. p \notin Replays
  BY <1>6 DEF Inductive, ProcessKnows, Judged
<1>10. \A i \in DOMAIN runs : i[1] # attempt
  BY <1>1, <1>2, <1>6 DEF Inductive, ProcessKnows, Retrieving
<1>11. Retrieving("retrieve", t, k)'
  BY <1>2, <1>4, <1>6, <1>10 DEF Retrieving
<1>12. Numbered("retrieve", k)'
  BY <1>1, <1>6 DEF Inductive, ProcessKnows, Numbered, counts, Active
<1>13. ProcessKnows(p)'
  BY <1>1, <1>6, <1>8, <1>9, <1>11, <1>12 DEF ProcessKnows, Judged, Judging
<1>14. Stored
  BY <1>6 DEF Stored, ledger
<1> QED
  BY <1>6, <1>7, <1>8, <1>13, <1>14, PlainStep DEF counts


\* Calls, and what stops them.
LEMMA CallsStep ==
  ASSUME Inductive, NEW p \in Procs, BuyStep(p),
         \/ OpenRunFails(p) \/ Answered(p) \/ CallFails(p) \/ CapReached(p)
         \/ BudgetStops(p) \/ WebRefused(p) \/ PersistRunFails(p) \/ LoadPacketFails(p)
  PROVE  Inductive'
<1>1. PICK s \in PassType : s = pass[p]
  BY DEF Inductive, Types
<1>2. /\ pc[p] = "retrieve" /\ UNCHANGED <<ledger, outputs, pc, job, counts>>
      /\ UNCHANGED runs
  BY DEF BuyStep, OpenRunFails, Answered, CallFails, CapReached, BudgetStops,
     WebRefused, PersistRunFails, LoadPacketFails
<1>3. CASE OpenRunFails(p) \/ CapReached(p) \/ BudgetStops(p) \/ WebRefused(p)
           \/ LoadPacketFails(p)
  <2>1. PICK stage \in {"refused", "paid", "store", "stopped", "packet"} :
          /\ pass' = [pass EXCEPT ![p].stage = stage]
          /\ stage = "store" => s.stage = "call"
    BY <1>1, <1>3 DEF OpenRunFails, CapReached, BudgetStops, WebRefused, LoadPacketFails
  <2>2. PICK t : t = [s EXCEPT !.stage = stage]
    OBVIOUS
  <2>3. /\ t \in PassType /\ t.stage = stage
        /\ t.attempt = s.attempt /\ t.question = s.question /\ t.now = s.now
        /\ t.provider = s.provider /\ t.ids = s.ids
    BY <1>1, <2>2 DEF PassType
  <2>4. pass' = [pass EXCEPT ![p] = t]
    BY <1>1, <2>1, <2>2
  <2> QED
    BY <1>1, <1>2, <2>1, <2>3, <2>4, CallStep
<1>4. CASE Answered(p) \/ CallFails(p)
  <2>0. Told(p, TRUE) \subseteq Nat /\ Told(p, FALSE) \subseteq Nat
    <3>1. s.provider \in Providers /\ Prices \subseteq Nat
      BY RetrievalSwitches DEF PassType
    <3> QED
      BY <1>1, <3>1 DEF Told, Providers
  <2>1. PICK priced \in Nat, docs \in SUBSET Docs, failed \in BOOLEAN,
             stage \in {"call", "store"} :
          pass' = [pass EXCEPT ![p] = [s EXCEPT !.calls = @ + 1, !.priced = @ + priced,
                                                !.docs = docs, !.failed = failed,
                                                !.stage = stage]]
    <3>1. s.docs \in SUBSET Docs /\ s.failed \in BOOLEAN
      BY DEF PassType
    <3>2. CASE Answered(p)
      <4>1. PICK found \in SUBSET Returns(p), priced \in Told(p, TRUE) :
              pass' = [pass EXCEPT
                         ![p].calls = @ + 1,
                         ![p].priced = @ + priced,
                         ![p].docs = @ \cup found,
                         ![p].stage = IF pass[p].calls + 1 = CallLimit(p)
                                        THEN "store" ELSE "call"]
        BY <3>2 DEF Answered
      <4>2. priced \in Nat
        BY <2>0, <4>1
      <4>3. PICK docs \in SUBSET Docs : docs = s.docs \cup found
        BY <3>1, <4>1, DocsAreClassified DEF Returns
      <4>4. PICK stage \in {"call", "store"} :
              stage = IF pass[p].calls + 1 = CallLimit(p) THEN "store" ELSE "call"
        OBVIOUS
      <4>5. pass' = [pass EXCEPT ![p] = [s EXCEPT !.calls = @ + 1, !.priced = @ + priced,
                                                  !.docs = docs, !.stage = stage]]
        BY <1>1, <4>1, <4>3, <4>4
      <4>6. [s EXCEPT !.calls = @ + 1, !.priced = @ + priced, !.docs = docs,
                      !.stage = stage]
              = [s EXCEPT !.calls = @ + 1, !.priced = @ + priced, !.docs = docs,
                          !.failed = s.failed, !.stage = stage]
        BY DEF PassType
      <4> QED
        BY <3>1, <4>2, <4>5, <4>6
    <3>3. CASE CallFails(p)
      <4>1. PICK priced \in Told(p, FALSE) :
              pass' = [pass EXCEPT ![p].calls = @ + 1, ![p].priced = @ + priced,
                                   ![p].failed = TRUE, ![p].stage = "store"]
        BY <3>3 DEF CallFails
      <4>2. priced \in Nat
        BY <2>0, <4>1
      <4>3. pass' = [pass EXCEPT ![p] = [s EXCEPT !.calls = @ + 1, !.priced = @ + priced,
                                                  !.failed = TRUE, !.stage = "store"]]
        BY <1>1, <4>1
      <4>4. [s EXCEPT !.calls = @ + 1, !.priced = @ + priced, !.failed = TRUE,
                      !.stage = "store"]
              = [s EXCEPT !.calls = @ + 1, !.priced = @ + priced, !.docs = s.docs,
                          !.failed = TRUE, !.stage = "store"]
        BY DEF PassType
      <4> QED
        BY <3>1, <4>2, <4>3, <4>4
    <3> QED
      BY <1>4, <3>2, <3>3
  <2>2. PICK calls \in Nat, cost \in Nat : calls = s.calls + 1 /\ cost = s.priced + priced
    BY DEF PassType
  <2>3. PICK t : t = [s EXCEPT !.calls = calls, !.priced = cost, !.docs = docs,
                               !.failed = failed, !.stage = stage]
    OBVIOUS
  <2>4. /\ t \in PassType /\ t.stage = stage
        /\ t.attempt = s.attempt /\ t.question = s.question /\ t.now = s.now
        /\ t.provider = s.provider /\ t.ids = s.ids
    BY <2>3 DEF PassType
  <2>5. pass' = [pass EXCEPT ![p] = t]
    BY <2>1, <2>2, <2>3
  <2>6. s.stage = "call"
    BY <1>1, <1>4 DEF Answered, CallFails
  <2> QED
    BY <1>1, <1>2, <2>4, <2>5, <2>6, CallStep
<1>5. CASE PersistRunFails(p)
  <2>1. PICK b \in PassType : b = Billed(p)
    BY <1>1, BilledIsPass
  <2>2. PICK t : t = [b EXCEPT !.stage = "paid"]
    OBVIOUS
  <2>3. /\ t \in PassType /\ t.stage = "paid"
        /\ t.attempt = b.attempt /\ t.question = b.question /\ t.now = b.now
        /\ t.provider = b.provider /\ t.ids = b.ids
    BY <2>2 DEF PassType
  <2>4. /\ b.attempt = s.attempt /\ b.question = s.question /\ b.now = s.now
        /\ b.provider = s.provider /\ b.ids = s.ids
    BY <1>1, <2>1, BilledIsPass
  <2>5. pass' = [pass EXCEPT ![p] = t]
    BY <1>5, <2>1, <2>2 DEF PersistRunFails
  <2> QED
    BY <1>1, <1>2, <2>3, <2>4, <2>5, CallStep
<1> QED
  BY <1>3, <1>4, <1>5

LEMMA OpenRunStep ==
  ASSUME Inductive, NEW p \in Procs, BuyStep(p), OpenRun(p)
  PROVE  Inductive'
<1>1. PICK s \in PassType : s = pass[p]
  BY DEF Inductive, Types
<1>2. pc[p] = "retrieve" /\ UNCHANGED <<ledger, outputs, pc, job, counts>>
  BY DEF BuyStep
<1>3. PICK k \in JobType : k = job[p]
  BY DEF Inductive, Types
<1>4. Retrieving("retrieve", s, k) /\ Numbered("retrieve", k)
  BY <1>1, <1>2, <1>3 DEF Inductive, ProcessKnows
<1>5. s.stage = "open" /\ s.attempt = k.attempt /\ s.question \in Questions
      /\ s.question = k.question /\ s.now = k.now
  BY <1>1, <1>4 DEF OpenRun, Retrieving, Numbered, Active
<1>6. PICK run \in RunIds : run = <<s.attempt, s.provider>> /\ run[1] = s.attempt
  <2>1. s.attempt \in Nat /\ s.provider \in Providers
    BY DEF PassType
  <2>2. <<s.attempt, s.provider>> \in RunIds
    BY <2>1 DEF RunIds
  <2>3. <<s.attempt, s.provider>>[1] = s.attempt
    OBVIOUS
  <2> QED
    BY <2>2, <2>3, Zenon
<1>7. PICK row : row = [question |-> s.question, at |-> s.now, complete |-> FALSE,
                        docs |-> {}, failed |-> FALSE, paper |-> FALSE]
  OBVIOUS
<1>8. row \in RunType /\ ~row.complete /\ row.question = s.question /\ row.at = s.now
  BY <1>5, <1>7 DEF RunType, PassType
<1>9. runs' = [i \in DOMAIN runs \cup {run} |-> IF i = run THEN row ELSE runs[i]]
  BY <1>1, <1>6, <1>7 DEF OpenRun, Run
<1>10. run \notin DOMAIN runs
  BY <1>4, <1>5, <1>6 DEF Retrieving
<1>11. /\ DOMAIN runs' = DOMAIN runs \cup {run} /\ runs'[run] = row
       /\ \A i \in DOMAIN runs : runs'[i] = runs[i]
  BY <1>9, <1>10
<1>12. RunsKept(p)
  BY <1>3, <1>5, <1>6, <1>11 DEF RunsKept
<1>13. RunsAreDated'
  <2>1. k.attempt <= minted /\ k.now <= clock
    BY <1>4 DEF Numbered
  <2> QED
    BY <1>2, <1>5, <1>6, <1>8, <1>11, <2>1 DEF counts, RunsAreDated, Inductive
<1>14. \A i \in DOMAIN runs' : i \in RunIds /\ runs'[i] \in RunType
  BY <1>6, <1>8, <1>11 DEF Inductive, Types
<1>15. PICK t : t = [s EXCEPT !.stage = "call"]
  OBVIOUS
<1>16. /\ t \in PassType /\ t.stage = "call" /\ t.attempt = s.attempt
       /\ t.question = s.question /\ t.now = s.now /\ t.provider = s.provider
       /\ t.ids = s.ids
  BY <1>15 DEF PassType
<1>17. pass' = [pass EXCEPT ![p] = t]
  BY <1>1, <1>15 DEF OpenRun
<1>18. Retrieving("retrieve", t, k)'
  <2>1. t.ids \subseteq Completed(t.question)' /\ \A i \in t.ids : runs'[i].at = t.now
    BY <1>4, <1>12, <1>16, CompletedKept DEF Retrieving
  <2>2. t.provider = "asknews" => <<t.attempt, "exa">> \notin DOMAIN runs'
    BY <1>4, <1>5, <1>6, <1>11, <1>16 DEF Retrieving
  <2> QED
    BY <1>5, <1>6, <1>8, <1>11, <1>16, <2>1, <2>2 DEF Retrieving
<1> QED
  BY <1>2, <1>3, <1>12, <1>13, <1>14, <1>16, <1>17, <1>18, PassStep

LEMMA PersistRunStep ==
  ASSUME Inductive, NEW p \in Procs, BuyStep(p), PersistRun(p)
  PROVE  Inductive'
<1>1. PICK s \in PassType : s = pass[p]
  BY DEF Inductive, Types
<1>2. pc[p] = "retrieve" /\ UNCHANGED <<ledger, outputs, pc, job, counts>>
  BY DEF BuyStep
<1>3. PICK k \in JobType : k = job[p]
  BY DEF Inductive, Types
<1>4. Retrieving("retrieve", s, k) /\ s.stage = "store"
  BY <1>1, <1>2, <1>3 DEF Inductive, ProcessKnows, PersistRun
<1>5. PICK run \in RunIds : run = <<s.attempt, s.provider>> /\ run[1] = s.attempt
  <2>1. s.attempt \in Nat /\ s.provider \in Providers
    BY DEF PassType
  <2>2. <<s.attempt, s.provider>> \in RunIds
    BY <2>1 DEF RunIds
  <2>3. <<s.attempt, s.provider>>[1] = s.attempt
    OBVIOUS
  <2> QED
    BY <2>2, <2>3, Zenon
<1>6. /\ run \in DOMAIN runs /\ ~runs[run].complete
      /\ runs[run].question = s.question /\ runs[run].at = s.now
      /\ s.attempt = k.attempt /\ s.question = k.question /\ s.now = k.now
      /\ s.ids \subseteq Completed(s.question) /\ \A i \in s.ids : runs[i].at = s.now
      /\ s.provider = "asknews" => <<s.attempt, "exa">> \notin DOMAIN runs
  BY <1>4, <1>5 DEF Retrieving
<1>7. PICK b \in PassType : b = Billed(p)
  BY <1>1, BilledIsPass
<1>8. /\ b.attempt = s.attempt /\ b.question = s.question /\ b.now = s.now
      /\ b.provider = s.provider /\ b.ids = s.ids
  BY <1>1, <1>7, BilledIsPass
<1>9. PICK paper \in BOOLEAN, stage \in {"open", "packet"}, lost \in BOOLEAN :
        /\ runs' = [runs EXCEPT ![run].complete = TRUE, ![run].docs = s.docs,
                                ![run].failed = s.failed, ![run].paper = paper]
        /\ pass' = [pass EXCEPT
                      ![p] = [b EXCEPT !.ids = @ \cup {run}, !.lost = lost,
                                       !.provider = "exa", !.calls = 0, !.priced = 0,
                                       !.docs = {}, !.failed = FALSE, !.stage = stage]]
        /\ stage = "open" => s.provider = "asknews"
  <2>1. PICK paper \in Filed(p) :
          /\ runs' = [runs EXCEPT ![run].complete = TRUE, ![run].docs = s.docs,
                                  ![run].failed = s.failed, ![run].paper = paper]
          /\ pass' = [pass EXCEPT
                        ![p] = [b EXCEPT !.ids = @ \cup {run},
                                         !.lost = @ \/ (Retain /\ ~paper),
                                         !.provider = "exa", !.calls = 0, !.priced = 0,
                                         !.docs = {}, !.failed = FALSE,
                                         !.stage = IF WebClient /\ WantsFallback(p)
                                                     THEN "open" ELSE "packet"]]
    BY <1>1, <1>5, <1>7 DEF PersistRun, Run
  <2>2. paper \in BOOLEAN
    BY <2>1, RetrievalSwitches DEF Filed
  <2>3. PICK lost \in BOOLEAN : lost = (b.lost \/ (Retain /\ ~paper))
    OBVIOUS
  <2>4. PICK stage \in {"open", "packet"} :
          stage = IF WebClient /\ WantsFallback(p) THEN "open" ELSE "packet"
    OBVIOUS
  <2>5. stage = "open" => s.provider = "asknews"
    BY <1>1, <2>4 DEF WantsFallback
  <2>6. [b EXCEPT !.ids = @ \cup {run}, !.lost = @ \/ (Retain /\ ~paper),
                  !.provider = "exa", !.calls = 0, !.priced = 0, !.docs = {},
                  !.failed = FALSE,
                  !.stage = IF WebClient /\ WantsFallback(p) THEN "open" ELSE "packet"]
          = [b EXCEPT !.ids = @ \cup {run}, !.lost = lost, !.provider = "exa",
                      !.calls = 0, !.priced = 0, !.docs = {}, !.failed = FALSE,
                      !.stage = stage]
    BY <2>3, <2>4, Zenon
  <2> QED
    BY <2>1, <2>2, <2>5, <2>6
<1>10. PICK row : row = [runs[run] EXCEPT !.complete = TRUE, !.docs = s.docs,
                                          !.failed = s.failed, !.paper = paper]
  OBVIOUS
<1>11. row \in RunType /\ row.complete /\ row.question = s.question /\ row.at = s.now
  <2>1. PICK old \in RunType : old = runs[run]
    BY <1>6 DEF Inductive, Types
  <2>2. s.docs \in SUBSET Docs /\ s.failed \in BOOLEAN
    BY DEF PassType
  <2> QED
    BY <1>6, <1>10, <2>1, <2>2 DEF RunType
<1>12. /\ DOMAIN runs' = DOMAIN runs /\ runs'[run] = row
       /\ \A i \in DOMAIN runs : i # run => runs'[i] = runs[i]
  BY <1>6, <1>9, <1>10
<1>13. RunsKept(p)
  BY <1>3, <1>5, <1>6, <1>12 DEF RunsKept
<1>14. RunsAreDated'
  BY <1>2, <1>6, <1>11, <1>12 DEF counts, RunsAreDated, Inductive
<1>15. \A i \in DOMAIN runs' : i \in RunIds /\ runs'[i] \in RunType
  BY <1>11, <1>12 DEF Inductive, Types
<1>16. PICK ids \in SUBSET RunIds : ids = s.ids \cup {run}
  BY DEF PassType
<1>17. PICK t : t = [b EXCEPT !.ids = ids, !.lost = lost, !.provider = "exa",
                             !.calls = 0, !.priced = 0, !.docs = {}, !.failed = FALSE,
                             !.stage = stage]
  OBVIOUS
<1>18. /\ t \in PassType /\ t.stage = stage /\ t.attempt = s.attempt
       /\ t.question = s.question /\ t.now = s.now /\ t.provider = "exa" /\ t.ids = ids
  BY <1>8, <1>17 DEF PassType, Providers
<1>19. pass' = [pass EXCEPT ![p] = t]
  BY <1>8, <1>9, <1>16, <1>17
<1>20. Retrieving("retrieve", t, k)'
  <2>1. s.ids \subseteq Completed(s.question)' /\ \A i \in s.ids : runs'[i].at = s.now
    BY <1>6, <1>13, CompletedKept
  <2>2. run \in Completed(s.question)' /\ runs'[run].at = s.now
    BY <1>6, <1>11, <1>12 DEF Completed
  <2>3. stage = "open" => <<t.attempt, "exa">> \notin DOMAIN runs'
    BY <1>6, <1>9, <1>12, <1>18
  <2> QED
    BY <1>6, <1>16, <1>18, <2>1, <2>2, <2>3 DEF Retrieving
<1> QED
  BY <1>2, <1>3, <1>13, <1>14, <1>15, <1>18, <1>19, <1>20, PassStep

LEMMA BuyStepStep ==
  ASSUME Inductive, NEW p \in Procs, BuyStep(p)
  PROVE  Inductive'
BY CallsStep, OpenRunStep, PersistRunStep DEF BuyStep, Retrieve

-----------------------------------------------------------------------------
LEMMA NextStep ==
  ASSUME Inductive, Next
  PROVE  Inductive'
<1>1. PICK p \in Procs :
        Start(p) \/ Research(p) \/ Judge(p) \/ Generate(p) \/ Crash(p)
  BY DEF Next
<1>2. CASE Start(p)
  BY <1>2, StartBatchStep, TakeQuestionStep, EndSteps, StartPollStep, StartReplayStep
  DEF Start
<1>3. CASE Research(p)
  BY <1>3, EndSteps, ReuseStep, BuyStartStep, BuyStepStep, CheckpointStep DEF Research
<1>4. CASE Judge(p)
  BY <1>4, GoOnStep, EndSteps DEF Judge
<1>5. CASE Generate(p)
  BY <1>5, EndSteps, ModelCallStep, FileReplyStep, RecordStep DEF Generate
<1>6. CASE Crash(p)
  BY <1>6, EndSteps
<1> QED
  BY <1>1, <1>2, <1>3, <1>4, <1>5, <1>6

LEMMA StutterStep ==
  ASSUME Inductive, UNCHANGED vars
  PROVE  Inductive'
<1>1. UNCHANGED <<runs, pass, checkpoints, records, outputs, pc, job, clock, minted>>
  BY DEF vars, retrieval, ledger, counts
<1>2. /\ \A q : Completed(q)' = Completed(q)
      /\ \A ids : Evidence(ids)' = Evidence(ids) /\ Troubled(ids)' = Troubled(ids)
  BY <1>1 DEF Completed, Evidence, Troubled
<1>3. Types' /\ AttemptsAreOwn' /\ RunsAreDated'
  BY <1>1 DEF Inductive, Types, AttemptsAreOwn, RunsAreDated
<1>4. CheckpointsNameTheirRuns' /\ OutputsHaveTheirOrigin'
  BY <1>1, <1>2
  DEF Inductive, CheckpointsNameTheirRuns, OutputsHaveTheirOrigin, AnswersTo
<1>5. ASSUME NEW p \in Procs PROVE ProcessKnows(p)'
  <2>1. PICK at, s, j : at = pc[p] /\ s = pass[p] /\ j = job[p]
    OBVIOUS
  <2>2. Numbered(at, j) /\ Retrieving(at, s, j) /\ Judged(p, at, j)
    BY <1>5, <2>1 DEF Inductive, ProcessKnows
  <2>3. Numbered(at, j)' /\ Retrieving(at, s, j)'
    BY <1>1, <1>2, <2>2 DEF Numbered, Retrieving
  <2>4. Judged(p, at, j)'
    BY <1>1, <1>2, <2>2 DEF Judged, Backed, Explained, InFile, AnswersTo
  <2> QED
    BY <1>1, <2>1, <2>3, <2>4 DEF ProcessKnows
<1>6. ASSUME NEW r \in records PROVE RecordIsSound(r)'
  BY <1>1, <1>2, <1>6 DEF Inductive, RecordIsSound, Backed, Explained, InFile, AnswersTo
<1> QED
  BY <1>1, <1>3, <1>4, <1>5, <1>6 DEF Inductive

LEMMA InitInductive == Init => Inductive
<1> SUFFICES ASSUME Init PROVE Inductive
  OBVIOUS
<1>1. runs = [i \in {} |-> {}] /\ DOMAIN runs = {}
  BY DEF Init, InitRetrieval
<1>2. Types
  BY <1>1, Blank, RetrievalBounds DEF Init, InitRetrieval, Types
<1>3. ASSUME NEW p \in Procs PROVE ProcessKnows(p)
  BY <1>3 DEF Init, Idle, ProcessKnows, Numbered, Retrieving, Judged, Active, Judging
<1>4. AttemptsAreOwn
  BY DEF Init, Idle, AttemptsAreOwn
<1>5. RunsAreDated
  BY <1>1 DEF RunsAreDated
<1>6. CheckpointsNameTheirRuns
  BY DEF Init, CheckpointsNameTheirRuns
<1> QED
  BY <1>2, <1>3, <1>4, <1>5, <1>6 DEF Init, Inductive, OutputsHaveTheirOrigin

\* What is known of runs, processes and records holds at every step of
\* pipeline_live, pipeline, orchestrate and the stores they write to.
THEOREM InductiveHolds == Spec => []Inductive
<1>1. Inductive /\ [Next]_vars => Inductive'
  BY NextStep, StutterStep
<1> QED
  BY <1>1, InitInductive, PTL DEF Spec

-----------------------------------------------------------------------------
(* What it is for.                                                         *)

\* A stored forecast can be traced to completed runs of its question, to their
\* documents and to the file its row names (append_forecast_version).
THEOREM RecordsAreAttributableHolds == Spec => []RecordsAreAttributable
<1>1. Inductive => RecordsAreAttributable
  BY DEF Inductive, RecordsAreAttributable, RecordIsSound, Backed, InFile
<1> QED
  BY <1>1, InductiveHolds, PTL

\* A replay attaches a reply to the request that it answered, and leaves its own
\* file (pipeline.run_replay).
THEOREM ReplaysAreFaithfulHolds == Spec => []ReplaysAreFaithful
<1>1. Inductive => ReplaysAreFaithful
  BY DEF Inductive, ReplaysAreFaithful, RecordIsSound, AnswersTo
<1> QED
  BY <1>1, InductiveHolds, PTL

\* No forecast uses evidence from after its instant, no live one evidence older
\* than a checkpoint may be (pipeline_live._research).
THEOREM NoHindsightHolds == Spec => []NoHindsight
<1>1. Inductive => NoHindsight
  BY DEF Inductive, NoHindsight, RecordIsSound, Backed, Live
<1> QED
  BY <1>1, InductiveHolds, PTL

\* A live forecast from no document says so, and truly (evidence_poor_reason).
THEOREM EmptyEvidenceIsMarkedHolds == Spec => []EmptyEvidenceIsMarked
<1>1. Inductive => EmptyEvidenceIsMarked
  BY DEF Inductive, EmptyEvidenceIsMarked, RecordIsSound, Explained, Live
<1> QED
  BY <1>1, InductiveHolds, PTL

-----------------------------------------------------------------------------
(* The report of a batch.                                                  *)

Numbers(s, j) ==
    /\ s.known \in Nat /\ s.unpriced \in Nat /\ s.calls \in Nat
    /\ j.known \in Nat /\ j.unpriced \in Nat /\ j.tries \in Nat /\ j.priced \in Nat

LEMMA BatchHas ==
  ASSUME Inductive, Balanced, NEW p \in Procs
  PROVE  /\ spent[p] \in Nat /\ Numbers(pass[p], job[p])
         /\ p \in Batches => Balances(pc[p], pass[p], job[p], spent[p])
<1>1. job[p] \in JobType /\ pass[p] \in PassType /\ spent[p] \in Nat
  BY DEF Inductive, Types, Balanced
<1>2. Numbers(pass[p], job[p])
  BY <1>1 DEF JobType, PassType, Numbers
<1> QED
  BY <1>1, <1>2 DEF Balanced

\* It is enough to look at the process that moves.
LEMMA OwnBalance ==
  ASSUME Balanced, NEW p \in Procs, Others(p),
         NEW paid \in Nat, spent' = [spent EXCEPT ![p] = paid],
         p \in Batches => Balances(pc'[p], pass'[p], job'[p], paid)
  PROVE  Balanced'
<1>1. spent' \in [Procs -> Nat] /\ spent'[p] = paid
  BY DEF Balanced
<1>2. \A q \in Procs \ {p} : spent'[q] = spent[q]
  BY DEF Balanced
<1>3. Batches \subseteq Procs
  BY AttemptNames
<1>4. ASSUME NEW q \in Batches
      PROVE  Balances(pc'[q], pass'[q], job'[q], spent'[q])
  <2>1. CASE q = p
    BY <1>1, <2>1
  <2>2. CASE q # p
    BY <1>2, <1>3, <2>2 DEF Balanced, Others
  <2> QED
    BY <2>1, <2>2
<1>5. ASSUME NEW q \in Batches
      PROVE  Balances(pc[q], pass[q], job[q], spent[q])'
  BY <1>4 DEF Balances, Owed, Unbilled
<1> QED
  BY <1>1, <1>5 DEF Balanced

\* What is over is reported whole.
LEMMA RestBalances ==
  ASSUME Inductive, Balanced, NEW p \in Procs, NEW known \in Nat, NEW unpriced \in Nat,
         Rest(p, known, unpriced),
         p \in Batches => known + unpriced = Owed(pass[p]) + job[p].tries
  PROVE  Balanced'
<1>1. Others(p)
  BY DEF Rest, Others, Inductive, Types
<1>2. spent \in [Procs -> Nat]
  BY DEF Balanced
<1>3. CASE p \in Batches
  <2>1. /\ pc'[p] = "next" /\ pass'[p] = Off
        /\ job'[p] = [Idle EXCEPT !.todo = job[p].todo, !.now = job[p].now,
                                  !.attempt = job[p].attempt,
                                  !.known = job[p].known + known,
                                  !.unpriced = job[p].unpriced + unpriced]
    BY <1>3 DEF Rest, Inductive, Types
  <2>2. /\ job'[p].known = job[p].known + known
        /\ job'[p].unpriced = job[p].unpriced + unpriced
        /\ job'[p].tries = 0
    BY <2>1 DEF Idle
  <2>3. Balances("next", pass'[p], job'[p], spent[p])
    BY <1>3, <2>1, <2>2, BatchHas DEF Balances, Numbers, Owed, Unbilled, Off
  <2>4. spent' = [spent EXCEPT ![p] = spent[p]]
    BY <1>2, <1>3 DEF Rest
  <2> QED
    BY <1>1, <1>2, <2>1, <2>3, <2>4, OwnBalance
<1>4. CASE p \notin Batches
  BY <1>1, <1>4, OwnBalance DEF Rest
<1> QED
  BY <1>3, <1>4

LEMMA GoneBalances ==
  ASSUME Inductive, Balanced, NEW p \in Procs, Gone(p) \/ Aborted(p)
  PROVE  Balanced'
<1>1. Others(p)
  BY DEF Gone, Aborted, Others, Inductive, Types
<1>2. pc'[p] \in {"idle", "aborted"} /\ pass'[p] = Off /\ job'[p] = Idle
  BY DEF Gone, Aborted, Inductive, Types
<1>3. Balances(pc'[p], pass'[p], job'[p], 0)
  BY <1>2 DEF Balances, Owed, Unbilled, Off, Idle
<1>4. spent' = [spent EXCEPT ![p] = 0]
  BY DEF Gone, Aborted
<1> QED
  BY <1>1, <1>3, <1>4, OwnBalance

LEMMA EndsBalance ==
  ASSUME Inductive, Balanced, NEW p \in Procs,
         \/ EndBatch(p) \/ RefuseQuestion(p) \/ ReuseFails(p) \/ ResearchFails(p)
         \/ PollStops(p) \/ CheckpointFails(p) \/ NoEvidence(p) \/ NothingUsable(p)
         \/ GenerationRefused(p) \/ GenerationFailed(p) \/ NotRecorded(p)
         \/ ReplyRejected(p) \/ Crash(p) \/ AppendVersion(p)
  PROVE  Balanced'
<1> DEFINE owed == Owed(pass[p]) + job[p].tries
<1>1. /\ Numbers(pass[p], job[p])
      /\ p \in Batches => Balances(pc[p], pass[p], job[p], spent[p])
  BY BatchHas
<1>2. p \in Batches => p \notin Polls /\ p \notin Replays
  BY AttemptNames
<1>3. CASE EndBatch(p) \/ ReuseFails(p) \/ PollStops(p) \/ CheckpointFails(p) \/ Crash(p)
  BY <1>3, GoneBalances DEF EndBatch, ReuseFails, PollStops, CheckpointFails, Crash
<1>4. CASE RefuseQuestion(p)
  <2>1. p \in Batches => 0 + 0 = owed
    BY <1>1, <1>4 DEF RefuseQuestion, Balances, Owed, Unbilled, Numbers
  <2> QED
    BY <1>4, <2>1, RestBalances DEF RefuseQuestion
<1>5. CASE ResearchFails(p)
  <2>1. CASE pass[p].stage = "refused" /\ Rest(p, 0, 0)
    <3>1. p \in Batches => 0 + 0 = owed
      BY <1>1, <1>5, <2>1 DEF ResearchFails, Balances, Owed, Unbilled, Numbers
    <3> QED
      BY <2>1, <3>1, RestBalances
  <2>2. CASE pass[p].stage = "paid" /\ Rest(p, pass[p].known, pass[p].unpriced)
    <3>1. p \in Batches => pass[p].known + pass[p].unpriced = owed
      BY <1>1, <1>5, <2>2 DEF ResearchFails, Balances, Owed, Unbilled, Numbers
    <3> QED
      BY <1>1, <2>2, <3>1, RestBalances DEF Numbers
  <2> QED
    BY <1>5, <2>1, <2>2 DEF ResearchFails
<1>6. CASE NoEvidence(p) \/ GenerationRefused(p)
  <2>1. p \in Batches => pass[p].known + pass[p].unpriced = owed
    BY <1>1, <1>6 DEF NoEvidence, GenerationRefused, Balances, Owed, Unbilled, Numbers
  <2>2. Rest(p, pass[p].known, pass[p].unpriced)
    BY <1>6 DEF NoEvidence, GenerationRefused
  <2> QED
    BY <1>1, <2>1, <2>2, RestBalances DEF Numbers
<1>7. CASE NothingUsable(p) \/ ReplyRejected(p)
  <2>1. p \notin Batches /\ Rest(p, 0, 0)
    BY <1>2, <1>7 DEF NothingUsable, ReplyRejected
  <2> QED
    BY <2>1, RestBalances
<1>8. CASE GenerationFailed(p) \/ NotRecorded(p) \/ AppendVersion(p)
  <2>1. /\ pc[p] = "filed"
        /\ Rest(p, pass[p].known + ModelCost(p), pass[p].unpriced + ModelUnpriced(p))
    BY <1>8 DEF GenerationFailed, NotRecorded, AppendVersion
  <2>2. /\ ModelCost(p) \in Nat /\ ModelUnpriced(p) \in Nat
        /\ ModelCost(p) + ModelUnpriced(p) = job[p].tries
    BY <1>1 DEF ModelCost, ModelUnpriced, Numbers
  <2>3. p \in Batches => Unbilled(pass[p]) = 0
    BY <1>1, <2>1 DEF Balances, Owed, Unbilled
  <2>4. p \in Batches => (pass[p].known + ModelCost(p)) + (pass[p].unpriced + ModelUnpriced(p))
                           = owed
    BY <1>1, <2>2, <2>3 DEF Owed, Numbers
  <2> QED
    BY <2>1, <2>4, CostsAreNumbers, RestBalances
<1> QED
  BY <1>3, <1>4, <1>5, <1>6, <1>7, <1>8

\* What else moves only p.
LEMMA WorkMoves ==
  ASSUME Inductive, NEW p \in Procs,
         \/ StartBatch(p) \/ TakeQuestion(p) \/ StartPoll(p) \/ StartReplay(p)
         \/ Reuse(p) \/ Buy(p) \/ BuyStep(p) \/ Checkpoint(p) \/ GoOn(p)
         \/ ModelCall(p) \/ FileReply(p) \/ FileReplyFails(p)
  PROVE  Others(p)
<1>1. job \in [Procs -> JobType] /\ pass \in [Procs -> PassType] /\ DOMAIN pc = Procs
  BY DEF Inductive, Types
<1>2. CASE StartBatch(p) \/ TakeQuestion(p) \/ StartPoll(p) \/ StartReplay(p)
  BY <1>1, <1>2 DEF Others, StartBatch, TakeQuestion, StartPoll, StartReplay, retrieval
<1>3. CASE Reuse(p) \/ Buy(p) \/ Checkpoint(p) \/ GoOn(p)
  BY <1>1, <1>3 DEF Others, Reuse, Buy, Checkpoint, GoOn, retrieval
<1>4. CASE ModelCall(p) \/ FileReply(p) \/ FileReplyFails(p)
  BY <1>1, <1>4 DEF Others, ModelCall, FileReply, FileReplyFails, retrieval
<1>5. CASE BuyStep(p)
  <2>1. \E s : pass' = [pass EXCEPT ![p] = s]
    <3>1. CASE OpenRun(p) \/ OpenRunFails(p) \/ LoadPacketFails(p) \/ CapReached(p)
               \/ BudgetStops(p) \/ WebRefused(p)
      BY <3>1 DEF OpenRun, OpenRunFails, LoadPacketFails, CapReached, BudgetStops, WebRefused
    <3>2. CASE Answered(p) \/ CallFails(p)
      BY <3>2 DEF Answered, CallFails
    <3>3. CASE PersistRun(p) \/ PersistRunFails(p)
      BY <3>3 DEF PersistRun, PersistRunFails
    <3> QED
      BY <1>5, <3>1, <3>2, <3>3 DEF BuyStep, Retrieve
  <2> QED
    BY <1>1, <1>5, <2>1 DEF Others, BuyStep
<1> QED
  BY <1>2, <1>3, <1>4, <1>5

\* A batch starts with an empty report.
LEMMA StartBalances ==
  ASSUME Inductive, Balanced, NEW p \in Procs,
         StartBatch(p) \/ TakeQuestion(p) \/ StartPoll(p) \/ StartReplay(p)
  PROVE  Balanced'
<1>1. /\ spent[p] \in Nat
      /\ p \in Batches => Balances(pc[p], pass[p], job[p], spent[p])
  BY BatchHas
<1>2. Others(p)
  BY WorkMoves
<1>3. spent \in [Procs -> Nat] /\ job \in [Procs -> JobType] /\ pc'[p] \in {"next", "research", "reply"}
  BY DEF Balanced, Inductive, Types, StartBatch, TakeQuestion, StartPoll, StartReplay
<1>4. CASE StartPoll(p) \/ StartReplay(p)
  <2>1. p \notin Batches /\ spent' = [spent EXCEPT ![p] = spent[p]]
    BY <1>3, <1>4, AttemptNames DEF StartPoll, StartReplay
  <2> QED
    BY <1>1, <1>2, <2>1, OwnBalance
<1>5. CASE StartBatch(p)
  <2>1. /\ pass' = pass /\ pc'[p] = "next" /\ spent' = [spent EXCEPT ![p] = 0]
        /\ pc[p] \in {"idle", "aborted"} /\ p \in Batches
    BY <1>5 DEF StartBatch, retrieval, Inductive, Types
  <2>5. PICK todo \in SUBSET Questions, t \in Readings :
          job' = [job EXCEPT ![p] = [Idle EXCEPT !.todo = todo, !.now = t]]
    BY <1>5 DEF StartBatch
  <2>2. job'[p] = [Idle EXCEPT !.todo = todo, !.now = t]
    BY <1>3, <2>5
  <2>3. job'[p].known = 0 /\ job'[p].unpriced = 0 /\ job'[p].tries = 0
    BY <2>2 DEF Idle
  <2>4. Balances("next", pass'[p], job'[p], 0)
    BY <1>1, <2>1, <2>3 DEF Balances, Owed, Unbilled
  <2> QED
    BY <1>2, <2>1, <2>4, OwnBalance
<1>6. CASE TakeQuestion(p)
  <2>1. /\ pass' = pass /\ pc'[p] = "research" /\ spent' = [spent EXCEPT ![p] = spent[p]]
        /\ pc[p] = "next"
    BY <1>3, <1>6 DEF TakeQuestion, retrieval, Inductive, Types
  <2>2. /\ job'[p].known = job[p].known /\ job'[p].unpriced = job[p].unpriced
        /\ job'[p].tries = job[p].tries
    <3>1. PICK k \in JobType : k = job[p]
      BY <1>3
    <3>2. PICK question \in k.todo :
             job' = [job EXCEPT ![p].question = question,
                                ![p].todo = @ \ {question},
                                ![p].attempt = minted + 1]
      BY <1>6, <3>1 DEF TakeQuestion
    <3>3. job'[p] = [k EXCEPT !.question = question, !.todo = @ \ {question},
                              !.attempt = minted + 1]
      BY <1>3, <3>1, <3>2
    <3> QED
      BY <3>1, <3>3 DEF JobType
  <2>3. p \in Batches => Balances("research", pass'[p], job'[p], spent[p])
    BY <1>1, <2>1, <2>2 DEF Balances, Owed, Unbilled
  <2> QED
    BY <1>1, <1>2, <2>1, <2>3, OwnBalance
<1> QED
  BY <1>4, <1>5, <1>6

\* The report, the account and the tries stay.
LEMMA JudgeBalances ==
  ASSUME Inductive, Balanced, NEW p \in Procs,
         Reuse(p) \/ GoOn(p) \/ FileReply(p) \/ FileReplyFails(p)
  PROVE  Balanced'
<1>1. /\ spent[p] \in Nat
      /\ p \in Batches => Balances(pc[p], pass[p], job[p], spent[p])
  BY BatchHas
<1>2. Others(p)
  BY WorkMoves
<1>3. job \in [Procs -> JobType] /\ DOMAIN pc = Procs /\ spent \in [Procs -> Nat]
  BY DEF Inductive, Types, Balanced
<1>4. pass' = pass /\ spent' = [spent EXCEPT ![p] = spent[p]]
  BY <1>3 DEF Reuse, GoOn, FileReply, FileReplyFails, retrieval
<1>5. /\ job'[p].known = job[p].known /\ job'[p].unpriced = job[p].unpriced
      /\ job'[p].tries = job[p].tries
  <2>1. CASE Reuse(p)
    BY <1>3, <2>1 DEF Reuse, JobType
  <2>2. CASE GoOn(p)
    <3>1. PICK k \in JobType : k = job[p]
      BY <1>3
    <3>2. PICK poor, docs, absent :
             job' = [job EXCEPT ![p].poor = poor, ![p].docs = docs, ![p].absent = absent]
      BY <2>2, Zenon DEF GoOn
    <3>3. job'[p] = [k EXCEPT !.poor = poor, !.docs = docs, !.absent = absent]
      BY <1>3, <3>1, <3>2
    <3> QED
      BY <3>1, <3>3 DEF JobType
  <2>3. CASE FileReply(p) \/ FileReplyFails(p)
    BY <1>3, <2>3 DEF FileReply, FileReplyFails, JobType
  <2> QED
    BY <2>1, <2>2, <2>3
<1>6. \/ pc[p] = "research" /\ pc'[p] = "evidence"
      \/ pc[p] = "evidence" /\ pc'[p] = "model"
      \/ pc[p] = "reply" /\ pc'[p] = "filed"
  BY <1>3 DEF Reuse, GoOn, FileReply, FileReplyFails
<1>7. p \in Batches => Balances(pc'[p], pass'[p], job'[p], spent[p])
  BY <1>1, <1>4, <1>5, <1>6 DEF Balances, Owed, Unbilled
<1> QED
  BY <1>1, <1>2, <1>4, <1>7, OwnBalance

\* One call more, one paid more.
LEMMA ModelCallBalances ==
  ASSUME Inductive, Balanced, NEW p \in Procs, ModelCall(p)
  PROVE  Balanced'
<1>1. /\ spent[p] \in Nat /\ Numbers(pass[p], job[p])
      /\ p \in Batches => Balances(pc[p], pass[p], job[p], spent[p])
  BY BatchHas
<1>2. Others(p)
  BY WorkMoves
<1>3. job \in [Procs -> JobType] /\ DOMAIN pc = Procs /\ pass' = pass
  BY DEF Inductive, Types, ModelCall, retrieval
<1>4. /\ pc[p] = "model" /\ pc'[p] \in {"model", "reply"}
  BY <1>3 DEF ModelCall
<1>5. /\ job'[p].known = job[p].known /\ job'[p].unpriced = job[p].unpriced
      /\ job'[p].tries = job[p].tries + 1
  BY <1>3 DEF ModelCall, JobType
<1>6. PICK paid \in Nat : /\ spent' = [spent EXCEPT ![p] = paid]
                          /\ p \in Batches => paid = spent[p] + 1
  <2>1. p \in Batches => p \notin Polls
    BY AttemptNames
  <2>2. CASE p \in Polls
    BY <2>1, <2>2 DEF ModelCall, Paid
  <2>3. CASE p \notin Polls
    <3>1. spent' = [spent EXCEPT ![p] = spent[p] + 1]
      BY <2>3 DEF ModelCall, Paid
    <3>2. spent[p] + 1 \in Nat
      BY <1>1
    <3> QED
      BY <3>1, <3>2
  <2> QED
    BY <2>2, <2>3
<1>7. p \in Batches => Balances(pc'[p], pass'[p], job'[p], paid)
  BY <1>1, <1>3, <1>4, <1>5, <1>6 DEF Balances, Owed, Unbilled, Numbers
<1> QED
  BY <1>2, <1>6, <1>7, OwnBalance

\* Each call is billed once, as cost or as a call of unknown cost.
LEMMA BilledAddsUp ==
  ASSUME NEW p, p \notin Polls, pass[p] \in PassType
  PROVE  Billed(p).known + Billed(p).unpriced
           = (pass[p].known + pass[p].unpriced) + pass[p].calls
<1>1. PICK s \in PassType : s = pass[p]
  OBVIOUS
<1>2. s.known \in Nat /\ s.unpriced \in Nat /\ s.calls \in Nat /\ s.priced \in Nat
  BY DEF PassType
<1>3. CASE Cost(s) # None
  <2>1. Cost(s) = s.calls
    BY <1>2, <1>3 DEF Cost, PassType, Providers
  <2>2. Billed(p) = [s EXCEPT !.known = @ + Cost(s)]
    BY <1>1, <1>3 DEF Billed
  <2>3. Billed(p).known = s.known + s.calls /\ Billed(p).unpriced = s.unpriced
    BY <2>1, <2>2 DEF PassType
  <2> QED
    BY <1>1, <1>2, <2>3
<1>4. CASE Cost(s) = None
  <2>1. Billed(p) = [s EXCEPT !.unpriced = @ + s.calls]
    BY <1>1, <1>4 DEF Billed
  <2>2. Billed(p).known = s.known /\ Billed(p).unpriced = s.unpriced + s.calls
    BY <2>1 DEF PassType
  <2> QED
    BY <1>1, <1>2, <2>2
<1> QED
  BY <1>3, <1>4

\* A retrieval goes on, and what it newly pays is unbilled or billed.
LEMMA RetrievalBalances ==
  ASSUME Inductive, Balanced, NEW p \in Procs, BuyStep(p), NEW s, s = pass[p],
         NEW t, pass' = [pass EXCEPT ![p] = t],
         NEW paid \in Nat, spent' = [spent EXCEPT ![p] = paid],
         p \in Batches =>
           /\ Owed(t) \in Nat /\ Owed(t) + spent[p] = Owed(s) + paid
           /\ t.stage = "open" => t.calls = 0
           /\ t.provider = "asknews" /\ t.stage \in {"open", "call", "store", "refused"} =>
                t.known = 0 /\ t.unpriced = 0
           /\ t.stage = "refused" => t.provider = "asknews"
  PROVE  Balanced'
<1>1. /\ spent[p] \in Nat /\ Numbers(s, job[p])
      /\ p \in Batches => Balances(pc[p], s, job[p], spent[p])
  BY BatchHas
<1>2. Others(p)
  BY WorkMoves
<1>3. pass'[p] = t /\ pc[p] = "retrieve" /\ pc' = pc /\ job' = job
  BY DEF BuyStep, Inductive, Types
<1>4. Owed(s) \in Nat
  BY <1>1 DEF Owed, Unbilled, Numbers
<1>5. ASSUME p \in Batches PROVE Balances("retrieve", t, job[p], paid)
  <2>1. PICK k \in Nat, u \in Nat, m \in Nat, x \in Nat, y \in Nat, before \in Nat :
          /\ k = job[p].known /\ u = job[p].unpriced /\ m = job[p].tries
          /\ x = Owed(s) /\ y = Owed(t) /\ before = spent[p]
    <3>1. job[p].known \in Nat /\ job[p].unpriced \in Nat /\ job[p].tries \in Nat
      BY <1>1 DEF Numbers
    <3>2. Owed(t) \in Nat /\ spent[p] \in Nat
      BY <1>1, <1>5
    <3> QED
      BY <1>4, <3>1, <3>2, Zenon
  <2>2. (k + u) + x + m = before
    <3>1. (job[p].known + job[p].unpriced) + Owed(s) + job[p].tries = spent[p]
      BY <1>1, <1>5, Zenon DEF Balances
    <3> QED
      BY <2>1, <3>1, Zenon
  <2>3. y + before = x + paid
    BY <1>5, <2>1, Zenon
  <2>4. (k + u) + y + m = paid
    BY <2>2, <2>3
  <2>5. (job[p].known + job[p].unpriced) + Owed(t) + job[p].tries = paid
    BY <2>1, <2>4, Zenon
  <2> QED
    BY <1>1, <1>3, <1>5, <2>5 DEF Balances
<1> QED
  BY <1>2, <1>3, <1>5, OwnBalance

LEMMA CallsBalance ==
  ASSUME Inductive, Balanced, NEW p \in Procs, BuyStep(p), Answered(p) \/ CallFails(p)
  PROVE  Balanced'
<1>1. PICK s \in PassType : s = pass[p]
  BY DEF Inductive, Types
<1>2. /\ spent[p] \in Nat /\ Numbers(s, job[p])
      /\ p \in Batches => Balances(pc[p], s, job[p], spent[p])
  BY <1>1, BatchHas
<1>3. s.stage = "call"
  BY <1>1 DEF Answered, CallFails
<1>4. PICK calls : calls = s.calls + 1
  OBVIOUS
<1>5. PICK t : /\ pass' = [pass EXCEPT ![p] = t]
               /\ t.known = s.known /\ t.unpriced = s.unpriced /\ t.provider = s.provider
               /\ t.calls = calls /\ t.stage \in {"call", "store"}
  <2>1. CASE Answered(p)
    <3>1. PICK priced, docs :
            pass' = [pass EXCEPT
                       ![p].calls = @ + 1, ![p].priced = @ + priced,
                       ![p].docs = @ \cup docs,
                       ![p].stage = IF pass[p].calls + 1 = CallLimit(p)
                                      THEN "store" ELSE "call"]
      BY <2>1 DEF Answered
    <3>2. PICK stage \in {"call", "store"} :
            stage = IF pass[p].calls + 1 = CallLimit(p) THEN "store" ELSE "call"
      OBVIOUS
    <3>3. PICK cost, found : cost = s.priced + priced /\ found = s.docs \cup docs
      OBVIOUS
    <3>4. PICK t : t = [s EXCEPT !.calls = calls, !.priced = cost, !.docs = found,
                                 !.stage = stage]
      OBVIOUS
    <3>5. pass' = [pass EXCEPT ![p] = t]
      BY <1>1, <1>4, <3>1, <3>2, <3>3, <3>4
    <3>6. /\ t.known = s.known /\ t.unpriced = s.unpriced /\ t.provider = s.provider
          /\ t.calls = calls /\ t.stage = stage
      BY <3>4 DEF PassType
    <3> QED
      BY <3>2, <3>5, <3>6
  <2>2. CASE CallFails(p)
    <3>1. PICK priced :
            pass' = [pass EXCEPT ![p].calls = @ + 1, ![p].priced = @ + priced,
                                 ![p].failed = TRUE, ![p].stage = "store"]
      BY <2>2 DEF CallFails
    <3>2. PICK cost : cost = s.priced + priced
      OBVIOUS
    <3>3. PICK t : t = [s EXCEPT !.calls = calls, !.priced = cost, !.failed = TRUE,
                                 !.stage = "store"]
      OBVIOUS
    <3>4. pass' = [pass EXCEPT ![p] = t]
      BY <1>1, <1>4, <3>1, <3>2, <3>3
    <3>5. /\ t.known = s.known /\ t.unpriced = s.unpriced /\ t.provider = s.provider
          /\ t.calls = calls /\ t.stage = "store"
      BY <3>3 DEF PassType
    <3> QED
      BY <3>4, <3>5
  <2> QED
    BY <1>3, <2>1, <2>2
<1>6. PICK paid \in Nat : /\ spent' = [spent EXCEPT ![p] = paid]
                          /\ p \in Batches => paid = spent[p] + 1
  <2>1. p \in Batches => p \notin Polls
    BY AttemptNames
  <2>2. CASE p \in Polls
    BY <2>1, <2>2 DEF Answered, CallFails, Paid
  <2>3. CASE p \notin Polls
    <3>1. spent' = [spent EXCEPT ![p] = spent[p] + 1]
      BY <2>3 DEF Answered, CallFails, Paid
    <3>2. spent[p] + 1 \in Nat
      BY <1>2
    <3> QED
      BY <3>1, <3>2
  <2> QED
    BY <2>2, <2>3
<1>7. p \in Batches =>
        /\ Owed(t) \in Nat /\ Owed(t) + spent[p] = Owed(s) + paid
        /\ t.stage = "open" => t.calls = 0
        /\ t.provider = "asknews" /\ t.stage \in {"open", "call", "store", "refused"} =>
             t.known = 0 /\ t.unpriced = 0
        /\ t.stage = "refused" => t.provider = "asknews"
  <2>1. Owed(s) = (s.known + s.unpriced) + s.calls /\ Owed(t) = (s.known + s.unpriced) + calls
    BY <1>3, <1>5 DEF Owed, Unbilled
  <2> QED
    <3>1. /\ s.known \in Nat /\ s.unpriced \in Nat /\ s.calls \in Nat
          /\ s.provider = "asknews" /\ p \in Batches => s.known = 0 /\ s.unpriced = 0
      BY <1>2, <1>3 DEF Numbers, Balances
    <3>2. /\ Owed(t) = Owed(s) + 1 /\ Owed(s) \in Nat /\ Owed(t) \in Nat
      BY <1>4, <2>1, <3>1
    <3>3. p \in Batches => Owed(t) + spent[p] = Owed(s) + paid
      BY <1>2, <1>6, <3>2
    <3> QED
      BY <1>5, <3>1, <3>2, <3>3
<1> QED
  BY <1>1, <1>5, <1>6, <1>7, RetrievalBalances

\* Nothing is paid: the stage moves, or the calls are billed.
LEMMA TurnsBalance ==
  ASSUME Inductive, Balanced, NEW p \in Procs, BuyStep(p),
         \/ OpenRun(p) \/ OpenRunFails(p) \/ CapReached(p) \/ BudgetStops(p)
         \/ WebRefused(p) \/ PersistRun(p) \/ PersistRunFails(p) \/ LoadPacketFails(p)
  PROVE  Balanced'
<1>1. PICK s \in PassType : s = pass[p]
  BY DEF Inductive, Types
<1>2. /\ spent[p] \in Nat /\ Numbers(s, job[p])
      /\ p \in Batches => Balances(pc[p], s, job[p], spent[p])
  BY <1>1, BatchHas
<1>3. spent' = [spent EXCEPT ![p] = spent[p]]
  BY DEF OpenRun, OpenRunFails, CapReached, BudgetStops, WebRefused, PersistRun,
         PersistRunFails, LoadPacketFails, Balanced
<1>4. p \in Batches => p \notin Polls
  BY AttemptNames
<1> DEFINE Fits(t) ==
      /\ Owed(t) \in Nat /\ Owed(t) = Owed(s)
      /\ t.stage = "open" => t.calls = 0
      /\ t.provider = "asknews" /\ t.stage \in {"open", "call", "store", "refused"} =>
           t.known = 0 /\ t.unpriced = 0
      /\ t.stage = "refused" => t.provider = "asknews"
<1>5. ASSUME NEW t, pass' = [pass EXCEPT ![p] = t], p \in Batches => Fits(t)
      PROVE  Balanced'
  BY <1>1, <1>2, <1>3, <1>5, RetrievalBalances
<1>6. CASE OpenRun(p) \/ OpenRunFails(p) \/ CapReached(p) \/ BudgetStops(p)
           \/ WebRefused(p) \/ LoadPacketFails(p)
  <2>1. PICK stage :
          /\ pass' = [pass EXCEPT ![p].stage = stage]
          /\ p \in Batches =>
               \/ s.stage = "open" /\ stage = "call"
               \/ s.stage = "open" /\ stage = "refused" /\ s.provider = "asknews"
               \/ s.stage = "open" /\ stage = "paid"
               \/ s.stage = "call" /\ s.calls = 0 /\ stage = "packet"
               \/ s.stage = "packet" /\ stage = "paid"
    <3>1. CASE OpenRun(p)
      BY <1>1, <3>1 DEF OpenRun
    <3>2. CASE OpenRunFails(p)
      BY <1>1, <3>2 DEF OpenRunFails
    <3>3. CASE CapReached(p) \/ BudgetStops(p)
      BY <1>4, <3>3 DEF CapReached, BudgetStops
    <3>4. CASE WebRefused(p) \/ LoadPacketFails(p)
      BY <1>1, <3>4 DEF WebRefused, LoadPacketFails
    <3> QED
      BY <1>6, <3>1, <3>2, <3>3, <3>4
  <2>2. PICK t : t = [s EXCEPT !.stage = stage]
    OBVIOUS
  <2>3. /\ pass' = [pass EXCEPT ![p] = t]
        /\ t.known = s.known /\ t.unpriced = s.unpriced /\ t.provider = s.provider
        /\ t.calls = s.calls /\ t.stage = stage
    BY <1>1, <2>1, <2>2 DEF PassType
  <2>4. p \in Batches => Fits(t)
    BY <1>2, <2>1, <2>3 DEF Owed, Unbilled, Numbers, Balances
  <2> HIDE DEF Fits
  <2> QED
    BY <1>5, <2>3, <2>4
<1>7. CASE PersistRun(p) \/ PersistRunFails(p)
  <2>1. PICK b \in PassType : b = Billed(p)
    BY <1>1, BilledIsPass
  <2>2. /\ b.known \in Nat /\ b.unpriced \in Nat /\ b.provider = s.provider
        /\ p \in Batches => b.known + b.unpriced = (s.known + s.unpriced) + s.calls
    BY <1>1, <1>4, <2>1, BilledIsPass, BilledAddsUp DEF PassType
  <2>3. s.stage = "store"
    BY <1>1, <1>7 DEF PersistRun, PersistRunFails
  <2>4. CASE PersistRunFails(p)
    <3>1. PICK t : t = [b EXCEPT !.stage = "paid"]
      OBVIOUS
    <3>2. /\ pass' = [pass EXCEPT ![p] = t]
          /\ t.known = b.known /\ t.unpriced = b.unpriced /\ t.stage = "paid"
      BY <2>1, <2>4, <3>1 DEF PersistRunFails, PassType
    <3>3. p \in Batches => Fits(t)
      BY <1>2, <2>2, <2>3, <3>2 DEF Owed, Unbilled, Numbers, Balances
    <3> HIDE DEF Fits
    <3> QED
      BY <1>5, <3>2, <3>3
  <2>5. CASE PersistRun(p)
    <3>1. PICK ids, lost, stage :
         /\ pass' = [pass EXCEPT
                       ![p] = [b EXCEPT !.ids = ids, !.lost = lost, !.provider = "exa",
                                        !.calls = 0, !.priced = 0, !.docs = {},
                                        !.failed = FALSE, !.stage = stage]]
         /\ stage \in {"open", "packet"}
      <4>1. PICK paper \in Filed(p) :
              pass' = [pass EXCEPT
                         ![p] = [Billed(p) EXCEPT
                                   !.ids = @ \cup {Run(p)},
                                   !.lost = @ \/ (Retain /\ ~paper),
                                   !.provider = "exa",
                                   !.calls = 0, !.priced = 0,
                                   !.docs = {}, !.failed = FALSE,
                                   !.stage = IF WebClient /\ WantsFallback(p)
                                               THEN "open" ELSE "packet"]]
        BY <2>5 DEF PersistRun
      <4>2. PICK stage : stage = IF WebClient /\ WantsFallback(p) THEN "open" ELSE "packet"
        OBVIOUS
      <4> QED
        BY <2>1, <4>1, <4>2, Zenon
    <3>2. PICK t : t = [b EXCEPT !.ids = ids, !.lost = lost, !.provider = "exa",
                                 !.calls = 0, !.priced = 0, !.docs = {},
                                 !.failed = FALSE, !.stage = stage]
      OBVIOUS
    <3>3. /\ pass' = [pass EXCEPT ![p] = t]
          /\ t.known = b.known /\ t.unpriced = b.unpriced /\ t.calls = 0
          /\ t.provider = "exa" /\ t.stage \in {"open", "packet"}
      BY <3>1, <3>2 DEF PassType
    <3>4. p \in Batches => Fits(t)
      BY <1>2, <2>2, <2>3, <3>3 DEF Owed, Unbilled, Numbers, Balances
    <3> HIDE DEF Fits
    <3> QED
      BY <1>5, <3>3, <3>4
  <2> QED
    BY <1>7, <2>4, <2>5
<1> QED
  BY <1>6, <1>7

\* A retrieval begins with an empty account and leaves it to its attempt.
LEMMA BuyBalances ==
  ASSUME Inductive, Balanced, NEW p \in Procs, Buy(p) \/ Checkpoint(p)
  PROVE  Balanced'
<1>1. /\ spent[p] \in Nat /\ Numbers(pass[p], job[p])
      /\ p \in Batches => Balances(pc[p], pass[p], job[p], spent[p])
  BY BatchHas
<1>2. Others(p)
  BY WorkMoves
<1>3. /\ job \in [Procs -> JobType] /\ DOMAIN pc = Procs /\ DOMAIN pass = Procs
      /\ spent \in [Procs -> Nat]
  BY DEF Inductive, Types, Balanced
<1>4. spent' = [spent EXCEPT ![p] = spent[p]]
  BY <1>3 DEF Buy, Checkpoint
<1>5. CASE Buy(p)
  <2>1. pc[p] = "research" /\ pc'[p] = "retrieve" /\ job' = job
    BY <1>3, <1>5 DEF Buy
  <2>2. /\ pass'[p].known = 0 /\ pass'[p].unpriced = 0 /\ pass'[p].calls = 0
        /\ pass'[p].stage = "open" /\ pass'[p].provider = "asknews"
    BY <1>3, <1>5 DEF Buy, Begun, Off
  <2>3. p \in Batches => Balances("retrieve", pass'[p], job'[p], spent[p])
    BY <1>1, <2>1, <2>2 DEF Balances, Owed, Unbilled, Numbers
  <2> QED
    BY <1>1, <1>2, <1>4, <2>1, <2>3, OwnBalance
<1>6. CASE Checkpoint(p)
  <2>1. pc[p] = "retrieve" /\ pc'[p] = "evidence" /\ pass[p].stage = "packet"
    BY <1>3, <1>6 DEF Checkpoint
  <2>2. /\ pass'[p].known = pass[p].known /\ pass'[p].unpriced = pass[p].unpriced
        /\ pass'[p].stage = "off"
    BY <1>3, <1>6 DEF Checkpoint, Off
  <2>3. /\ job'[p].known = job[p].known /\ job'[p].unpriced = job[p].unpriced
        /\ job'[p].tries = job[p].tries
    <3>1. PICK k \in JobType : k = job[p]
      BY <1>3
    <3>2. PICK ids, troubled, docs :
            job' = [job EXCEPT ![p].ids = ids, ![p].troubled = troubled, ![p].docs = docs]
      BY <1>6, Zenon DEF Checkpoint
    <3>3. job'[p] = [k EXCEPT !.ids = ids, !.troubled = troubled, !.docs = docs]
      BY <1>3, <3>1, <3>2
    <3> QED
      BY <3>1, <3>3 DEF JobType
  <2>4. p \in Batches => Balances("evidence", pass'[p], job'[p], spent[p])
    BY <1>1, <2>1, <2>2, <2>3 DEF Balances, Owed, Unbilled, Numbers
  <2> QED
    BY <1>1, <1>2, <1>4, <2>1, <2>4, OwnBalance
<1> QED
  BY <1>5, <1>6

LEMMA NextBalances ==
  ASSUME Inductive, Balanced, [Next]_vars
  PROVE  Balanced'
<1>1. CASE Next
  <2>1. PICK p \in Procs :
          Start(p) \/ Research(p) \/ Judge(p) \/ Generate(p) \/ Crash(p)
    BY <1>1 DEF Next
  <2>2. CASE Start(p)
    BY <2>2, StartBalances, EndsBalance DEF Start
  <2>3. CASE BuyStep(p)
    BY <2>3, CallsBalance, TurnsBalance DEF BuyStep, Retrieve
  <2>4. CASE Research(p)
    BY <2>3, <2>4, EndsBalance, JudgeBalances, BuyBalances DEF Research
  <2>5. CASE Judge(p)
    BY <2>5, EndsBalance, JudgeBalances DEF Judge
  <2>6. CASE Generate(p)
    BY <2>6, EndsBalance, JudgeBalances, ModelCallBalances
    DEF Generate, Record, RecordReplay
  <2> QED
    BY <2>1, <2>2, <2>4, <2>5, <2>6, EndsBalance
<1>2. CASE UNCHANGED vars
  <2>1. UNCHANGED <<pc, pass, job, spent>>
    BY <1>2 DEF vars, retrieval
  <2> QED
    BY <2>1 DEF Balanced, Balances, Owed, Unbilled
<1> QED
  BY <1>1, <1>2

\* What a batch reports is what it paid for, however its questions ended and
\* whatever failed on the way (pipeline_live.run_live, _attempt_question).
THEOREM ReportsAddUpHolds == Spec => []ReportsAddUp
<1>1. Init => Balanced
  BY AttemptNames DEF Init, InitRetrieval, Idle, Off, Balanced, Balances, Owed, Unbilled
<1>2. Inductive /\ Balanced /\ [Next]_vars => Balanced'
  BY NextBalances
<1>3. Inductive /\ Balanced => ReportsAddUp
  <2> SUFFICES ASSUME Inductive, Balanced, NEW p \in Batches, pc[p] = "next"
               PROVE  job[p].known + job[p].unpriced = spent[p]
    BY DEF ReportsAddUp
  <2>1. Numbers(pass[p], job[p]) /\ Balances(pc[p], pass[p], job[p], spent[p])
    BY BatchHas, AttemptNames
  <2> QED
    BY <2>1 DEF Balances, Owed, Unbilled, Numbers
<1> QED
  BY <1>1, <1>2, <1>3, InductiveHolds, PTL DEF Spec

=============================================================================
