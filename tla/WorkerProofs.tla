---------------------------- MODULE WorkerProofs ----------------------------
(***************************************************************************)
(* Inductive holds at every step of Worker, and what follows from it.      *)
(***************************************************************************)
EXTENDS WorkerRefinement, FiniteSetTheorems, TLAPS

-----------------------------------------------------------------------------
(* The initial state.                                                      *)

LEMMA InitTypes == Init => Types
<1> SUFFICES ASSUME Init PROVE Types
  OBVIOUS
<1>1. ledger \in LedgerType
  BY BoundsAreNumbers DEF Init, LedgerType, Never
<1>2. poll \in PollType /\ poll.seen = NoPoll.seen
  BY BoundsAreNumbers DEF Init, PollType, NoPoll
<1>3. /\ age \in [Questions -> 0 .. Window + 1]
      /\ paid \in [Questions -> [Keys -> Nat]]
      /\ sent \in [Questions -> [forecast : Nat, comment : Nat]]
      /\ comments \in [Questions -> [delayed : Nat, up : Nat]]
  BY BoundsAreNumbers DEF Init
<1> QED
  BY <1>1, <1>2, <1>3, BoundsAreNumbers DEF Init, Types, TypeOK, Recovering

LEMMA CountOfNone == \A k \in Keys : Count(<<>>, k) = 0
<1> SUFFICES ASSUME NEW k \in Keys PROVE Count(<<>>, k) = 0
  OBVIOUS
<1>1. {i \in DOMAIN <<>> : <<>>[i] = k} = {}
  OBVIOUS
<1> QED
  BY <1>1, FS_EmptySet DEF Count

LEMMA InitInductive == Init => Inductive
<1> SUFFICES ASSUME Init PROVE Inductive
  OBVIOUS
<1>1. Types
  BY InitTypes
<1>2. Forecasts /\ Comments
  BY DEF Init, Forecasts, Comments, Never
<1>3. Windows
  BY CountOfNone, BoundsAreNumbers DEF Init, Windows, FewWindows
<1>4. Verdicts
  BY DEF Init, Verdicts, OneVerdict
<1> QED
  BY <1>1, <1>2, <1>3, <1>4 DEF Inductive

-----------------------------------------------------------------------------
(* Types.                                                                  *)

\* A question the poll is done with.
LEMMA LeaveTypes ==
  ASSUME Types, NEW q \in Questions, Leave(q), pc # "idle"
  PROVE  /\ poll' \in PollType
         /\ poll'.seen = poll.seen
         /\ poll'.act = poll.act
         /\ pc' \in {"recover", "gate"}
         /\ pc' = "gate" => Fetched
<1>1. poll \in PollType
  BY DEF Types, TypeOK
<1>2. poll' = [poll EXCEPT !.todo = @ \ {q}, !.cur = None]
  BY DEF Leave, Done
<1>3. poll' \in PollType /\ poll'.seen = poll.seen /\ poll'.act = poll.act
  BY <1>1, <1>2 DEF PollType
<1> QED
  BY <1>3 DEF Leave, Types

\* A step that moves the worker on and writes at most the ledger's rows.
LEMMA MoveTypes ==
  ASSUME Types, poll' \in PollType, ledger' \in LedgerType,
         guards' \in SUBSET Questions,
         UNCHANGED <<backup, question, counts>>,
         forecast' \in [Questions ->
                          {"none", "delayed", "up", "lost", "refused"}],
         comments' \in [Questions -> [delayed : Nat, up : Nat]],
         sent' \in [Questions -> [forecast : Nat, comment : Nat]],
         paid' \in [Questions -> [Keys -> Nat]],
         age' \in [Questions -> 0 .. Window + 1],
         poll'.act \in Acts,
         \/ pc' \in {"recover", "gate"}
         \/ poll'.cur \in Questions /\ pc' \in {"attempt", "post", "send",
               "refusal", "verify", "comment", "publish"},
         poll'.seen = poll.seen,
         pc' \in {"gate", "attempt", "post", "send", "refusal"} => Fetched
  PROVE  Types'
<1>1. TypeOK'
  BY DEF Types, TypeOK, question, counts, Fetched
<1>2. Fetched' <=> Fetched
  BY DEF Fetched
<1>3. Recovering' <=> Recovering
  BY DEF Recovering, NoPoll
<1> QED
  BY <1>1, <1>2, <1>3 DEF Types

\* The poll's two beginnings.
LEMMA BegunTypes ==
  ASSUME NEW a \in 0 .. MaxActs, NEW t \in SUBSET Questions
  PROVE  LET b == [NoPoll EXCEPT !.act = a, !.todo = t]
         IN  b \in PollType /\ b.act = a /\ b.seen = NoPoll.seen
<1>1. NoPoll \in PollType
  BY BoundsAreNumbers DEF NoPoll, PollType
<1>2. [NoPoll EXCEPT !.act = a] \in PollType
  BY <1>1 DEF PollType
<1>3. [NoPoll EXCEPT !.act = a].act = a
  BY <1>1 DEF PollType
<1>4. [NoPoll EXCEPT !.act = a].seen = NoPoll.seen
  BY <1>1 DEF PollType
<1> QED
  BY <1>2, <1>3, <1>4 DEF PollType

LEMMA FetchedTypes ==
  ASSUME poll \in PollType, version \in [Questions -> Versions],
         NEW t \in SUBSET Questions,
         poll' = [poll EXCEPT !.seen = version, !.todo = t,
                              !.room = MaxQuestions]
  PROVE  poll' \in PollType /\ poll'.act = poll.act /\ poll'.seen = version
<1>1. MaxQuestions \in 0 .. MaxQuestions
  BY BoundsAreNumbers
<1>2. version \in [Questions -> Versions \cup {None}]
  OBVIOUS
<1>3. [poll EXCEPT !.seen = version] \in PollType
  BY <1>2 DEF PollType
<1>4. [poll EXCEPT !.seen = version, !.todo = t] \in PollType
  BY <1>3 DEF PollType
<1> QED
  BY <1>1, <1>4 DEF PollType

\* A question taken up in the recovery loop, or found settled.
LEMMA RecoverTypes ==
  ASSUME poll \in PollType, NEW q \in Questions, Recover(q)
  PROVE  /\ poll' \in PollType
         /\ poll'.act = poll.act
         /\ poll'.seen = poll.seen
         /\ pc' = "verify" => poll'.cur = q
         /\ pc' \in {"recover", "verify"}
<1>1. CASE Settled(q)
  <2>1. poll' = [poll EXCEPT !.todo = @ \ {q}, !.cur = None]
    BY <1>1, Zenon DEF Recover, Done
  <2> QED
    BY <1>1, <2>1 DEF Recover, PollType
<1>2. CASE ~Settled(q)
  <2>1. poll' = [poll EXCEPT !.cur = q]
    BY <1>2, Zenon DEF Recover
  <2> QED
    BY <1>2, <2>1 DEF Recover, PollType
<1> QED
  BY <1>1, <1>2

LEMMA TypesOfPoll ==
  ASSUME Types, Poll
  PROVE  Types'
<1> USE DEF Types, TypeOK, vars, store, question, platform, worker, counts,
            history
<1>1. CASE BeginPoll
  <2> DEFINE pending == {q \in Questions : ledger.intent[q]}
  <2>2. pending \in SUBSET Questions
    OBVIOUS
  <2>3. poll' = [NoPoll EXCEPT !.act = ledger.act, !.todo = pending]
    BY <1>1 DEF BeginPoll
  <2>4. ledger.act \in Acts /\ ledger.act \in 0 .. MaxActs
    BY <1>1, BoundsAreNumbers DEF BeginPoll, LedgerType, Acts
  <2> HIDE DEF pending
  <2>1. poll' \in PollType /\ poll'.act \in Acts /\ poll'.seen = NoPoll.seen
    BY ONLY <2>2, <2>3, <2>4, BegunTypes
  <2> QED
    BY <1>1, <2>1 DEF BeginPoll, Recovering
<1>2. CASE BeginQuestions
  <2>1. CASE ledger.spendingHeld
    <3>1. poll' \in PollType /\ poll'.seen = NoPoll.seen
      BY <1>2, <2>1, BoundsAreNumbers DEF BeginQuestions, PollType, NoPoll
    <3> QED
      BY <1>2, <2>1, <3>1 DEF BeginQuestions, Recovering
  <2>2. CASE ~ledger.spendingHeld
    <3> DEFINE shown == {q \in Questions : open[q]}
    <3>2. shown \in SUBSET Questions
      OBVIOUS
    <3>3. poll' = [poll EXCEPT !.seen = version, !.todo = shown,
                               !.room = MaxQuestions]
      BY <1>2, <2>2 DEF BeginQuestions
    <3>4. poll \in PollType /\ version \in [Questions -> Versions]
      OBVIOUS
    <3> HIDE DEF shown
    <3>1. /\ poll' \in PollType
          /\ poll'.act = poll.act
          /\ poll'.seen = version
      BY ONLY <3>2, <3>3, <3>4, FetchedTypes
    <3> QED
      BY <1>2, <2>2, <3>1, <3>4 DEF BeginQuestions, Fetched
  <2> QED
    BY <2>1, <2>2
<1>3. CASE EndPoll
  <2>1. poll' \in PollType /\ poll'.seen = NoPoll.seen
    BY <1>3, BoundsAreNumbers DEF EndPoll, PollType, NoPoll
  <2> QED
    BY <1>3, <2>1 DEF EndPoll, Recovering
<1> QED
  BY <1>1, <1>2, <1>3 DEF Poll

\* The two rows a gate or an attempt appends.
LEMMA BlockTypes ==
  ASSUME ledger \in LedgerType, NEW q \in Questions, Key(q) \in Keys,
         NEW reason \in {"exhausted", "deterministic"}, Block(q, reason)
  PROVE  ledger' \in LedgerType
<1> DEFINE row == [at |-> Key(q), reason |-> reason]
           rows == [ledger.blocked EXCEPT ![q] = Append(@, row)]
<1>1. row \in Rows
  BY DEF Rows
<1>2. ledger.blocked \in [Questions -> Seq(Rows)]
  BY DEF LedgerType
<1>3. ledger' = [ledger EXCEPT !.blocked = rows]
  BY DEF Block, LedgerType
<1> HIDE DEF row
<1>4. rows \in [Questions -> Seq(Rows)]
  BY <1>1, <1>2
<1> HIDE DEF rows
<1> QED
  BY <1>3, <1>4 DEF LedgerType

LEMMA StartTypes ==
  ASSUME ledger \in LedgerType, NEW q \in Questions, NEW key \in Keys
  PROVE  [ledger EXCEPT !.started[q] = Append(@, key)] \in LedgerType
<1> DEFINE rows == [ledger.started EXCEPT ![q] = Append(@, key)]
<1>1. ledger.started \in [Questions -> Seq(Keys)]
  BY DEF LedgerType
<1>2. rows \in [Questions -> Seq(Keys)]
  BY <1>1
<1>3. [ledger EXCEPT !.started[q] = Append(@, key)]
        = [ledger EXCEPT !.started = rows]
  BY DEF LedgerType
<1> HIDE DEF rows
<1> QED
  BY <1>2, <1>3 DEF LedgerType

LEMMA TypesOfGates ==
  ASSUME Types, NEW q \in Questions,
         \/ Recover(q) \/ Exhaust(q) \/ Skip(q)
         \/ Resume(q) \/ OpenWindow(q) \/ ReuseWindow(q)
  PROVE  Types'
<1>1. TypeOK
  BY DEF Types
<1>2. CASE Recover(q)
  <2>1. /\ poll' \in PollType
        /\ poll'.act = poll.act
        /\ poll'.seen = poll.seen
        /\ pc' = "verify" => poll'.cur = q
        /\ pc' \in {"recover", "verify"}
    BY <1>1, <1>2, RecoverTypes DEF TypeOK
  <2> QED
    BY <1>1, <1>2, <2>1, MoveTypes
    DEF Recover, Types, TypeOK, store, platform, counts, history
<1>3. pc = "gate" => /\ Fetched
                     /\ Key(q) \in Keys
                     /\ poll.seen[q] \in Versions
  BY <1>1 DEF Types, Fetched, Key, Keys
<1>4. CASE Exhaust(q)
  <2>1. poll' \in PollType /\ poll'.act = poll.act /\ poll'.seen = poll.seen
    BY <1>1, <1>4 DEF Exhaust, Done, TypeOK, PollType
  <2>2. ledger' \in LedgerType
    BY <1>1, <1>3, <1>4, BlockTypes DEF Exhaust, Reached, TypeOK
  <2> QED
    BY <1>1, <1>3, <1>4, <2>1, <2>2, MoveTypes
    DEF Exhaust, Reached, Types, TypeOK, platform, counts, history
<1>5. CASE Skip(q)
  <2>1. poll' \in PollType /\ poll'.act = poll.act /\ poll'.seen = poll.seen
    BY <1>1, <1>5 DEF Skip, Done, TypeOK, PollType
  <2> QED
    BY <1>1, <1>3, <1>5, <2>1, MoveTypes
    DEF Skip, Reached, Types, TypeOK, store, platform, counts, history
<1>6. ASSUME TakeUp(q)
      PROVE  /\ poll' \in PollType
             /\ poll'.act = poll.act
             /\ poll'.seen = poll.seen
             /\ poll'.cur = q
             /\ pc = "gate"
  <2>1. poll.room - 1 \in 0 .. MaxQuestions
    BY <1>1, <1>6, BoundsAreNumbers DEF TakeUp, TypeOK, PollType
  <2> QED
    BY <1>1, <1>6, <2>1 DEF TakeUp, Reached, TypeOK, PollType
<1>7. CASE Resume(q)
  BY <1>1, <1>3, <1>6, <1>7, MoveTypes
  DEF Resume, Types, TypeOK, store, platform, counts, history
<1>8. CASE OpenWindow(q)
  <2>1. ledger' \in LedgerType
    BY <1>1, <1>3, <1>6, <1>8, StartTypes DEF OpenWindow, TypeOK
  <2>2. age' \in [Questions -> 0 .. Window + 1]
    BY <1>1, <1>8, BoundsAreNumbers DEF OpenWindow, TypeOK
  <2> QED
    BY <1>1, <1>3, <1>6, <1>8, <2>1, <2>2, MoveTypes
    DEF OpenWindow, Types, TypeOK, platform, counts, history
<1>9. CASE ReuseWindow(q)
  BY <1>1, <1>3, <1>6, <1>9, MoveTypes
  DEF ReuseWindow, Types, TypeOK, store, platform, counts, history
<1> QED
  BY <1>2, <1>4, <1>5, <1>7, <1>8, <1>9

LEMMA TypesOfAttempts ==
  ASSUME Types, NEW q \in Questions,
         Record(q) \/ Pace(q) \/ Refuse(q) \/ Fail(q)
  PROVE  Types'
<1>1. TypeOK
  BY DEF Types
<1>2. Attempting(q)
  BY DEF Record, Pace, Refuse, Fail
<1>3. Fetched /\ Key(q) \in Keys /\ poll.seen[q] \in Versions
  BY <1>1, <1>2 DEF Attempting, Types, Fetched, Key, Keys
<1>4. CASE Record(q)
  <2>1. ledger' \in LedgerType
    BY <1>1, <1>3, <1>4 DEF Record, TypeOK, LedgerType
  <2> QED
    BY <1>1, <1>3, <1>4, <2>1, MoveTypes
    DEF Record, Attempting, Types, TypeOK, platform, counts, history
<1>5. CASE Pace(q)
  <2>1. ledger' \in LedgerType
    <3>1. [row |-> Len(ledger.started[q]), key |-> Key(q)] \in Waits
      BY <1>1, <1>3 DEF TypeOK, LedgerType, Waits
    <3> QED
      BY <1>1, <1>5, <3>1 DEF Pace, TypeOK, LedgerType
  <2>2. paid' \in [Questions -> [Keys -> Nat]]
    BY <1>1, <1>3, <1>5 DEF Pace, TypeOK
  <2> QED
    BY <1>1, <1>2, <1>3, <1>5, <2>1, <2>2, LeaveTypes, MoveTypes
    DEF Pace, Attempting, Types, TypeOK, platform, counts
<1>6. CASE Refuse(q)
  <2>1. ledger' \in LedgerType
    BY <1>1, <1>3, <1>6, BlockTypes DEF Refuse, TypeOK
  <2> QED
    BY <1>1, <1>2, <1>3, <1>6, <2>1, LeaveTypes, MoveTypes
    DEF Refuse, Attempting, Types, TypeOK, platform, counts, history
<1>7. CASE Fail(q)
  BY <1>1, <1>2, <1>3, <1>7, LeaveTypes, MoveTypes
  DEF Fail, Attempting, Types, TypeOK, store, platform, counts, history
<1> QED
  BY <1>4, <1>5, <1>6, <1>7

LEMMA TypesOfPosts ==
  ASSUME Types, NEW q \in Questions,
         \/ Withhold(q) \/ Intend(q) \/ Send(q) \/ RecordRefusal(q)
         \/ Verify(q) \/ Unverified(q)
  PROVE  Types'
<1>1. TypeOK
  BY DEF Types
<1>2. CASE Withhold(q)
  BY <1>1, <1>2, LeaveTypes, MoveTypes
  DEF Withhold, Types, TypeOK, store, platform, counts, history
<1>3. CASE Intend(q)
  <2>1. ledger' \in LedgerType
    BY <1>1, <1>3 DEF Intend, TypeOK, LedgerType
  <2>2. guards' \in SUBSET Questions
    BY <1>1, <1>3 DEF Intend, TypeOK
  <2> QED
    BY <1>1, <1>3, <2>1, <2>2, MoveTypes
    DEF Intend, Types, TypeOK, platform, counts, history
<1>4. CASE Send(q)
  <2>1. /\ forecast' \in [Questions ->
                            {"none", "delayed", "up", "lost", "refused"}]
        /\ pc' \in {"refusal", "verify"}
    BY <1>1, <1>4 DEF Send, TypeOK
  <2>2. sent' \in [Questions -> [forecast : Nat, comment : Nat]]
    <3>1. sent \in [Questions -> [forecast : Nat, comment : Nat]]
      BY <1>1 DEF TypeOK
    <3>2. sent' = [sent EXCEPT ![q].forecast = @ + 1]
      BY <1>4 DEF Send
    <3> QED
      BY ONLY <3>1, <3>2
  <2> QED
    BY <1>1, <1>4, <2>1, <2>2, MoveTypes
    DEF Send, Types, TypeOK, store, counts
<1>5. CASE RecordRefusal(q)
  <2>1. ledger' \in LedgerType
    BY <1>1, <1>5 DEF RecordRefusal, TypeOK, LedgerType
  <2> QED
    BY <1>1, <1>5, <2>1, LeaveTypes, MoveTypes
    DEF RecordRefusal, Types, TypeOK, platform, counts, history
<1>6. CASE Verify(q)
  <2>1. ledger' \in LedgerType
    BY <1>1, <1>6 DEF Verify, TypeOK, LedgerType
  <2> QED
    BY <1>1, <1>6, <2>1, MoveTypes
    DEF Verify, Types, TypeOK, platform, counts, history
<1>7. CASE Unverified(q)
  BY <1>1, <1>7, LeaveTypes, MoveTypes
  DEF Unverified, Types, TypeOK, store, platform, counts, history
<1> QED
  BY <1>2, <1>3, <1>4, <1>5, <1>6, <1>7

LEMMA TypesOfComments ==
  ASSUME Types, NEW q \in Questions,
         FindComment(q) \/ LeaveComment(q) \/ IntendComment(q) \/ Publish(q)
  PROVE  Types'
<1>1. TypeOK
  BY DEF Types
<1>2. CASE FindComment(q)
  <2>1. ledger' \in LedgerType
    BY <1>1, <1>2 DEF FindComment, TypeOK, LedgerType
  <2> QED
    BY <1>1, <1>2, <2>1, LeaveTypes, MoveTypes
    DEF FindComment, Types, TypeOK, platform, counts, history
<1>3. CASE LeaveComment(q)
  BY <1>1, <1>3, LeaveTypes, MoveTypes
  DEF LeaveComment, Types, TypeOK, store, platform, counts, history
<1>4. CASE IntendComment(q)
  <2>1. ledger' \in LedgerType
    BY <1>1, <1>4 DEF IntendComment, TypeOK, LedgerType
  <2> QED
    BY <1>1, <1>4, <2>1, MoveTypes
    DEF IntendComment, Types, TypeOK, platform, counts, history
<1>5. CASE Publish(q)
  <2>1. comments' \in [Questions -> [delayed : Nat, up : Nat]]
    <3>1. comments \in [Questions -> [delayed : Nat, up : Nat]]
      BY <1>1 DEF TypeOK
    <3>2. CASE comments' = [comments EXCEPT ![q].up = @ + 1]
      BY ONLY <3>1, <3>2
    <3>3. CASE comments' = [comments EXCEPT ![q].delayed = @ + 1]
      BY ONLY <3>1, <3>3
    <3> QED
      BY <1>5, <3>2, <3>3 DEF Publish
  <2>2. sent' \in [Questions -> [forecast : Nat, comment : Nat]]
    <3>1. sent \in [Questions -> [forecast : Nat, comment : Nat]]
      BY <1>1 DEF TypeOK
    <3>2. sent' = [sent EXCEPT ![q].comment = @ + 1]
      BY <1>5 DEF Publish
    <3> QED
      BY ONLY <3>1, <3>2
  <2>3. \/ pc' = "comment" /\ poll' = poll
        \/ Leave(q)
    BY <1>5 DEF Publish
  <2> QED
    BY <1>1, <1>5, <2>1, <2>2, <2>3, LeaveTypes, MoveTypes
    DEF Publish, Types, TypeOK, store, counts
<1> QED
  BY <1>2, <1>3, <1>4, <1>5

LEMMA TypesOfWorld ==
  ASSUME Types,
         \/ Die \/ Tick \/ Enable \/ Backup \/ Restore
         \/ \E q \in Questions : Edit(q) \/ Close(q) \/ Land(q) \/ LandComment(q)
  PROVE  Types'
<1>1. TypeOK
  BY DEF Types
<1> USE <1>1 DEF store, question, platform, worker, counts, history
<1>2. CASE Die
  <2>1. NoPoll \in PollType
    BY BoundsAreNumbers DEF NoPoll, PollType
  <2> QED
    BY <1>2, <2>1, BoundsAreNumbers DEF Die, Types, TypeOK, Recovering
<1>3. ASSUME UNCHANGED <<pc, poll>>, TypeOK'
      PROVE  Types'
  BY <1>3 DEF Types, Fetched, Recovering, NoPoll
<1>4. CASE Tick
  <2>1. age' \in [Questions -> 0 .. Window + 1]
    <3> SUFFICES ASSUME NEW q \in Questions
                 PROVE  (IF age[q] <= Window THEN age[q] + 1 ELSE age[q])
                          \in 0 .. Window + 1
      BY <1>4 DEF Tick
    <3> QED
      BY BoundsAreNumbers DEF TypeOK
  <2> QED
    BY <1>3, <1>4, <2>1 DEF Tick, TypeOK
<1>5. CASE Enable
  <2>1. minted + 1 \in 0 .. MaxActs
    BY <1>5, BoundsAreNumbers DEF Enable, TypeOK
  <2>2. ledger' \in LedgerType
    BY <1>5, <2>1 DEF Enable, TypeOK, LedgerType
  <2> QED
    BY <1>3, <1>5, <2>1, <2>2 DEF Enable, TypeOK
<1>6. CASE Backup
  BY <1>3, <1>6 DEF Backup, TypeOK
<1>7. CASE Restore
  <2>1. backup \in LedgerType
    BY <1>7 DEF Restore, TypeOK
  <2>4. restores' \in 0 .. MaxRestores
    <3>1. /\ restores' = restores + 1
          /\ restores < MaxRestores
          /\ restores \in 0 .. MaxRestores
      BY <1>7 DEF Restore, TypeOK
    <3> QED
      BY ONLY <3>1, BoundsAreNumbers
  <2>2. ledger' \in LedgerType
    <3>1. PICK spent \in BOOLEAN :
             ledger' = [backup EXCEPT
                          !.held = [q \in Questions |->
                             @[q] \/ (q \in guards /\ ~backup.intent[q])],
                          !.spendingHeld = @ \/ spent]
      BY <1>7 DEF Restore
    <3> DEFINE holds == [q \in Questions |->
                  backup.held[q] \/ (q \in guards /\ ~backup.intent[q])]
    <3>2. holds \in [Questions -> BOOLEAN]
      OBVIOUS
    <3>3. (backup.spendingHeld \/ spent) \in BOOLEAN
      OBVIOUS
    <3>4. ledger' = [backup EXCEPT !.held = holds,
                       !.spendingHeld = backup.spendingHeld \/ spent]
      BY <2>1, <3>1 DEF LedgerType
    <3> HIDE DEF holds
    <3>5. [backup EXCEPT !.held = holds] \in LedgerType
      BY ONLY <2>1, <3>2 DEF LedgerType
    <3> QED
      BY ONLY <3>3, <3>4, <3>5 DEF LedgerType
  <2>3. age' \in [Questions -> 0 .. Window + 1]
    BY <1>7 DEF Restore, Older
  <2> QED
    BY <1>3, <1>7, <2>2, <2>3, <2>4 DEF Restore, TypeOK
<1>8. ASSUME NEW q \in Questions,
             Edit(q) \/ Close(q) \/ Land(q) \/ LandComment(q)
      PROVE  Types'
  <2>1. CASE Edit(q)
    <3>1. edits' \in 0 .. MaxEdits
      BY <2>1, BoundsAreNumbers DEF Edit, TypeOK
    <3> QED
      BY <1>3, <2>1, <3>1 DEF Edit, TypeOK
  <2>2. CASE Close(q)
    BY <1>3, <2>2 DEF Close, TypeOK
  <2>3. CASE Land(q)
    BY <1>3, <2>3 DEF Land, TypeOK
  <2>4. CASE LandComment(q)
    <3>1. comments' \in [Questions -> [delayed : Nat, up : Nat]]
      BY <2>4 DEF LandComment, TypeOK
    <3> QED
      BY <1>3, <2>4, <3>1 DEF LandComment, TypeOK
  <2> QED
    BY <1>8, <2>1, <2>2, <2>3, <2>4
<1> QED
  BY <1>2, <1>4, <1>5, <1>6, <1>7, <1>8

LEMMA NextTypes ==
  ASSUME Types, [Next]_vars
  PROVE  Types'
<1>1. CASE UNCHANGED vars
  BY <1>1 DEF vars, store, question, platform, worker, counts, history,
              Types, TypeOK, Fetched, Recovering, NoPoll
<1>2. CASE Next
  <2>1. ASSUME NEW q \in Questions, Work(q)
        PROVE  Types'
    BY <2>1, TypesOfGates, TypesOfAttempts, TypesOfPosts, TypesOfComments
    DEF Work
  <2> QED
    BY <1>2, <2>1, TypesOfPoll, TypesOfWorld DEF Next
<1> QED
  BY <1>1, <1>2

-----------------------------------------------------------------------------
(* Forecasts.                                                              *)

\* A step that sends no forecast and touches neither guard nor holds.
LEMMA ForecastsKept ==
  ASSUME Forecasts,
         \A q \in Questions : sent'[q].forecast = sent[q].forecast,
         \A q \in Questions : forecast[q] = "none" => forecast'[q] = "none",
         guards' = guards,
         ledger'.intent = ledger.intent,
         ledger'.held = ledger.held,
         pc' = "send" => pc = "send" /\ poll'.cur = poll.cur
  PROVE  Forecasts'
BY DEF Forecasts

LEMMA ForecastsOfWork ==
  ASSUME Types, Forecasts, NEW q \in Questions, Work(q)
  PROVE  Forecasts'
<1> USE DEF store, platform, question, counts, history
<1>1. /\ ledger \in LedgerType
      /\ sent \in [Questions -> [forecast : Nat, comment : Nat]]
      /\ forecast \in [Questions ->
                          {"none", "delayed", "up", "lost", "refused"}]
  BY DEF Types, TypeOK
<1>2. CASE Recover(q) \/ Exhaust(q) \/ Skip(q)
  <2>1. pc' # "send"
    BY <1>2, Zenon DEF Recover, Exhaust, Skip, Reached
  <2>2. ledger'.intent = ledger.intent /\ ledger'.held = ledger.held
    BY <1>1, <1>2 DEF Recover, Exhaust, Skip, Block, LedgerType
  <2> QED
    BY <1>2, <2>1, <2>2, ForecastsKept DEF Recover, Exhaust, Skip
<1>3. CASE Resume(q) \/ OpenWindow(q) \/ ReuseWindow(q)
  <2>1. ledger'.intent = ledger.intent /\ ledger'.held = ledger.held
    BY <1>1, <1>3 DEF Resume, OpenWindow, ReuseWindow, LedgerType
  <2> QED
    BY <1>3, <2>1, ForecastsKept DEF Resume, OpenWindow, ReuseWindow
<1>4. CASE Record(q) \/ Pace(q) \/ Refuse(q) \/ Fail(q)
  <2>1. ledger'.intent = ledger.intent /\ ledger'.held = ledger.held
    BY <1>1, <1>4 DEF Record, Pace, Refuse, Fail, Block, LedgerType
  <2>2. /\ pc' # "send"
        /\ sent' = sent /\ forecast' = forecast /\ guards' = guards
    BY <1>4 DEF Record, Pace, Refuse, Fail, Leave
  <2> QED
    BY <2>1, <2>2, ForecastsKept
<1>5. CASE Withhold(q) \/ RecordRefusal(q) \/ Verify(q) \/ Unverified(q)
  <2>1. ledger'.intent = ledger.intent /\ ledger'.held = ledger.held
    BY <1>1, <1>5
    DEF Withhold, RecordRefusal, Verify, Unverified, LedgerType
  <2>2. /\ pc' # "send"
        /\ sent' = sent /\ forecast' = forecast /\ guards' = guards
    BY <1>5 DEF Withhold, RecordRefusal, Verify, Unverified, Leave
  <2> QED
    BY <2>1, <2>2, ForecastsKept
<1>6. CASE Intend(q)
  <2>1. /\ ledger'.intent = [ledger.intent EXCEPT ![q] = TRUE]
        /\ ledger'.held = ledger.held
    BY <1>1, <1>6 DEF Intend, LedgerType
  <2>2. q \notin guards
    BY <1>6 DEF Intend, Forecasts
  <2>3. sent[q].forecast = 0
    BY <2>2 DEF Forecasts
  <2>4. ledger.intent \in [Questions -> BOOLEAN]
    BY <1>1 DEF LedgerType
  <2> QED
    BY <1>6, <2>1, <2>2, <2>3, <2>4 DEF Intend, Forecasts
<1>7. CASE Send(q)
  <2>1. /\ sent'[q].forecast = sent[q].forecast + 1
        /\ \A r \in Questions \ {q} : sent'[r].forecast = sent[r].forecast
        /\ \A r \in Questions \ {q} : forecast'[r] = forecast[r]
        /\ pc' # "send"
        /\ ledger' = ledger /\ guards' = guards
    BY <1>1, <1>7 DEF Send
  <2>2. sent[q].forecast = 0 /\ q \in guards
    BY <1>7 DEF Send, Forecasts
  <2> QED
    BY <2>1, <2>2 DEF Forecasts
<1>8. CASE FindComment(q) \/ LeaveComment(q) \/ IntendComment(q)
  <2>1. ledger'.intent = ledger.intent /\ ledger'.held = ledger.held
    BY <1>1, <1>8 DEF FindComment, LeaveComment, IntendComment, LedgerType
  <2>2. /\ pc' # "send"
        /\ sent' = sent /\ forecast' = forecast /\ guards' = guards
    BY <1>8 DEF FindComment, LeaveComment, IntendComment, Leave
  <2> QED
    BY <2>1, <2>2, ForecastsKept
<1>9. CASE Publish(q)
  <2>1. \A r \in Questions : sent'[r].forecast = sent[r].forecast
    BY <1>1, <1>9 DEF Publish
  <2>2. /\ pc' # "send"
        /\ ledger' = ledger /\ forecast' = forecast /\ guards' = guards
    BY <1>9 DEF Publish, Leave
  <2> QED
    BY <2>1, <2>2, ForecastsKept
<1> QED
  BY <1>2, <1>3, <1>4, <1>5, <1>6, <1>7, <1>8, <1>9 DEF Work

LEMMA ForecastsOfNext ==
  ASSUME Types, Forecasts, [Next]_vars
  PROVE  Forecasts'
<1> USE DEF store, platform, question, worker, counts, history
<1>1. ledger \in LedgerType
  BY DEF Types, TypeOK
<1>2. CASE UNCHANGED vars
  BY <1>2, ForecastsKept DEF vars
<1>3. CASE Poll \/ Die \/ Tick \/ Backup
  <2>1. /\ ledger' = ledger /\ guards' = guards
        /\ sent' = sent /\ forecast' = forecast
    BY <1>3
    DEF Poll, BeginPoll, BeginQuestions, EndPoll, Die, Tick, Backup
  <2>2. pc' = "send" => pc = "send" /\ poll'.cur = poll.cur
    BY <1>3
    DEF Poll, BeginPoll, BeginQuestions, EndPoll, Die, Tick, Backup,
        Reached
  <2> QED
    BY <2>1, <2>2, ForecastsKept
<1>4. CASE Enable
  <2>1. ledger'.intent = ledger.intent /\ ledger'.held = ledger.held
    BY <1>1, <1>4 DEF Enable, LedgerType
  <2> QED
    BY <1>4, <2>1, ForecastsKept DEF Enable
<1>5. CASE Restore
  <2>1. backup \in LedgerType
    BY <1>5 DEF Restore, Types, TypeOK
  <2>2. \A q \in Questions :
           q \in guards => ledger'.intent[q] \/ ledger'.held[q]
    <3> SUFFICES ASSUME NEW q \in Questions, q \in guards
                 PROVE  ledger'.intent[q] \/ ledger'.held[q]
      OBVIOUS
    <3> DEFINE holds == [r \in Questions |->
                 backup.held[r] \/ (r \in guards /\ ~backup.intent[r])]
    <3>1. PICK spent \in BOOLEAN :
             ledger' = [backup EXCEPT
                          !.held = [r \in Questions |->
                             @[r] \/ (r \in guards /\ ~backup.intent[r])],
                          !.spendingHeld = @ \/ spent]
      BY <1>5 DEF Restore
    <3>2. ledger'.intent = backup.intent /\ ledger'.held = holds
      BY <2>1, <3>1 DEF LedgerType
    <3>3. holds[q] \/ backup.intent[q]
      OBVIOUS
    <3> QED
      BY <3>2, <3>3
  <2>3. /\ guards' = guards /\ sent' = sent /\ forecast' = forecast
        /\ pc' = "idle"
    BY <1>5 DEF Restore
  <2> QED
    BY <2>2, <2>3 DEF Forecasts
<1>6. ASSUME NEW q \in Questions,
             Edit(q) \/ Close(q) \/ Land(q) \/ LandComment(q)
      PROVE  Forecasts'
  <2>1. \A r \in Questions : forecast[r] = "none" => forecast'[r] = "none"
    BY <1>6 DEF Edit, Close, Land, LandComment, Types, TypeOK
  <2> QED
    BY <1>6, <2>1, ForecastsKept DEF Edit, Close, Land, LandComment
<1> QED
  BY <1>2, <1>3, <1>4, <1>5, <1>6, ForecastsOfWork DEF Next

-----------------------------------------------------------------------------
(* Comments.                                                               *)

Answered(q) == forecast[q] \in {"up", "lost", "refused"}

\* What became of a forecast stays so, and no POST is made after it.
LEMMA AnswersStay ==
  ASSUME Types, Forecasts, [Next]_vars
  PROVE  \A q \in Questions : Answered(q) => forecast'[q] = forecast[q]
<1> USE DEF Answered, store, platform, question, worker, counts, history
<1>1. CASE UNCHANGED vars
  BY <1>1 DEF vars
<1>2. CASE Poll \/ Die \/ Tick \/ Enable \/ Backup \/ Restore
  BY <1>2 DEF Poll, BeginPoll, BeginQuestions, EndPoll, Die, Tick,
              Enable, Backup, Restore
<1>3. ASSUME NEW q \in Questions,
             Edit(q) \/ Close(q) \/ Land(q) \/ LandComment(q)
      PROVE  \A r \in Questions : Answered(r) => forecast'[r] = forecast[r]
  BY <1>3 DEF Edit, Close, Land, LandComment, Types, TypeOK
<1>4. ASSUME NEW q \in Questions, Work(q)
      PROVE  \A r \in Questions : Answered(r) => forecast'[r] = forecast[r]
  <2>1. CASE Send(q)
    <3>1. forecast[q] = "none"
      BY <2>1 DEF Send, Forecasts
    <3>2. \A r \in Questions \ {q} : forecast'[r] = forecast[r]
      BY <2>1 DEF Send, Types, TypeOK
    <3> QED
      BY <3>1, <3>2
  <2>2. CASE ~Send(q)
    <3>1. forecast' = forecast
      BY <1>4, <2>2
      DEF Work, Recover, Exhaust, Skip, Resume, OpenWindow, ReuseWindow,
          Record, Pace, Refuse, Fail, Withhold, Intend, RecordRefusal,
          Verify, Unverified, FindComment, LeaveComment, IntendComment,
          Publish
    <3> QED
      BY <3>1
  <2> QED
    BY <2>1, <2>2
<1> QED
  BY <1>1, <1>2, <1>3, <1>4 DEF Next

\* A step that sends no comment, confirms nothing and starts no publication.
LEMMA CommentsKept ==
  ASSUME Comments,
         \A q \in Questions : forecast[q] = "up" => forecast'[q] = "up",
         \A q \in Questions : sent'[q].comment = sent[q].comment,
         ledger'.confirmed = ledger.confirmed,
         backup' = backup,
         pc' = "publish" => pc = "publish" /\ poll'.cur = poll.cur
  PROVE  Comments'
BY DEF Comments

LEMMA CommentsOfWork ==
  ASSUME Types, Forecasts, Comments, NEW q \in Questions, Work(q)
  PROVE  Comments'
<1> USE DEF store, platform, question, counts, history
<1>1. /\ ledger \in LedgerType
      /\ sent \in [Questions -> [forecast : Nat, comment : Nat]]
  BY DEF Types, TypeOK
<1>2. /\ \A r \in Questions : forecast[r] = "up" => forecast'[r] = "up"
      /\ backup' = backup
  <2>1. backup' = backup
    BY DEF Work, Recover, Exhaust, Skip, Resume, OpenWindow, ReuseWindow,
           Record, Pace, Refuse, Fail, Withhold, Intend, Send,
           RecordRefusal, Verify, Unverified, FindComment, LeaveComment,
           IntendComment, Publish
  <2> QED
    BY <2>1, AnswersStay DEF Next, Answered
<1>3. CASE Recover(q) \/ Exhaust(q) \/ Skip(q)
  <2>1. pc' # "publish"
    BY <1>3, Zenon DEF Recover, Exhaust, Skip, Reached
  <2>2. ledger'.confirmed = ledger.confirmed
    BY <1>1, <1>3 DEF Recover, Exhaust, Skip, Block, LedgerType
  <2>3. sent' = sent
    BY <1>3 DEF Recover, Exhaust, Skip
  <2> QED
    BY <1>2, <2>1, <2>2, <2>3, CommentsKept
<1>4. CASE Resume(q) \/ OpenWindow(q) \/ ReuseWindow(q)
  <2>1. ledger'.confirmed = ledger.confirmed
    BY <1>1, <1>4 DEF Resume, OpenWindow, ReuseWindow, LedgerType
  <2>2. pc' # "publish" /\ sent' = sent
    BY <1>4 DEF Resume, OpenWindow, ReuseWindow
  <2> QED
    BY <1>2, <2>1, <2>2, CommentsKept
<1>5. CASE Record(q) \/ Pace(q) \/ Refuse(q) \/ Fail(q)
  <2>1. ledger'.confirmed = ledger.confirmed
    BY <1>1, <1>5 DEF Record, Pace, Refuse, Fail, Block, LedgerType
  <2>2. pc' # "publish" /\ sent' = sent
    BY <1>5 DEF Record, Pace, Refuse, Fail, Leave
  <2> QED
    BY <1>2, <2>1, <2>2, CommentsKept
<1>6. CASE Withhold(q) \/ Intend(q) \/ RecordRefusal(q) \/ Unverified(q)
  <2>1. ledger'.confirmed = ledger.confirmed
    BY <1>1, <1>6
    DEF Withhold, Intend, RecordRefusal, Unverified, LedgerType
  <2>2. pc' # "publish" /\ sent' = sent
    BY <1>6 DEF Withhold, Intend, RecordRefusal, Unverified, Leave
  <2> QED
    BY <1>2, <2>1, <2>2, CommentsKept
<1>7. CASE Send(q)
  <2>1. \A r \in Questions : sent'[r].comment = sent[r].comment
    BY <1>1, <1>7 DEF Send
  <2>2. pc' # "publish" /\ ledger' = ledger
    BY <1>7 DEF Send
  <2> QED
    BY <1>2, <2>1, <2>2, CommentsKept
<1>8. CASE Verify(q)
  <2>1. /\ ledger'.confirmed = [ledger.confirmed EXCEPT ![q] = TRUE]
        /\ ledger.confirmed \in [Questions -> BOOLEAN]
    BY <1>1, <1>8 DEF Verify, LedgerType
  <2>2. /\ pc' = "comment" /\ sent' = sent
        /\ forecast[q] = "up" /\ forecast' = forecast
    BY <1>8 DEF Verify
  <2> QED
    BY <1>2, <2>1, <2>2 DEF Comments
<1>9. CASE FindComment(q) \/ LeaveComment(q)
  <2>1. ledger'.confirmed = ledger.confirmed
    BY <1>1, <1>9 DEF FindComment, LeaveComment, LedgerType
  <2>2. pc' # "publish" /\ sent' = sent
    BY <1>9 DEF FindComment, LeaveComment, Leave
  <2> QED
    BY <1>2, <2>1, <2>2, CommentsKept
<1>10. CASE IntendComment(q)
  <2>1. ledger'.confirmed = ledger.confirmed
    BY <1>1, <1>10 DEF IntendComment, LedgerType
  <2>2. /\ sent' = sent /\ poll' = poll /\ poll.cur = q
        /\ ledger.confirmed[q] /\ forecast' = forecast
    BY <1>10 DEF IntendComment
  <2> QED
    BY <1>2, <2>1, <2>2 DEF Comments
<1>11. CASE Publish(q)
  <2>1. /\ \A r \in Questions \ {q} : sent'[r].comment = sent[r].comment
        /\ pc' # "publish" /\ ledger' = ledger /\ forecast' = forecast
    BY <1>1, <1>11 DEF Publish, Leave
  <2>2. forecast[q] = "up"
    BY <1>11 DEF Publish, Comments
  <2> QED
    BY <1>2, <2>1, <2>2 DEF Comments
<1> QED
  BY <1>3, <1>4, <1>5, <1>6, <1>7, <1>8, <1>9, <1>10, <1>11 DEF Work

LEMMA CommentsOfNext ==
  ASSUME Types, Forecasts, Comments, [Next]_vars
  PROVE  Comments'
<1> USE DEF store, platform, question, worker, counts, history
<1>1. ledger \in LedgerType
  BY DEF Types, TypeOK
<1>2. \A q \in Questions : forecast[q] = "up" => forecast'[q] = "up"
  BY AnswersStay DEF Answered
<1>3. CASE UNCHANGED vars
  BY <1>2, <1>3, CommentsKept DEF vars
<1>4. CASE Poll \/ Die \/ Tick
  <2>1. ledger' = ledger /\ backup' = backup /\ sent' = sent
    BY <1>4
    DEF Poll, BeginPoll, BeginQuestions, EndPoll, Die, Tick
  <2>2. pc' = "publish" => pc = "publish" /\ poll'.cur = poll.cur
    BY <1>4
    DEF Poll, BeginPoll, BeginQuestions, EndPoll, Die, Tick, Reached
  <2> QED
    BY <1>2, <2>1, <2>2, CommentsKept
<1>5. CASE Enable
  <2>1. ledger'.confirmed = ledger.confirmed
    BY <1>1, <1>5 DEF Enable, LedgerType
  <2> QED
    BY <1>2, <1>5, <2>1, CommentsKept DEF Enable
<1>6. CASE Backup
  BY <1>2, <1>6 DEF Backup, Comments
<1>7. CASE Restore
  <2>1. backup \in LedgerType /\ backup # None
    BY <1>7 DEF Restore, Types, TypeOK
  <2>2. ledger'.confirmed = backup.confirmed
    BY <1>7, <2>1 DEF Restore, LedgerType
  <2>3. /\ backup' = backup /\ sent' = sent /\ forecast' = forecast
        /\ pc' = "idle"
    BY <1>7 DEF Restore
  <2> QED
    BY <2>1, <2>2, <2>3 DEF Comments
<1>8. ASSUME NEW q \in Questions,
             Edit(q) \/ Close(q) \/ Land(q) \/ LandComment(q)
      PROVE  Comments'
  BY <1>2, <1>8, CommentsKept DEF Edit, Close, Land, LandComment
<1> QED
  BY <1>3, <1>4, <1>5, <1>6, <1>7, <1>8, CommentsOfWork DEF Next

-----------------------------------------------------------------------------
(* Windows.                                                                *)

LEMMA CountOfAppend ==
  ASSUME NEW s \in Seq(Keys), NEW key \in Keys, NEW k \in Keys
  PROVE  /\ Count(s, k) \in Nat
         /\ Count(Append(s, key), k)
              = Count(s, k) + (IF key = k THEN 1 ELSE 0)
<1> DEFINE old == {i \in DOMAIN s : s[i] = k}
           new == {i \in DOMAIN Append(s, key) : Append(s, key)[i] = k}
<1>1. IsFiniteSet(old) /\ Cardinality(old) \in Nat
  <2>1. Len(s) \in Nat /\ DOMAIN s = 1 .. Len(s)
    OBVIOUS
  <2>2. IsFiniteSet(1 .. Len(s))
    BY <2>1, FS_Interval
  <2>3. old \subseteq 1 .. Len(s)
    BY <2>1
  <2> QED
    BY <2>2, <2>3, FS_Subset, FS_CardinalityType
<1>2. Cardinality(new) = Cardinality(old) + (IF key = k THEN 1 ELSE 0)
  <2>1. CASE key = k
    <3>1. new = old \cup {Len(s) + 1}
      BY <2>1
    <3>2. Len(s) + 1 \notin old
      OBVIOUS
    <3> HIDE DEF old, new
    <3> QED
      BY <1>1, <2>1, <3>1, <3>2, FS_AddElement
  <2>2. CASE key # k
    <3>1. new = old
      BY <2>2
    <3> HIDE DEF old, new
    <3> QED
      BY <1>1, <2>2, <3>1
  <2> QED
    BY <2>1, <2>2
<1>3. Count(s, k) = Cardinality(old)
  BY DEF Count
<1>4. Count(Append(s, key), k) = Cardinality(new)
  BY DEF Count
<1> HIDE DEF old, new
<1> QED
  BY <1>1, <1>2, <1>3, <1>4

LEMMA WindowsKept ==
  ASSUME Windows, ledger'.started = ledger.started, backup' = backup
  PROVE  Windows'
BY DEF Windows, FewWindows

LEMMA WindowsOfOpen ==
  ASSUME Types, Windows, NEW q \in Questions, OpenWindow(q)
  PROVE  Windows'
<1> DEFINE rows == [ledger.started EXCEPT ![q] = Append(@, Key(q))]
<1>1. ledger \in LedgerType /\ ledger.started \in [Questions -> Seq(Keys)]
  BY DEF Types, TypeOK, LedgerType
<1>2. Key(q) \in Keys
  BY DEF OpenWindow, TakeUp, Reached, Types, TypeOK, Fetched, Key, Keys
<1>3. ledger'.started = rows /\ backup' = backup
  BY <1>1 DEF OpenWindow, LedgerType
<1>4. Attempts(q, Key(q)) < MaxAttempts
  <2>1. Count(ledger.started[q], Key(q)) \in Nat
    BY <1>1, <1>2, CountOfAppend
  <2> QED
    BY <2>1, BoundsAreNumbers DEF OpenWindow, TakeUp, Eligible, Spent, Attempts
<1>5. ASSUME NEW r \in Questions, NEW k \in Keys
      PROVE  Count(rows[r], k) <= MaxAttempts
  <2>1. CASE r # q
    BY <1>1, <2>1 DEF Windows, FewWindows
  <2>2. CASE r = q
    <3>1. rows[q] = Append(ledger.started[q], Key(q))
      BY <1>1
    <3>2. /\ Count(ledger.started[q], k) \in Nat
          /\ Count(rows[q], k) = Count(ledger.started[q], k)
                                  + (IF Key(q) = k THEN 1 ELSE 0)
      BY <1>1, <1>2, <3>1, CountOfAppend
    <3>3. Count(ledger.started[q], k) <= MaxAttempts
      BY DEF Windows, FewWindows
    <3> HIDE DEF rows
    <3> QED
      BY <1>4, <2>2, <3>2, <3>3, BoundsAreNumbers DEF Attempts
  <2> QED
    BY <2>1, <2>2
<1> HIDE DEF rows
<1> QED
  BY <1>3, <1>5 DEF Windows, FewWindows

LEMMA WindowsOfNext ==
  ASSUME Types, Windows, [Next]_vars
  PROVE  Windows'
<1> USE DEF store, platform, question, worker, counts, history
<1>1. ledger \in LedgerType
  BY DEF Types, TypeOK
<1>2. CASE UNCHANGED vars
  BY <1>2, WindowsKept DEF vars
<1>3. CASE Poll \/ Die \/ Tick
  BY <1>3, WindowsKept
  DEF Poll, BeginPoll, BeginQuestions, EndPoll, Die, Tick
<1>4. CASE Enable
  <2>1. ledger'.started = ledger.started
    BY <1>1, <1>4 DEF Enable, LedgerType
  <2> QED
    BY <1>4, <2>1, WindowsKept DEF Enable
<1>5. CASE Backup
  BY <1>5 DEF Backup, Windows
<1>6. CASE Restore
  <2>1. backup \in LedgerType /\ backup # None /\ backup' = backup
    BY <1>6 DEF Restore, Types, TypeOK
  <2>2. ledger'.started = backup.started
    BY <1>6, <2>1 DEF Restore, LedgerType
  <2> QED
    BY <2>1, <2>2 DEF Windows, FewWindows
<1>7. ASSUME NEW q \in Questions,
             Edit(q) \/ Close(q) \/ Land(q) \/ LandComment(q)
      PROVE  Windows'
  BY <1>7, WindowsKept DEF Edit, Close, Land, LandComment
<1>8. ASSUME NEW q \in Questions, Work(q)
      PROVE  Windows'
  <2>1. CASE OpenWindow(q)
    BY <2>1, WindowsOfOpen
  <2>2. CASE ~OpenWindow(q)
    <3>1. ledger'.started = ledger.started
      BY <1>1, <1>8, <2>2
      DEF Work, Recover, Exhaust, Skip, Resume, ReuseWindow, Record, Pace,
          Refuse, Fail, Withhold, Intend, Send, RecordRefusal, Verify,
          Unverified, FindComment, LeaveComment, IntendComment, Publish,
          Block, LedgerType
    <3>2. backup' = backup
      BY <1>8, <2>2
      DEF Work, Recover, Exhaust, Skip, Resume, ReuseWindow, Record, Pace,
          Refuse, Fail, Withhold, Intend, Send, RecordRefusal, Verify,
          Unverified, FindComment, LeaveComment, IntendComment, Publish
    <3> QED
      BY <3>1, <3>2, WindowsKept
  <2> QED
    BY <2>1, <2>2
<1> QED
  BY <1>2, <1>3, <1>4, <1>5, <1>6, <1>7, <1>8 DEF Next

-----------------------------------------------------------------------------
(* Verdicts.                                                               *)

LEMMA VerdictsKept ==
  ASSUME Verdicts, ledger'.blocked = ledger.blocked, backup' = backup,
         pc' = "attempt" => pc = "attempt" /\ poll' = poll
  PROVE  Verdicts'
BY DEF Verdicts, OneVerdict, Blocked, Key

\* A verdict on a key that has none.
LEMMA VerdictsOfBlock ==
  ASSUME Types, Verdicts, NEW q \in Questions, Key(q) \in Keys,
         NEW reason \in {"exhausted", "deterministic"}, Block(q, reason),
         ~Blocked(q, Key(q)), backup' = backup, pc' # "attempt"
  PROVE  Verdicts'
<1> DEFINE row == [at |-> Key(q), reason |-> reason]
           rows == [ledger.blocked EXCEPT ![q] = Append(@, row)]
<1>1. ledger \in LedgerType /\ ledger.blocked \in [Questions -> Seq(Rows)]
  BY DEF Types, TypeOK, LedgerType
<1>2. ledger'.blocked = rows
  BY <1>1 DEF Block, LedgerType
<1>3. row \in Rows /\ row.at = Key(q)
  BY DEF Rows
<1>4. OneVerdict(ledger)
  BY DEF Verdicts
<1>5. ASSUME NEW r \in Questions, NEW i \in DOMAIN rows[r],
             NEW j \in DOMAIN rows[r], rows[r][i].at = rows[r][j].at
      PROVE  i = j
  <2>1. CASE r # q
    BY <1>1, <1>4, <1>5, <2>1 DEF OneVerdict
  <2>2. CASE r = q
    <3> DEFINE n == Len(ledger.blocked[q])
    <3>1. rows[q] = Append(ledger.blocked[q], row)
      BY <1>1
    <3>2. ledger.blocked[q] \in Seq(Rows)
      BY <1>1
    <3>3. /\ DOMAIN ledger.blocked[q] = 1 .. n
          /\ DOMAIN rows[q] = 1 .. (n + 1)
          /\ n \in Nat
          /\ \A h \in 1 .. n : rows[q][h] = ledger.blocked[q][h]
          /\ rows[q][n + 1] = row
      <4> HIDE DEF row, rows
      <4> QED
        BY <1>3, <3>1, <3>2
    <3>4. \A h \in 1 .. n : rows[q][h].at # Key(q)
      BY <3>3 DEF Blocked
    <3> HIDE DEF row, rows, n
    <3>5. CASE i \in 1 .. n /\ j \in 1 .. n
      BY <1>4, <1>5, <2>2, <3>3, <3>5 DEF OneVerdict
    <3>6. CASE i = n + 1 \/ j = n + 1
      BY <1>3, <1>5, <2>2, <3>3, <3>4, <3>6
    <3> QED
      BY <1>5, <2>2, <3>3, <3>5, <3>6
  <2> QED
    BY <2>1, <2>2
<1> HIDE DEF rows
<1> QED
  BY <1>2, <1>5 DEF Verdicts, OneVerdict

LEMMA VerdictsOfNext ==
  ASSUME Types, Verdicts, [Next]_vars
  PROVE  Verdicts'
<1> USE DEF store, platform, question, worker, counts, history
<1>1. ledger \in LedgerType
  BY DEF Types, TypeOK
<1>2. CASE UNCHANGED vars
  BY <1>2, VerdictsKept DEF vars
<1>3. CASE Poll \/ Die \/ Tick
  BY <1>3, VerdictsKept
  DEF Poll, BeginPoll, BeginQuestions, EndPoll, Die, Tick, Reached
<1>4. CASE Enable
  <2>1. ledger'.blocked = ledger.blocked
    BY <1>1, <1>4 DEF Enable, LedgerType
  <2> QED
    BY <1>4, <2>1, VerdictsKept DEF Enable
<1>5. CASE Backup
  BY <1>5 DEF Backup, Verdicts
<1>6. CASE Restore
  <2>1. backup \in LedgerType /\ backup # None /\ backup' = backup
    BY <1>6 DEF Restore, Types, TypeOK
  <2>2. ledger'.blocked = backup.blocked /\ pc' = "idle"
    BY <1>6, <2>1 DEF Restore, LedgerType
  <2> QED
    BY <2>1, <2>2 DEF Verdicts, OneVerdict
<1>7. ASSUME NEW q \in Questions,
             Edit(q) \/ Close(q) \/ Land(q) \/ LandComment(q)
      PROVE  Verdicts'
  BY <1>7, VerdictsKept DEF Edit, Close, Land, LandComment
<1>8. ASSUME NEW q \in Questions, Work(q)
      PROVE  Verdicts'
  <2>1. pc \in {"gate", "attempt"} => Key(q) \in Keys
    BY DEF Types, TypeOK, Fetched, Key, Keys
  <2>2. CASE Exhaust(q)
    BY <2>1, <2>2, VerdictsOfBlock DEF Exhaust, Exhausted, Barred, Reached
  <2>3. CASE Refuse(q)
    BY <2>1, <2>3, VerdictsOfBlock DEF Refuse, Attempting, Leave, Verdicts
  <2>4. CASE OpenWindow(q) \/ ReuseWindow(q)
    <3>1. /\ ledger'.blocked = ledger.blocked
          /\ backup' = backup
      BY <1>1, <2>4 DEF OpenWindow, ReuseWindow, LedgerType
    <3>2. /\ poll'.cur = q
          /\ poll'.seen = poll.seen /\ poll'.act = poll.act
      BY <2>4 DEF OpenWindow, ReuseWindow, TakeUp, Types, TypeOK, PollType
    <3>3. ~Blocked(q, Key(q))
      BY <2>4 DEF OpenWindow, ReuseWindow, TakeUp, Eligible, Barred
    <3> QED
      BY <3>1, <3>2, <3>3 DEF Verdicts, OneVerdict, Blocked, Key
  <2>5. CASE ~(Exhaust(q) \/ Refuse(q) \/ OpenWindow(q) \/ ReuseWindow(q))
    <3>1. ledger'.blocked = ledger.blocked
      BY <1>1, <1>8, <2>5
      DEF Work, Recover, Skip, Resume, Record, Pace, Fail, Withhold, Intend,
          Send, RecordRefusal, Verify, Unverified, FindComment,
          LeaveComment, IntendComment, Publish, LedgerType
    <3>2. backup' = backup /\ pc' # "attempt"
      BY <1>8, <2>5, Zenon
      DEF Work, Recover, Skip, Resume, Record, Pace, Fail, Withhold, Intend,
          Send, RecordRefusal, Verify, Unverified, FindComment,
          LeaveComment, IntendComment, Publish, Leave, Reached
    <3> QED
      BY <3>1, <3>2, VerdictsKept
  <2> QED
    BY <2>2, <2>3, <2>4, <2>5
<1> QED
  BY <1>2, <1>3, <1>4, <1>5, <1>6, <1>7, <1>8 DEF Next

-----------------------------------------------------------------------------
(* The theorems.                                                           *)

LEMMA NextInductive == Inductive /\ [Next]_vars => Inductive'
BY NextTypes, ForecastsOfNext, CommentsOfNext, WindowsOfNext, VerdictsOfNext
DEF Inductive

\* Inductive holds in every state of every behaviour, whatever the bounds.
THEOREM InductiveHolds == Spec => []Inductive
BY InitInductive, NextInductive, PTL DEF Spec

\* Type correctness: among others, a poll's room never falls below zero and
\* whatever is attempted or posted was fetched (run_once).
THEOREM TypeHolds == Spec => []TypeOK
<1>1. Inductive => TypeOK
  BY DEF Inductive, Types
<1> QED
  BY <1>1, InductiveHolds, PTL

\* No question is ever forecast by a second POST, with any number of deaths,
\* activations, edits and restores (tournament.py:1140-1156,
\* restore.py:64-84).
THEOREM OneForecastHolds == Spec => []OneForecast
<1>1. Inductive => OneForecast
  BY DEF Inductive, Forecasts, OneForecast
<1> QED
  BY <1>1, InductiveHolds, PTL

\* A comment is published only for a forecast the platform shows
\* (tournament.py:368-435, 514).
THEOREM CommentFollowsForecastHolds == Spec => []CommentFollowsForecast
<1>1. Inductive => CommentFollowsForecast
  BY DEF Inductive, Comments, CommentFollowsForecast
<1> QED
  BY <1>1, InductiveHolds, PTL

\* No version of a question opens more than MaxAttempts windows under
\* one activation (tournament.py:97-103, 1109-1132).
THEOREM WindowsAreBoundedHolds == Spec => []WindowsAreBounded
<1>1. Inductive => WindowsAreBounded
  BY DEF Inductive, Windows, FewWindows, Attempts, WindowsAreBounded
<1> QED
  BY <1>1, InductiveHolds, PTL

\* What an attempt pays for is not counted under a key that has a verdict.
LEMMA PaidUnblocked ==
  ASSUME Inductive, [Next]_vars, NEW q \in Questions, NEW k \in Keys,
         Blocked(q, k)
  PROVE  paid'[q][k] = paid[q][k]
<1> USE DEF store, platform, question, worker, counts, history
<1>1. ASSUME NEW r \in Questions, Pace(r)
      PROVE  paid'[q][k] = paid[q][k]
  <2>1. ~Blocked(r, Key(r))
    BY <1>1 DEF Inductive, Verdicts, Pace, Attempting
  <2>2. paid' = [paid EXCEPT ![r][Key(r)] = @ + 1]
    BY <1>1 DEF Pace
  <2>3. paid \in [Questions -> [Keys -> Nat]]
    BY DEF Inductive, Types, TypeOK
  <2>4. r # q \/ Key(r) # k
    BY <2>1
  <2> QED
    BY <2>2, <2>3, <2>4
<1>2. CASE \A r \in Questions : ~Pace(r)
  <2>1. paid' = paid
    BY <1>2
    DEF Next, vars, Poll, BeginPoll, BeginQuestions, EndPoll, Die,
        Tick, Enable, Backup, Restore, Edit, Close, Land, LandComment, Work,
        Recover, Exhaust, Skip, Resume, OpenWindow, ReuseWindow, Record,
        Refuse, Fail, Withhold, Intend, Send, RecordRefusal, Verify,
        Unverified, FindComment, LeaveComment, IntendComment, Publish
  <2> QED
    BY <2>1
<1> QED
  BY <1>1, <1>2

\* A verdict is recorded once and nothing is bought under it
\* (tournament.py:258, 1111-1115).
THEOREM VerdictsStandHolds == Spec => VerdictsStand
<1> DEFINE Stands ==
      \A q \in Questions, k \in Keys :
         Blocked(q, k) =>
           /\ paid'[q][k] = paid[q][k]
           /\ \A i, j \in DOMAIN ledger'.blocked[q] :
                 /\ ledger'.blocked[q][i].at = k
                 /\ ledger'.blocked[q][j].at = k
                 => i = j
<1>1. ASSUME Inductive, [Next]_vars
      PROVE  Stands
  <2>1. OneVerdict(ledger)'
    BY <1>1, NextInductive DEF Inductive, Verdicts
  <2> QED
    BY <1>1, <2>1, PaidUnblocked DEF OneVerdict
<1>2. Inductive /\ [Next]_vars => [Stands]_vars
  BY <1>1
<1> HIDE DEF Stands
<1>3. Spec => [][Stands]_vars
  BY <1>2, InductiveHolds, PTL DEF Spec
<1> QED
  BY <1>3 DEF VerdictsStand, Stands

-----------------------------------------------------------------------------
(* One comment, and one for each restore.                                  *)

LEMMA InitRequested == Init => Requested
BY DEF Init, Requested, Never, One

\* A step that sends no comment and starts no publication.
LEMMA RequestedKept ==
  ASSUME Types, Requested, restores' = restores,
         \A q \in Questions : sent'[q].comment = sent[q].comment,
         ledger'.commenting = ledger.commenting,
         pc' = "publish" => pc = "publish" /\ poll'.cur = poll.cur
  PROVE  Requested'
<1>1. restores \in Nat /\ \A q \in Questions : sent[q].comment \in Nat
  BY BoundsAreNumbers DEF Types, TypeOK
<1> QED
  BY <1>1 DEF Requested, One

LEMMA RequestedOfWork ==
  ASSUME Types, Requested, NEW q \in Questions, Work(q)
  PROVE  Requested'
<1> USE DEF store, platform, question, counts, history
<1>1. /\ ledger \in LedgerType
      /\ sent \in [Questions -> [forecast : Nat, comment : Nat]]
      /\ restores \in Nat /\ \A r \in Questions : sent[r].comment \in Nat
  BY BoundsAreNumbers DEF Types, TypeOK
<1>2. restores' = restores
  BY DEF Work, Recover, Exhaust, Skip, Resume, OpenWindow, ReuseWindow,
         Record, Pace, Refuse, Fail, Withhold, Intend, Send, RecordRefusal,
         Verify, Unverified, FindComment, LeaveComment, IntendComment,
         Publish
<1>3. CASE Publish(q)
  <2>1. /\ \A r \in Questions \ {q} : sent'[r].comment = sent[r].comment
        /\ sent'[q].comment = sent[q].comment + 1
        /\ pc' # "publish" /\ ledger' = ledger
    BY <1>1, <1>3 DEF Publish, Leave
  <2>2. pc = "publish" /\ poll.cur = q
    BY <1>3 DEF Publish
  <2> QED
    BY <1>1, <1>2, <2>1, <2>2 DEF Requested, One
<1>4. CASE IntendComment(q)
  <2>1. /\ ledger'.commenting = [ledger.commenting EXCEPT ![q] = TRUE]
        /\ ledger.commenting \in [Questions -> BOOLEAN]
    BY <1>1, <1>4 DEF IntendComment, LedgerType
  <2>2. /\ sent' = sent /\ poll' = poll /\ poll.cur = q
        /\ pc = "comment" /\ pc' = "publish" /\ ~ledger.commenting[q]
    BY <1>4 DEF IntendComment
  <2> QED
    BY <1>1, <1>2, <2>1, <2>2 DEF Requested, One
<1>5. CASE ~(Publish(q) \/ IntendComment(q))
  <2>1. ledger'.commenting = ledger.commenting
    BY <1>1, <1>5
    DEF Work, Recover, Exhaust, Skip, Resume, OpenWindow, ReuseWindow,
        Record, Pace, Refuse, Fail, Withhold, Intend, Send, RecordRefusal,
        Verify, Unverified, FindComment, LeaveComment, Block, LedgerType
  <2>2. pc' # "publish"
    <3>1. CASE Recover(q)
      BY <3>1, Zenon DEF Recover
    <3>2. CASE ~Recover(q)
      BY <1>5, <3>2
      DEF Work, Exhaust, Skip, Resume, OpenWindow, ReuseWindow, Record,
          Pace, Refuse, Fail, Withhold, Intend, Send, RecordRefusal, Verify,
          Unverified, FindComment, LeaveComment, Leave, Reached
    <3> QED
      BY <3>1, <3>2
  <2>3. \A r \in Questions : sent'[r].comment = sent[r].comment
    <3>1. CASE Send(q)
      BY <1>1, <3>1 DEF Send
    <3>2. CASE ~Send(q)
      <4>1. sent' = sent
        BY <1>5, <3>2
        DEF Work, Recover, Exhaust, Skip, Resume, OpenWindow, ReuseWindow,
            Record, Pace, Refuse, Fail, Withhold, Intend, RecordRefusal,
            Verify, Unverified, FindComment, LeaveComment
      <4> QED
        BY <4>1
    <3> QED
      BY <3>1, <3>2
  <2> QED
    BY <1>2, <2>1, <2>2, <2>3, RequestedKept
<1> QED
  BY <1>3, <1>4, <1>5

LEMMA NextRequested ==
  ASSUME Types, Requested, [Next]_vars
  PROVE  Requested'
<1> USE DEF store, platform, question, worker, counts, history
<1>1. ledger \in LedgerType
  BY DEF Types, TypeOK
<1>2. CASE Restore
  <2>1. restores' = restores + 1 /\ pc = "idle" /\ pc' = "idle" /\ sent' = sent
    BY <1>2 DEF Restore
  <2>2. restores \in Nat /\ \A q \in Questions : sent[q].comment \in Nat
    BY BoundsAreNumbers DEF Types, TypeOK
  <2> QED
    BY <2>1, <2>2 DEF Requested, One
<1>3. CASE UNCHANGED vars
  BY <1>1, <1>3, RequestedKept DEF vars
<1>4. CASE Poll \/ Die \/ Tick \/ Backup
  <2>1. ledger' = ledger /\ restores' = restores /\ sent' = sent
    BY <1>4
    DEF Poll, BeginPoll, BeginQuestions, EndPoll, Die, Tick, Backup
  <2>2. pc' = "publish" => pc = "publish" /\ poll'.cur = poll.cur
    BY <1>4
    DEF Poll, BeginPoll, BeginQuestions, EndPoll, Die, Tick, Backup,
        Reached
  <2> QED
    BY <2>1, <2>2, RequestedKept
<1>5. CASE Enable
  <2>1. ledger'.commenting = ledger.commenting
    BY <1>1, <1>5 DEF Enable, LedgerType
  <2> QED
    BY <1>1, <1>5, <2>1, RequestedKept DEF Enable
<1>6. ASSUME NEW q \in Questions,
             Edit(q) \/ Close(q) \/ Land(q) \/ LandComment(q)
      PROVE  Requested'
  BY <1>1, <1>6, RequestedKept DEF Edit, Close, Land, LandComment
<1> QED
  BY <1>2, <1>3, <1>4, <1>5, <1>6, RequestedOfWork DEF Next

LEMMA RequestedHolds == Spec => []Requested
<1>1. Inductive /\ Requested /\ [Next]_vars => Requested'
  BY NextRequested DEF Inductive
<1> QED
  BY <1>1, InitRequested, InductiveHolds, PTL DEF Spec

\* No comment is requested more than once, and once for each restore, whatever is
\* lost, late or dies (tournament.py:506-569).
THEOREM OneCommentHolds == Spec => []OneComment
<1>1. Inductive /\ Requested => OneComment
  <2> SUFFICES ASSUME Inductive, Requested, NEW q \in Questions
               PROVE  sent[q].comment <= 1 + restores
    BY DEF OneComment
  <2>1. restores \in Nat /\ sent[q].comment \in Nat
    BY BoundsAreNumbers DEF Inductive, Types, TypeOK
  <2> QED
    BY <2>1 DEF Requested, One
<1> QED
  BY <1>1, RequestedHolds, InductiveHolds, PTL

-----------------------------------------------------------------------------
(* What is on file of the platform's answers.                              *)

LEMMA InitNoted == Init => Noted
BY DEF Init, Noted, Never

\* A step that notes nothing.
LEMMA NotedKept ==
  ASSUME Types, Noted,
         \A q \in Questions : Answered(q) => forecast'[q] = forecast[q],
         ledger'.confirmed = ledger.confirmed,
         ledger'.refused = ledger.refused,
         backup' = backup,
         pc' = "publish" => pc = "publish" /\ poll'.cur = poll.cur,
         pc' # "refusal"
  PROVE  Noted'
BY DEF Noted, Answered

LEMMA NotedOfWork ==
  ASSUME Types, Forecasts, Noted, NEW q \in Questions, Work(q)
  PROVE  Noted'
<1> USE DEF store, platform, question, counts, history
<1>1. /\ ledger \in LedgerType
      /\ ledger.confirmed \in [Questions -> BOOLEAN]
      /\ ledger.refused \in [Questions -> BOOLEAN]
      /\ forecast \in [Questions -> {"none", "delayed", "up", "lost", "refused"}]
  BY DEF Types, TypeOK, LedgerType
<1>2. /\ \A r \in Questions : Answered(r) => forecast'[r] = forecast[r]
      /\ backup' = backup
  <2>1. backup' = backup
    BY DEF Work, Recover, Exhaust, Skip, Resume, OpenWindow, ReuseWindow,
           Record, Pace, Refuse, Fail, Withhold, Intend, Send,
           RecordRefusal, Verify, Unverified, FindComment, LeaveComment,
           IntendComment, Publish
  <2> QED
    BY <2>1, AnswersStay DEF Next
<1>3. CASE Send(q)
  <2>1. /\ ledger' = ledger /\ poll' = poll /\ poll.cur = q
        /\ pc' # "publish" /\ (pc' = "refusal" => forecast'[q] = "refused")
    BY <1>1, <1>3 DEF Send
  <2> QED
    BY <1>2, <2>1 DEF Noted, Answered
<1>4. CASE RecordRefusal(q)
  <2>1. /\ ledger'.refused = [ledger.refused EXCEPT ![q] = TRUE]
        /\ ledger'.confirmed = ledger.confirmed
    BY <1>1, <1>4 DEF RecordRefusal, LedgerType
  <2>2. /\ forecast' = forecast /\ pc' # "refusal" /\ pc' # "publish"
        /\ forecast[q] = "refused"
    BY <1>4 DEF RecordRefusal, Leave, Noted
  <2> QED
    BY <1>1, <1>2, <2>1, <2>2 DEF Noted
<1>5. CASE Verify(q)
  <2>1. /\ ledger'.confirmed = [ledger.confirmed EXCEPT ![q] = TRUE]
        /\ ledger'.refused = ledger.refused
    BY <1>1, <1>5 DEF Verify, LedgerType
  <2>2. forecast' = forecast /\ pc' = "comment"
    BY <1>5 DEF Verify
  <2> QED
    BY <1>1, <1>2, <2>1, <2>2 DEF Noted
<1>6. CASE IntendComment(q)
  <2>1. /\ ledger'.confirmed = ledger.confirmed /\ ledger'.refused = ledger.refused
        /\ pc' = "publish" /\ poll' = poll /\ poll.cur = q
        /\ ledger.confirmed[q] /\ forecast' = forecast
    BY <1>1, <1>6 DEF IntendComment, LedgerType
  <2> QED
    BY <1>2, <2>1 DEF Noted
<1>7. CASE ~(Send(q) \/ RecordRefusal(q) \/ Verify(q) \/ IntendComment(q))
  <2>1. ledger'.confirmed = ledger.confirmed /\ ledger'.refused = ledger.refused
    BY <1>1, <1>7
    DEF Work, Recover, Exhaust, Skip, Resume, OpenWindow, ReuseWindow,
        Record, Pace, Refuse, Fail, Withhold, Intend,
        Unverified, FindComment, LeaveComment, Publish, Block, LedgerType
  <2>2. pc' # "publish" /\ pc' # "refusal"
    <3>1. CASE Recover(q)
      BY <3>1, Zenon DEF Recover
    <3>2. CASE ~Recover(q)
      BY <1>7, <3>2
      DEF Work, Exhaust, Skip, Resume, OpenWindow, ReuseWindow, Record,
          Pace, Refuse, Fail, Withhold, Intend, Unverified, FindComment,
          LeaveComment, Publish, Leave, Reached
    <3> QED
      BY <3>1, <3>2
  <2> QED
    BY <1>2, <2>1, <2>2, NotedKept
<1> QED
  BY <1>3, <1>4, <1>5, <1>6, <1>7

LEMMA NextNoted ==
  ASSUME Types, Forecasts, Noted, [Next]_vars
  PROVE  Noted'
<1> USE DEF store, platform, question, worker, counts, history
<1>1. ledger \in LedgerType /\ (pc \in {"publish", "refusal"} => poll.cur \in Questions)
  BY DEF Types, TypeOK
<1>2. \A q \in Questions : Answered(q) => forecast'[q] = forecast[q]
  BY AnswersStay
<1>3. ASSUME ledger'.confirmed = ledger.confirmed, ledger'.refused = ledger.refused,
             backup' = backup, UNCHANGED <<pc, poll>>
      PROVE  Noted'
  BY <1>1, <1>2, <1>3 DEF Noted, Answered
<1>4. CASE Poll \/ Die
  <2>1. /\ ledger' = ledger /\ backup' = backup
        /\ pc' # "publish" /\ pc' # "refusal"
    BY <1>4 DEF Poll, BeginPoll, BeginQuestions, EndPoll, Die, Reached
  <2> QED
    BY <1>2, <2>1, NotedKept
<1>5. CASE Tick \/ UNCHANGED vars
  BY <1>3, <1>5 DEF Tick, vars
<1>6. CASE Enable
  <2>1. ledger'.confirmed = ledger.confirmed /\ ledger'.refused = ledger.refused
    BY <1>1, <1>6 DEF Enable, LedgerType
  <2> QED
    BY <1>3, <1>6, <2>1 DEF Enable
<1>7. CASE Backup
  BY <1>7 DEF Backup, Noted
<1>8. CASE Restore
  <2>1. backup \in LedgerType /\ backup # None
    BY <1>8 DEF Restore, Types, TypeOK
  <2>2. ledger'.confirmed = backup.confirmed /\ ledger'.refused = backup.refused
    BY <1>8, <2>1 DEF Restore, LedgerType
  <2>3. backup' = backup /\ forecast' = forecast /\ pc' = "idle"
    BY <1>8 DEF Restore
  <2> QED
    BY <2>1, <2>2, <2>3 DEF Noted
<1>9. ASSUME NEW q \in Questions,
             Edit(q) \/ Close(q) \/ Land(q) \/ LandComment(q)
      PROVE  Noted'
  BY <1>3, <1>9 DEF Edit, Close, Land, LandComment
<1> QED
  BY <1>4, <1>5, <1>6, <1>7, <1>8, <1>9, NotedOfWork DEF Next

\* What the ledger says of an answer is what the platform gave, a restored ledger
\* says no more than the one it replaces, and a comment is requested under such a
\* row (tournament.py:368-435, restore.py:26-144).
THEOREM NotedHolds == Spec => []Noted
<1>1. Inductive /\ Noted /\ [Next]_vars => Noted'
  BY NextNoted DEF Inductive
<1> QED
  BY <1>1, InitNoted, InductiveHolds, PTL DEF Spec

-----------------------------------------------------------------------------
(* Failures, while nothing is restored.                                    *)

\* What the proofs below read of the types.
LEMMA FailureTypes ==
  ASSUME Types
  PROVE  /\ ledger.act \in Int /\ poll.act \in Int
         /\ ledger.started \in [Questions -> Seq(Keys)]
         /\ ledger.waits \in [Questions -> SUBSET Waits]
         /\ paid \in [Questions -> [Keys -> Nat]]
         /\ \A w \in Waits : w.row \in Nat /\ w.key \in Keys
         /\ \A k \in Keys : k.act \in Int
<1>1. ledger \in LedgerType /\ poll \in PollType
      /\ paid \in [Questions -> [Keys -> Nat]]
  BY DEF Types, TypeOK
<1>2. \A n \in 0 .. MaxActs : n \in Int
  BY BoundsAreNumbers
<1>3. ledger.act \in 0 .. MaxActs /\ poll.act \in 0 .. MaxActs
  BY <1>1 DEF LedgerType, PollType
<1>4. /\ ledger.started \in [Questions -> Seq(Keys)]
      /\ ledger.waits \in [Questions -> SUBSET Waits]
  BY <1>1 DEF LedgerType
<1>5. /\ \A w \in Waits : w.row \in Nat /\ w.key \in Keys
      /\ \A k \in Keys : k.act \in Int
  BY BoundsAreNumbers DEF Waits, Keys, Acts
<1> QED
  BY <1>1, <1>2, <1>3, <1>4, <1>5

LEMMA InitPaced == Init => Paced
<1> SUFFICES ASSUME Init PROVE Paced
  OBVIOUS
<1>1. ASSUME NEW q \in Questions
      PROVE  ledger.waits[q] = {} /\ ledger.started[q] = <<>>
  BY DEF Init
<1>2. ASSUME NEW q \in Questions, NEW k \in Keys
      PROVE  paid[q][k] = Cardinality(Failures(q, k))
  <2>1. Failures(q, k) = {}
    BY <1>1 DEF Failures
  <2> QED
    BY <2>1, FS_EmptySet DEF Init
<1>3. /\ poll.act = 0 /\ ledger.act = 0 /\ minted = 0 /\ pc = "idle"
  BY DEF Init, NoPoll
<1>4. ASSUME NEW q \in Questions
      PROVE  Dated(q, ledger.act) /\ Ended(q) /\ IsFiniteSet(ledger.waits[q])
  <2>1. \A i \in DOMAIN ledger.started[q] : FALSE
    BY <1>1
  <2>2. \A w \in ledger.waits[q] : FALSE
    BY <1>1
  <2>3. IsFiniteSet(ledger.waits[q])
    BY <1>1, FS_EmptySet
  <2> QED
    BY <2>1, <2>2, <2>3 DEF Dated, Ended
<1> QED
  BY <1>2, <1>3, <1>4 DEF Paced, Attempting

\* A later activation dates no less.
LEMMA DatedLater ==
  ASSUME Types, NEW q \in Questions, NEW a \in Int, NEW b \in Int, a <= b,
         Dated(q, a)
  PROVE  Dated(q, b)
<1>1. /\ \A i \in DOMAIN ledger.started[q] : ledger.started[q][i].act \in Int
      /\ \A w \in ledger.waits[q] : w.key.act \in Int
  <2>1. /\ ledger.started[q] \in Seq(Keys)
        /\ ledger.waits[q] \in SUBSET Waits
    BY FailureTypes
  <2>2. \A i \in DOMAIN ledger.started[q] : ledger.started[q][i] \in Keys
    BY <2>1
  <2> QED
    BY <2>1, <2>2, FailureTypes
<1> QED
  BY <1>1 DEF Dated

\* A step that starts nothing and fails nothing.
LEMMA PacedKept ==
  ASSUME Types, Paced,
         restores' = 0 =>
           /\ restores = 0
           /\ ledger'.started = ledger.started
           /\ ledger'.waits = ledger.waits
           /\ paid' = paid
           /\ ledger'.act = minted'
           /\ ledger'.act \in Int
           /\ ledger.act <= ledger'.act
           /\ \/ pc' = "idle" /\ poll'.act <= ledger'.act
              \/ pc # "idle" /\ poll'.act = poll.act
              \/ poll'.act = ledger'.act
           /\ \A q \in Questions : Attempting(q)' =>
                 Attempting(q) /\ poll'.seen = poll.seen /\ poll'.act = poll.act
  PROVE  Paced'
<1> SUFFICES ASSUME restores' = 0
             PROVE  /\ poll'.act <= ledger'.act
                    /\ \A q \in Questions :
                         /\ Dated(q, ledger.act)'
                         /\ pc' # "idle" => Dated(q, poll.act)'
                         /\ Ended(q)'
                         /\ Attempting(q)' => InWindow(q)'
                         /\ IsFiniteSet(ledger'.waits[q])
                         /\ \A k \in Keys :
                               paid'[q][k] = Cardinality(Failures(q, k))'
  BY DEF Paced
<1>1. poll'.act <= ledger'.act
  BY FailureTypes DEF Paced
<1>2. ASSUME NEW q \in Questions
      PROVE  Dated(q, ledger.act)' /\ (pc' # "idle" => Dated(q, poll.act)')
  <2>1. Dated(q, ledger'.act)
    BY DatedLater, FailureTypes DEF Paced
  <2>2. Dated(q, ledger.act)'
    BY <2>1 DEF Dated
  <2>3. pc' # "idle" => Dated(q, poll'.act)
    BY <2>1 DEF Paced
  <2>4. pc' # "idle" => Dated(q, poll.act)'
    BY <2>3 DEF Dated
  <2> QED
    BY <2>2, <2>4
<1>3. ASSUME NEW q \in Questions
      PROVE  /\ Ended(q)'
             /\ Attempting(q)' => InWindow(q)'
             /\ IsFiniteSet(ledger'.waits[q])
             /\ \A k \in Keys : paid'[q][k] = Cardinality(Failures(q, k))'
  BY DEF Paced, Ended, InWindow, Failures, Key
<1> QED
  BY <1>1, <1>2, <1>3

\* A new window is of this poll's activation, and nothing has failed in it.
LEMMA PacedOfOpen ==
  ASSUME Types, Paced, NEW q \in Questions, OpenWindow(q), restores = 0
  PROVE  Paced'
<1> DEFINE key == Key(q)
           old == ledger.started[q]
           n == Len(old)
<1>1. key \in Keys /\ key.act = poll.act /\ key.fp = poll.seen[q]
  BY DEF OpenWindow, TakeUp, Reached, Types, TypeOK, Fetched, Key, Keys
<1>2. /\ ledger'.started = [ledger.started EXCEPT ![q] = Append(@, key)]
      /\ ledger'.waits = ledger.waits /\ ledger'.act = ledger.act
  BY DEF OpenWindow, Types, TypeOK, LedgerType
<1>3. /\ poll'.cur = q /\ pc' = "attempt" /\ pc = "gate"
      /\ poll'.seen = poll.seen /\ poll'.act = poll.act
      /\ minted' = minted /\ paid' = paid
  BY DEF OpenWindow, TakeUp, Reached, Types, TypeOK, PollType, counts, history
<1>4. old \in Seq(Keys) /\ ledger.waits[q] \in SUBSET Waits
  BY FailureTypes
<1>5. /\ n \in Nat /\ DOMAIN old = 1 .. n
      /\ ledger'.started[q] = Append(old, key)
      /\ DOMAIN Append(old, key) = 1 .. (n + 1)
      /\ Len(Append(old, key)) = n + 1
      /\ Append(old, key)[n + 1] = key
      /\ \A i \in 1 .. n : Append(old, key)[i] = old[i]
  <2>1. ledger'.started[q] = Append(old, key)
    BY <1>2, FailureTypes
  <2> HIDE DEF key, old
  <2> QED
    BY <1>1, <1>4, <2>1
<1>6. \A r \in Questions \ {q} : ledger'.started[r] = ledger.started[r]
  BY <1>2, FailureTypes
<1>7. \A w \in ledger.waits[q] :
         /\ w.row \in Nat /\ w.row \in 1 .. n
         /\ w.key.act \in Int /\ w.key.act <= poll.act
  <2>1. \A w \in ledger.waits[q] :
           w.row \in DOMAIN old /\ w.key.act <= poll.act
    BY <1>3 DEF Paced, Ended, Dated
  <2>2. \A w \in ledger.waits[q] : w.row \in Nat /\ w.key.act \in Int
    BY <1>4, FailureTypes
  <2> QED
    BY <1>5, <2>1, <2>2
<1>8. /\ poll.act <= ledger.act /\ poll.act \in Int /\ ledger.act \in Int
      /\ \A i \in 1 .. n : old[i].act <= ledger.act /\ old[i].act <= poll.act
  <2>1. \A i \in DOMAIN old : old[i].act <= ledger.act /\ old[i].act <= poll.act
    BY <1>3 DEF Paced, Dated
  <2> QED
    BY <1>5, <2>1, FailureTypes DEF Paced
<1>9. \A w \in ledger.waits[q] :
         /\ old[w.row].fp = w.key.fp
         /\ old[w.row].act <= w.key.act
         /\ \A i \in 1 .. n : i > w.row => old[i].act >= w.key.act
  BY <1>5 DEF Paced, Ended
<1> HIDE DEF n, key, old
<1>10. Dated(q, ledger.act)' /\ Dated(q, poll.act)'
  <2>1. \A i \in 1 .. (n + 1) :
           /\ Append(old, key)[i].act <= ledger.act
           /\ Append(old, key)[i].act <= poll.act
    <3> TAKE i \in 1 .. (n + 1)
    <3>1. i \in 1 .. n \/ i = n + 1
      BY <1>5
    <3> QED
      BY <1>1, <1>5, <1>8, <3>1
  <2>2. \A w \in ledger.waits[q] : w.key.act <= ledger.act
    BY <1>7, <1>8
  <2> QED
    BY <1>2, <1>3, <1>5, <1>7, <2>1, <2>2 DEF Dated
<1>11. Ended(q)'
  <2>1. ASSUME NEW w \in ledger.waits[q]
        PROVE  /\ w.row \in 1 .. (n + 1)
               /\ Append(old, key)[w.row].fp = w.key.fp
               /\ Append(old, key)[w.row].act <= w.key.act
               /\ \A i \in 1 .. (n + 1) :
                     i > w.row => Append(old, key)[i].act >= w.key.act
    <3>1. ASSUME NEW i \in 1 .. (n + 1), i > w.row
          PROVE  Append(old, key)[i].act >= w.key.act
      <4>1. i \in 1 .. n \/ i = n + 1
        BY <1>5
      <4> QED
        BY <1>1, <1>5, <1>7, <1>8, <1>9, <3>1, <4>1
    <3> QED
      BY <1>5, <1>7, <1>9, <3>1
  <2> QED
    BY <1>2, <1>5, <2>1 DEF Ended
<1>12. InWindow(q)'
  <2>1. [row |-> n + 1, key |-> key] \notin ledger.waits[q]
    BY <1>5, <1>7
  <2>2. Key(q)' = key
    BY <1>3 DEF Key, key
  <2> QED
    BY <1>1, <1>2, <1>3, <1>5, <2>1, <2>2 DEF InWindow
<1>13. ASSUME NEW r \in Questions, r # q
       PROVE  /\ Dated(r, ledger.act)' /\ Dated(r, poll.act)'
              /\ Ended(r)'
  BY <1>2, <1>3, <1>6, <1>13 DEF Paced, Dated, Ended
<1>14. \A r \in Questions : Attempting(r)' => r = q
  BY <1>3 DEF Attempting
<1>15. \A r \in Questions :
          /\ IsFiniteSet(ledger'.waits[r])
          /\ \A k \in Keys : paid'[r][k] = Cardinality(Failures(r, k))'
  BY <1>2, <1>3 DEF Paced, Failures
<1>16. poll'.act <= ledger'.act /\ ledger'.act = minted'
  BY <1>2, <1>3 DEF Paced
<1> QED
  BY <1>10, <1>11, <1>12, <1>13, <1>14, <1>15, <1>16 DEF Paced

\* A window attempted again has not failed under this activation.
LEMMA PacedOfReuse ==
  ASSUME Types, Paced, NEW q \in Questions, ReuseWindow(q), restores = 0
  PROVE  Paced'
<1>1. /\ poll'.cur = q /\ pc' = "attempt" /\ pc = "gate"
      /\ poll'.seen = poll.seen /\ poll'.act = poll.act
      /\ minted' = minted /\ paid' = paid /\ ledger' = ledger
  BY DEF ReuseWindow, TakeUp, Reached, Types, TypeOK, PollType, counts, history,
         store
<1>2. InWindow(q)
  BY DEF ReuseWindow, TakeUp, Eligible, Waiting, Current, InWindow
<1>3. InWindow(q)'
  BY <1>1, <1>2 DEF InWindow, Key
<1>4. \A r \in Questions : Attempting(r)' => r = q
  BY <1>1 DEF Attempting
<1>5. \A r \in Questions :
         Dated(r, ledger.act)' /\ Dated(r, poll.act)' /\ Ended(r)'
  BY <1>1 DEF Paced, Dated, Ended
<1> QED
  BY <1>1, <1>3, <1>4, <1>5 DEF Paced, Failures

\* A failure ends the newest window, for the first time under its key.
LEMMA PacedOfPace ==
  ASSUME Types, Paced, NEW q \in Questions, Pace(q), restores = 0
  PROVE  Paced'
<1> DEFINE key == Key(q)
           old == ledger.started[q]
           n == Len(old)
           wait == [row |-> n, key |-> key]
<1>1. /\ key \in Keys /\ key.act = poll.act /\ key.fp = poll.seen[q]
      /\ wait.row = n /\ wait.key = key
  BY DEF Pace, Attempting, Types, TypeOK, Fetched, Key, Keys
<1>2. /\ ledger'.waits = [ledger.waits EXCEPT ![q] = @ \cup {wait}]
      /\ ledger'.started = ledger.started /\ ledger'.act = ledger.act
  BY DEF Pace, Types, TypeOK, LedgerType
<1>3. /\ poll'.act = poll.act /\ pc = "attempt" /\ pc' \in {"recover", "gate"}
      /\ minted' = minted
      /\ paid' = [paid EXCEPT ![q][key] = @ + 1]
  BY LeaveTypes DEF Pace, Attempting, counts
<1>4. old \in Seq(Keys) /\ ledger.waits[q] \in SUBSET Waits
  BY FailureTypes
<1>5. n \in Nat /\ DOMAIN old = 1 .. n
  BY <1>4
<1>6. n > 0 /\ old[n].fp = poll.seen[q] /\ wait \notin ledger.waits[q]
  BY DEF Pace, Paced, InWindow
<1>7. /\ ledger'.waits[q] = ledger.waits[q] \cup {wait}
      /\ \A r \in Questions \ {q} : ledger'.waits[r] = ledger.waits[r]
  BY <1>2, FailureTypes
<1>8. /\ poll.act <= ledger.act /\ poll.act \in Int /\ ledger.act \in Int
      /\ \A i \in 1 .. n : old[i].act <= ledger.act /\ old[i].act <= poll.act
      /\ \A w \in ledger.waits[q] :
            w.key.act <= ledger.act /\ w.key.act <= poll.act
  <2>1. /\ \A i \in DOMAIN old :
              old[i].act <= ledger.act /\ old[i].act <= poll.act
        /\ \A w \in ledger.waits[q] :
              w.key.act <= ledger.act /\ w.key.act <= poll.act
    BY <1>3 DEF Paced, Dated
  <2> QED
    BY <1>5, <2>1, FailureTypes DEF Paced
<1>9. Ended(q)
  BY DEF Paced
<1> HIDE DEF wait, n, key, old
<1>10. Dated(q, ledger.act)' /\ Dated(q, poll.act)'
  BY <1>1, <1>2, <1>3, <1>5, <1>7, <1>8 DEF Dated, old
<1>11. Ended(q)'
  <2>1. ASSUME NEW w \in ledger.waits[q] \cup {wait}
        PROVE  /\ w.row \in DOMAIN old
               /\ old[w.row].fp = w.key.fp
               /\ old[w.row].act <= w.key.act
               /\ \A i \in DOMAIN old : i > w.row => old[i].act >= w.key.act
    <3>1. CASE w \in ledger.waits[q]
      BY <1>9, <3>1 DEF Ended, old
    <3>2. CASE w = wait
      BY <1>1, <1>5, <1>6, <1>8, <3>2
    <3> QED
      BY <3>1, <3>2
  <2> QED
    BY <1>2, <1>7, <2>1 DEF Ended, old
<1>12. ASSUME NEW k \in Keys
       PROVE  paid'[q][k] = Cardinality(Failures(q, k))'
  <2>1. /\ paid[q][k] = Cardinality(Failures(q, k))
        /\ IsFiniteSet(Failures(q, k))
    <3>1. Failures(q, k) \subseteq ledger.waits[q]
      BY DEF Failures
    <3> QED
      BY <3>1, FS_Subset DEF Paced
  <2>2. CASE k = key
    <3>1. Failures(q, k)' = Failures(q, k) \cup {wait}
      BY <1>1, <1>7, <2>2 DEF Failures
    <3>2. wait \notin Failures(q, k)
      BY <1>6 DEF Failures
    <3>3. Cardinality(Failures(q, k)') = paid[q][k] + 1
      BY <2>1, <3>1, <3>2, FS_AddElement
    <3>4. paid'[q][k] = paid[q][k] + 1
      BY <1>1, <1>3, <2>2, FailureTypes
    <3> QED
      BY <3>3, <3>4
  <2>3. CASE k # key
    <3>1. Failures(q, k)' = Failures(q, k)
      BY <1>1, <1>7, <2>3 DEF Failures
    <3>2. paid'[q][k] = paid[q][k]
      BY <1>1, <1>3, <2>3, FailureTypes
    <3> QED
      BY <2>1, <3>1, <3>2
  <2> QED
    BY <2>2, <2>3
<1>13. IsFiniteSet(ledger'.waits[q])
  BY <1>7, FS_AddElement DEF Paced
<1>14. ASSUME NEW r \in Questions, r # q
       PROVE  /\ Dated(r, ledger.act)' /\ Dated(r, poll.act)'
              /\ Ended(r)'
              /\ IsFiniteSet(ledger'.waits[r])
              /\ \A k \in Keys : paid'[r][k] = Cardinality(Failures(r, k))'
  <2>1. paid'[r] = paid[r] /\ ledger'.waits[r] = ledger.waits[r]
    BY <1>3, <1>7, <1>14, FailureTypes
  <2> QED
    BY <1>2, <1>3, <2>1 DEF Paced, Dated, Ended, Failures
<1>15. /\ poll'.act <= ledger'.act /\ ledger'.act = minted'
       /\ \A r \in Questions : ~Attempting(r)'
  BY <1>2, <1>3 DEF Paced, Attempting
<1> QED
  BY <1>10, <1>11, <1>12, <1>13, <1>14, <1>15 DEF Paced

LEMMA PacedOfWork ==
  ASSUME Types, Paced, NEW q \in Questions, Work(q)
  PROVE  Paced'
<1> USE DEF store, platform, question, counts, history
<1>1. ledger \in LedgerType /\ poll \in PollType
  BY DEF Types, TypeOK
<1>2. restores' = restores
  BY DEF Work, Recover, Exhaust, Skip, Resume, OpenWindow, ReuseWindow,
         Record, Pace, Refuse, Fail, Withhold, Intend, Send, RecordRefusal,
         Verify, Unverified, FindComment, LeaveComment, IntendComment,
         Publish
<1>3. CASE restores # 0
  BY <1>2, <1>3 DEF Paced
<1>4. CASE restores = 0 /\ (OpenWindow(q) \/ ReuseWindow(q) \/ Pace(q))
  BY <1>4, PacedOfOpen, PacedOfReuse, PacedOfPace
<1>5. CASE restores = 0 /\ ~(OpenWindow(q) \/ ReuseWindow(q) \/ Pace(q))
  <2>1. /\ ledger'.started = ledger.started
        /\ ledger'.waits = ledger.waits
        /\ ledger'.act = ledger.act
    BY <1>1, <1>5
    DEF Work, Recover, Exhaust, Skip, Resume, Record, Refuse, Fail, Withhold,
        Intend, Send, RecordRefusal, Verify, Unverified, FindComment,
        LeaveComment, IntendComment, Publish, Block, LedgerType
  <2>2. /\ paid' = paid /\ minted' = minted
        /\ pc # "idle" /\ pc' # "attempt"
    <3>1. CASE Recover(q)
      BY <3>1, Zenon DEF Recover
    <3>2. CASE Exhaust(q) \/ Skip(q) \/ Resume(q)
      BY <3>2 DEF Exhaust, Skip, Resume, TakeUp, Reached
    <3>3. CASE ~(Recover(q) \/ Exhaust(q) \/ Skip(q) \/ Resume(q))
      BY <1>5, <3>3
      DEF Work, Record, Refuse, Fail, Withhold, Intend, Send, RecordRefusal,
          Verify, Unverified, FindComment, LeaveComment, IntendComment,
          Publish, Leave, Attempting
    <3> QED
      BY <3>1, <3>2, <3>3
  <2>3. poll'.act = poll.act
    <3>1. CASE Recover(q)
      BY <1>1, <3>1, RecoverTypes
    <3>2. CASE ~Recover(q)
      BY <1>1, <1>5, <3>2
      DEF Work, Exhaust, Skip, Resume, Record, Refuse, Fail, Withhold,
          Intend, Send, RecordRefusal, Verify, Unverified, FindComment,
          LeaveComment, IntendComment, Publish, Leave, Done, TakeUp, PollType
    <3> QED
      BY <3>1, <3>2
  <2>4. \A r \in Questions : ~Attempting(r)'
    BY <2>2 DEF Attempting
  <2>5. ledger.act \in Int /\ ledger.act = minted
    BY <1>5, FailureTypes DEF Paced
  <2> QED
    BY <1>2, <1>5, <2>1, <2>2, <2>3, <2>4, <2>5, PacedKept
<1> QED
  BY <1>2, <1>3, <1>4, <1>5

LEMMA NextPaced ==
  ASSUME Types, Paced, [Next]_vars
  PROVE  Paced'
<1> USE DEF store, platform, question, worker, counts, history
<1>1. /\ ledger \in LedgerType /\ poll \in PollType
      /\ ledger.act \in Nat /\ minted \in Nat
      /\ poll.act \in Nat
  <2>1. /\ ledger \in LedgerType /\ poll \in PollType
        /\ minted \in 0 .. MaxActs
    BY DEF Types, TypeOK
  <2>2. ledger.act \in 0 .. MaxActs /\ poll.act \in 0 .. MaxActs
    BY <2>1 DEF LedgerType, PollType
  <2> QED
    BY <2>1, <2>2, BoundsAreNumbers
<1>2. CASE Restore
  <2>1. restores' # 0
    BY <1>2 DEF Restore, Types, TypeOK
  <2> QED
    BY <2>1 DEF Paced
<1>3. CASE restores # 0 /\ ~Restore
  <2>1. CASE \E q \in Questions : Work(q)
    BY <2>1, PacedOfWork
  <2>2. CASE ~\E q \in Questions : Work(q)
    <3>1. restores' = restores
      BY <1>3, <2>2
      DEF Next, vars, Poll, BeginPoll, BeginQuestions, EndPoll, Die, Tick,
          Enable, Backup, Edit, Close, Land, LandComment
    <3> QED
      BY <1>3, <3>1 DEF Paced
  <2> QED
    BY <2>1, <2>2
<1>4. CASE restores = 0 /\ UNCHANGED vars
  BY <1>1, <1>4, PacedKept DEF vars, Paced, Attempting
<1>5. CASE restores = 0 /\ (Poll \/ Die \/ Tick \/ Backup)
  <2>1. /\ ledger' = ledger /\ restores' = restores /\ paid' = paid
        /\ minted' = minted
    BY <1>5
    DEF Poll, BeginPoll, BeginQuestions, EndPoll, Die, Tick, Backup
  <2>2. CASE BeginPoll
    <3>1. poll'.act = ledger.act /\ pc' = "recover"
      BY <1>1, <2>2 DEF BeginPoll, NoPoll
    <3> QED
      BY <1>1, <1>5, <2>1, <3>1, PacedKept DEF Paced, Attempting
  <2>3. CASE BeginQuestions \/ EndPoll \/ Die
    <3>1. /\ pc # "idle"
          /\ \/ pc' = "idle" /\ poll' = NoPoll
             \/ pc' = "gate" /\ poll'.act = poll.act
      BY <1>1, <2>3 DEF BeginQuestions, EndPoll, Die, PollType, Reached
    <3>2. NoPoll.act = 0
      BY DEF NoPoll
    <3> QED
      BY <1>1, <1>5, <2>1, <3>1, <3>2, PacedKept DEF Paced, Attempting
  <2>4. CASE Tick \/ Backup
    <3>1. pc' = pc /\ poll' = poll
      BY <2>4 DEF Tick, Backup
    <3> QED
      BY <1>1, <1>5, <2>1, <3>1, PacedKept DEF Paced, Attempting
  <2> QED
    BY <1>5, <2>2, <2>3, <2>4 DEF Poll
<1>6. CASE restores = 0 /\ Enable
  <2>1. /\ ledger'.act = minted + 1
        /\ ledger'.started = ledger.started
        /\ ledger'.waits = ledger.waits
        /\ minted' = minted + 1 /\ paid' = paid
        /\ pc' = pc /\ poll' = poll /\ restores' = restores
    BY <1>1, <1>6 DEF Enable, LedgerType
  <2>2. ledger.act = minted /\ poll.act <= ledger.act
    BY <1>6 DEF Paced
  <2> QED
    BY <1>1, <1>6, <2>1, <2>2, PacedKept DEF Attempting
<1>7. ASSUME NEW q \in Questions, restores = 0,
             Edit(q) \/ Close(q) \/ Land(q) \/ LandComment(q)
      PROVE  Paced'
  <2>1. /\ ledger' = ledger /\ restores' = restores /\ paid' = paid
        /\ minted' = minted /\ pc' = pc /\ poll' = poll
    BY <1>7 DEF Edit, Close, Land, LandComment
  <2> QED
    BY <1>1, <1>7, <2>1, PacedKept DEF Paced, Attempting
<1> QED
  BY <1>2, <1>3, <1>4, <1>5, <1>6, <1>7, PacedOfWork DEF Next

\* The failures under a key that ended windows of its own are no more than
\* those windows; of a window it inherited there is at most one.
LEMMA PacedFailuresAreFew ==
  ASSUME Types, Windows, Paced, restores = 0,
         NEW q \in Questions, NEW k \in Keys
  PROVE  paid[q][k] <= MaxAttempts + 1
<1> DEFINE rows == ledger.started[q]
           windows == {i \in DOMAIN rows : rows[i] = k}
           all == Failures(q, k)
           own == {w \in all : rows[w.row] = k}
           inherited == all \ own
<1>1. /\ rows \in Seq(Keys) /\ ledger.waits[q] \in SUBSET Waits
      /\ k.act \in Int
  BY FailureTypes
<1>2. /\ IsFiniteSet(all) /\ IsFiniteSet(own) /\ IsFiniteSet(inherited)
      /\ paid[q][k] = Cardinality(all)
  <2>1. IsFiniteSet(all)
    <3>1. all \subseteq ledger.waits[q]
      BY DEF Failures
    <3> HIDE DEF all
    <3> QED
      BY <3>1, FS_Subset DEF Paced
  <2>2. own \subseteq all /\ inherited \subseteq all
    OBVIOUS
  <2>3. paid[q][k] = Cardinality(all)
    BY DEF Paced
  <2> HIDE DEF all, own, inherited
  <2> QED
    BY <2>1, <2>2, <2>3, FS_Subset
<1>3. \A w \in all :
         /\ w \in Waits /\ w.key = k
         /\ w.row \in DOMAIN rows
         /\ rows[w.row].fp = k.fp
         /\ rows[w.row].act <= k.act
         /\ \A i \in DOMAIN rows : i > w.row => rows[i].act >= k.act
  BY <1>1 DEF Failures, Paced, Ended
<1>4. \A v, w \in all : v.row = w.row => v = w
  <2> SUFFICES ASSUME NEW v \in all, NEW w \in all, v.row = w.row
               PROVE  v = w
    OBVIOUS
  <2>1. v \in Waits /\ w \in Waits /\ v.key = w.key
    BY <1>3
  <2> HIDE DEF all
  <2> QED
    BY <2>1 DEF Waits
<1>5. IsFiniteSet(windows) /\ Cardinality(windows) <= MaxAttempts
  <2>1. Count(rows, k) = Cardinality(windows)
    BY DEF Count
  <2>2. windows \subseteq 1 .. Len(rows) /\ Len(rows) \in Nat
    BY <1>1
  <2>3. IsFiniteSet(windows)
    <3>1. IsFiniteSet(1 .. Len(rows))
      BY <2>2, FS_Interval
    <3> HIDE DEF windows, rows
    <3> QED
      BY <2>2, <3>1, FS_Subset
  <2> QED
    BY <2>1, <2>3 DEF Windows, FewWindows
<1>6. Cardinality(own) <= Cardinality(windows)
  <2> DEFINE f == [w \in own |-> w.row]
  <2>1. f \in [own -> windows]
    BY <1>3
  <2>2. \A v, w \in own : f[v] = f[w] => v = w
    BY <1>4
  <2> HIDE DEF f, own, windows
  <2>3. f \in Injection(own, windows)
    BY <2>1, <2>2 DEF Injection, IsInjective
  <2> QED
    BY <1>5, <2>3, FS_Injection
<1>7. Cardinality(inherited) <= 1
  <2>1. \A v, w \in inherited : v = w
    <3> SUFFICES ASSUME NEW v \in inherited, NEW w \in inherited, v # w
                 PROVE  FALSE
      OBVIOUS
    <3>1. /\ v.row \in DOMAIN rows /\ w.row \in DOMAIN rows
          /\ rows[v.row] \in Keys /\ rows[w.row] \in Keys
          /\ v.row \in Int /\ w.row \in Int
      BY <1>1, <1>3
    <3>2. /\ rows[v.row] # k /\ rows[w.row] # k
          /\ rows[v.row].fp = k.fp /\ rows[w.row].fp = k.fp
      BY <1>3
    <3>3. rows[v.row].act # k.act /\ rows[w.row].act # k.act
      BY <3>1, <3>2 DEF Keys
    <3>4. /\ rows[v.row].act \in Int /\ rows[w.row].act \in Int
          /\ rows[v.row].act <= k.act /\ rows[w.row].act <= k.act
      BY <1>3, <3>1, FailureTypes
    <3>5. v.row # w.row
      BY <1>4
    <3>6. /\ v.row > w.row => rows[v.row].act >= k.act
          /\ w.row > v.row => rows[w.row].act >= k.act
      BY <1>3, <3>1
    <3> HIDE DEF rows, inherited
    <3> QED
      BY <1>1, <3>1, <3>3, <3>4, <3>5, <3>6
  <2> HIDE DEF inherited
  <2>2. CASE inherited = {}
    BY <2>2, FS_EmptySet
  <2>3. CASE inherited # {}
    <3>1. PICK w \in inherited : TRUE
      BY <2>3
    <3>2. inherited = {w}
      BY <2>1, <3>1
    <3> QED
      BY <3>2, FS_Singleton
  <2> QED
    BY <2>2, <2>3
<1>8. Cardinality(all) <= Cardinality(own) + Cardinality(inherited)
  <2>1. all = own \cup inherited /\ own \cap inherited = {}
    OBVIOUS
  <2> HIDE DEF all, own, inherited
  <2>2. Cardinality(all) = Cardinality(own) + Cardinality(inherited)
                             - Cardinality(own \cap inherited)
    BY <1>2, <2>1, FS_Union
  <2>3. Cardinality(own \cap inherited) = 0
    BY <2>1, FS_EmptySet
  <2>4. Cardinality(own) \in Nat /\ Cardinality(inherited) \in Nat
    BY <1>2, FS_CardinalityType
  <2> QED
    BY <2>2, <2>3, <2>4
<1> HIDE DEF windows, all, own, inherited
<1>9. /\ Cardinality(own) \in Nat /\ Cardinality(inherited) \in Nat
      /\ Cardinality(windows) \in Nat /\ Cardinality(all) \in Nat
  BY <1>2, <1>5, FS_CardinalityType
<1> QED
  BY <1>2, <1>5, <1>6, <1>7, <1>8, <1>9, BoundsAreNumbers

\* While no ledger is restored one version of a question fails, under one
\* activation, at most once a window and once in a window it inherited
\* (tournament.py:136-188).
THEOREM FailuresAreBoundedHolds == Spec => []FailuresAreBounded
<1>1. Inductive /\ Paced /\ [Next]_vars => Paced'
  BY NextPaced DEF Inductive
<1>2. Inductive /\ Paced => FailuresAreBounded
  BY PacedFailuresAreFew DEF FailuresAreBounded, Inductive
<1> QED
  BY <1>1, <1>2, InitPaced, InductiveHolds, PTL DEF Spec

-----------------------------------------------------------------------------
(* The errand.                                                             *)

\* A step that the errand does not see.
LEMMA ErrandUnmoved ==
  ASSUME UNCHANGED <<guards, restores, forecast>>,
         \A q \in Questions : /\ sent'[q].forecast = sent[q].forecast
                              /\ sent'[q].comment = sent[q].comment,
         ledger'.confirmed = ledger.confirmed,
         ledger'.refused = ledger.refused
  PROVE  UNCHANGED E!vars
<1>1. UNCHANGED <<asks, fates, notes, requests>>
  BY DEF asks, fates, notes, requests
<1> QED
  BY <1>1 DEF E!vars

\* A step that takes no note and asks for nothing.
LEMMA ErrandOfQuietWork ==
  ASSUME Types, NEW q \in Questions, Work(q),
         ~(Intend(q) \/ Send(q) \/ RecordRefusal(q) \/ Verify(q) \/ Publish(q))
  PROVE  UNCHANGED E!vars
<1> USE DEF store, platform, question, counts, history
<1>1. ledger \in LedgerType
  BY DEF Types, TypeOK
<1>2. ledger'.confirmed = ledger.confirmed /\ ledger'.refused = ledger.refused
  BY <1>1
  DEF Work, Recover, Exhaust, Skip, Resume, OpenWindow, ReuseWindow,
      Record, Pace, Refuse, Fail, Withhold,
      Unverified, FindComment, LeaveComment, IntendComment, Block, LedgerType
<1>3. UNCHANGED <<guards, restores, forecast, sent>>
  BY DEF Work, Recover, Exhaust, Skip, Resume, OpenWindow, ReuseWindow,
      Record, Pace, Refuse, Fail, Withhold,
      Unverified, FindComment, LeaveComment, IntendComment
<1> QED
  BY <1>2, <1>3, ErrandUnmoved

LEMMA ErrandOfIntend ==
  ASSUME Types, Forecasts, NEW q \in Questions, Intend(q)
  PROVE  E!Intend(q)
<1> USE DEF store, platform, question, counts, history
<1>1. ledger'.confirmed = ledger.confirmed /\ ledger'.refused = ledger.refused
  BY DEF Types, TypeOK, LedgerType, Intend
<1>2. UNCHANGED <<asks, fates, notes, requests, restores>>
  BY <1>1 DEF Intend, asks, fates, notes, requests
<1>3. q \notin guards /\ guards' = guards \cup {q}
  BY DEF Intend, Forecasts
<1> QED
  BY <1>2, <1>3 DEF E!Intend

LEMMA ErrandOfSend ==
  ASSUME Types, Forecasts, NEW q \in Questions, Send(q)
  PROVE  E!Ask(q)
<1> USE DEF store, platform, question, counts, history
<1>1. /\ sent \in [Questions -> [forecast : Nat, comment : Nat]]
      /\ forecast \in [Questions -> {"none", "delayed", "up", "lost", "refused"}]
  BY DEF Types, TypeOK
<1>2. q \in guards /\ sent[q].forecast = 0 /\ asks[q] = 0
  BY DEF Send, Forecasts, asks
<1>3. PICK end \in {"delayed", "up", "lost", "refused"} :
        forecast' = [forecast EXCEPT ![q] = end]
  BY DEF Send
<1>4. UNCHANGED <<guards, ledger, restores>>
  BY DEF Send
<1>5. /\ sent'[q].forecast = 1
      /\ \A r \in Questions \ {q} : sent'[r].forecast = sent[r].forecast
      /\ \A r \in Questions : sent'[r].comment = sent[r].comment
  BY <1>1, <1>2 DEF Send
<1>6. asks' = [asks EXCEPT ![q] = 1]
  BY <1>5 DEF asks
<1>7. PICK fate \in {"open", "shown", "lost", "refused"} :
        fate = CASE end = "up" -> "shown"
                 [] end \in {"lost", "refused"} -> end
                 [] end \in {"none", "delayed"} -> "open"
  BY <1>3
<1>8. fates' = [fates EXCEPT ![q] = fate]
  BY <1>1, <1>3, <1>7 DEF fates
<1>9. UNCHANGED <<notes, requests>>
  BY <1>4, <1>5 DEF notes, requests
<1> QED
  BY <1>2, <1>4, <1>6, <1>8, <1>9 DEF E!Ask

LEMMA ErrandOfLand ==
  ASSUME Types, Forecasts, NEW q \in Questions, Land(q)
  PROVE  E!Turn(q)
<1> USE DEF store, platform, question, counts, history, worker
<1>1. /\ forecast \in [Questions -> {"none", "delayed", "up", "lost", "refused"}]
      /\ forecast[q] = "delayed"
  BY DEF Types, TypeOK, Land
<1>2. asks[q] = 1 /\ fates[q] = "open"
  BY <1>1 DEF Forecasts, asks, fates
<1>3. PICK end \in {"up", "lost"} : forecast' = [forecast EXCEPT ![q] = end]
  BY DEF Land
<1>4. PICK fate \in {"shown", "lost"} : fate = IF end = "up" THEN "shown" ELSE "lost"
  BY <1>3
<1>5. fates' = [fates EXCEPT ![q] = fate]
  BY <1>1, <1>3, <1>4 DEF fates
<1>6. UNCHANGED <<guards, asks, notes, requests, restores>>
  BY DEF Land, asks, notes, requests
<1> QED
  BY <1>2, <1>5, <1>6 DEF E!Turn

LEMMA ErrandOfNotes ==
  ASSUME Types, Comments, Noted, NEW q \in Questions, Verify(q) \/ RecordRefusal(q)
  PROVE  E!Note(q)
<1> USE DEF store, platform, question, counts, history
<1>1. /\ ledger \in LedgerType
      /\ ledger.confirmed \in [Questions -> BOOLEAN]
      /\ ledger.refused \in [Questions -> BOOLEAN]
  BY DEF Types, TypeOK, LedgerType
<1>2. UNCHANGED <<guards, asks, fates, requests, restores>>
  <2>1. UNCHANGED <<guards, forecast, sent, restores>>
    BY DEF Verify, RecordRefusal
  <2> QED
    BY <2>1 DEF asks, fates, requests
<1>3. CASE Verify(q)
  <2>1. /\ ledger'.confirmed = [ledger.confirmed EXCEPT ![q] = TRUE]
        /\ ledger'.refused = ledger.refused
    BY <1>1, <1>3 DEF Verify, LedgerType
  <2>2. fates[q] = "shown"
    BY <1>3 DEF Verify, fates
  <2>3. notes' = [notes EXCEPT ![q] = "shown"]
    BY <1>1, <2>1 DEF notes
  <2> QED
    BY <1>2, <2>2, <2>3 DEF E!Note
<1>4. CASE RecordRefusal(q)
  <2>1. /\ ledger'.refused = [ledger.refused EXCEPT ![q] = TRUE]
        /\ ledger'.confirmed = ledger.confirmed
    BY <1>1, <1>4 DEF RecordRefusal, LedgerType
  <2>2. forecast[q] = "refused"
    BY <1>4 DEF RecordRefusal, Leave, Noted
  <2>3. fates[q] = "refused" /\ ~ledger.confirmed[q]
    BY <2>2 DEF fates, Comments
  <2>4. notes' = [notes EXCEPT ![q] = "refused"]
    BY <1>1, <2>1, <2>3 DEF notes
  <2> QED
    BY <1>2, <2>3, <2>4 DEF E!Note
<1> QED
  BY <1>3, <1>4

LEMMA ErrandOfPublish ==
  ASSUME Types, Noted, Requested, NEW q \in Questions, Publish(q)
  PROVE  E!Tell(q)
<1> USE DEF store, platform, question, counts, history
<1>1. /\ sent \in [Questions -> [forecast : Nat, comment : Nat]]
      /\ restores \in Nat
  BY BoundsAreNumbers DEF Types, TypeOK
<1>2. notes[q] = "shown"
  BY DEF Publish, Noted, notes
<1>3. requests[q] <= restores
  <2>1. sent[q].comment \in Nat /\ pc = "publish" /\ poll.cur = q
    BY <1>1 DEF Publish
  <2> QED
    BY <1>1, <2>1 DEF Requested, One, requests
<1>4. /\ sent'[q].comment = sent[q].comment + 1
      /\ \A r \in Questions \ {q} : sent'[r].comment = sent[r].comment
      /\ \A r \in Questions : sent'[r].forecast = sent[r].forecast
  BY <1>1 DEF Publish
<1>5. requests' = [requests EXCEPT ![q] = @ + 1]
  BY <1>4 DEF requests
<1>6. UNCHANGED <<guards, asks, fates, notes, restores>>
  BY <1>4 DEF Publish, asks, fates, notes
<1> QED
  BY <1>2, <1>3, <1>5, <1>6 DEF E!Tell

LEMMA ErrandOfRestore ==
  ASSUME Types, Comments, Noted, Restore
  PROVE  E!PutBack
<1> USE DEF store, platform, question, worker, counts, history
<1>1. backup \in LedgerType /\ backup # None
  BY DEF Restore, Types, TypeOK
<1>2. ledger'.confirmed = backup.confirmed /\ ledger'.refused = backup.refused
  BY <1>1 DEF Restore, LedgerType
<1>3. UNCHANGED <<guards, asks, fates, requests>> /\ restores' = restores + 1
  BY DEF Restore, asks, fates, requests
<1>4. notes' \in [Questions -> {"nothing", "shown", "refused"}]
  BY DEF notes
<1>5. \A q \in Questions : notes'[q] \in {notes[q], "nothing"}
  <2> SUFFICES ASSUME NEW q \in Questions PROVE notes'[q] \in {notes[q], "nothing"}
    OBVIOUS
  <2>1. /\ backup.confirmed[q] => ledger.confirmed[q]
        /\ backup.refused[q] => ledger.refused[q] /\ ~ledger.confirmed[q]
    BY <1>1 DEF Noted, Comments
  <2> QED
    BY <1>2, <2>1 DEF notes
<1> QED
  BY <1>3, <1>4, <1>5 DEF E!PutBack

LEMMA NextErrand ==
  ASSUME Inductive, Noted, Requested, [Next]_vars
  PROVE  [E!Next]_(E!vars)
<1> USE DEF store, platform, question, worker, counts, history
<1>1. Types /\ Forecasts /\ Comments /\ ledger \in LedgerType
  BY DEF Inductive, Types, TypeOK
<1>2. ASSUME NEW q \in Questions, Work(q)
      PROVE  [E!Next]_(E!vars)
  BY <1>1, <1>2, ErrandOfQuietWork, ErrandOfIntend, ErrandOfSend, ErrandOfNotes, ErrandOfPublish
  DEF E!Next
<1>3. ASSUME UNCHANGED <<guards, restores, forecast, sent>>,
             ledger'.confirmed = ledger.confirmed, ledger'.refused = ledger.refused
      PROVE  UNCHANGED E!vars
  BY <1>3, ErrandUnmoved
<1>4. CASE Poll \/ Die \/ Tick \/ Backup \/ UNCHANGED vars
  BY <1>3, <1>4 DEF Poll, BeginPoll, BeginQuestions, EndPoll, Die, Tick, Backup, vars
<1>5. CASE Enable
  <2>1. ledger'.confirmed = ledger.confirmed /\ ledger'.refused = ledger.refused
    BY <1>1, <1>5 DEF Enable, LedgerType
  <2> QED
    BY <1>3, <1>5, <2>1 DEF Enable
<1>6. CASE Restore
  BY <1>1, <1>6, ErrandOfRestore DEF E!Next
<1>7. ASSUME NEW q \in Questions, Edit(q) \/ Close(q) \/ LandComment(q)
      PROVE  UNCHANGED E!vars
  BY <1>3, <1>7 DEF Edit, Close, LandComment
<1>8. ASSUME NEW q \in Questions, Land(q)
      PROVE  E!Next
  BY <1>1, <1>8, ErrandOfLand DEF E!Next
<1> QED
  BY <1>2, <1>4, <1>5, <1>6, <1>7, <1>8 DEF Next

\* Deaths, edits, lost and late answers, activations and restores of old ledgers
\* notwithstanding, every step of the worker, the platform and the operator is a
\* step of Errand or changes nothing it can see (tournament.py:368-569,
\* 1140-1156, restore.py:26-144).
THEOREM ImplementsErrandHolds == Spec => ImplementsErrand
<1>1. Init => E!Init
  BY DEF Init, Never, E!Init, asks, fates, notes, requests
<1>2. Inductive /\ Noted /\ Requested /\ [Next]_vars => [E!Next]_(E!vars)
  BY NextErrand
<1> QED
  BY <1>1, <1>2, RequestedHolds, InductiveHolds, NotedHolds, PTL DEF Spec, ImplementsErrand, E!Spec
=============================================================================
