-------------------------- MODULE ResolutionProofs --------------------------
(***************************************************************************)
(* Status, observations and scores stay in step, whatever runs overlap.    *)
(***************************************************************************)
EXTENDS ResolutionRefinement, WellFoundedInduction, TLAPS

LEMMA MinIsMember ==
  ASSUME NEW S \in SUBSET Nat, S # {}
  PROVE  Min(S) \in S
<1> DEFINE R == {ss \in Nat \X Nat : ss[1] < ss[2]}
<1>1. PICK x \in S : \A y \in S : ~(<<y, x>> \in R)
  <2>1. IsWellFoundedOn(R, Nat)
    BY NatLessThanWellFounded DEF OpToRel
  <2>2. S \subseteq Nat
    OBVIOUS
  <2> HIDE DEF R
  <2>3. \E x \in S : \A y \in S : ~(<<y, x>> \in R)
    BY <2>1, <2>2, WFMin, Zenon
  <2> QED
    BY <2>3
<1>2. \A y \in S : x =< y
  <2>1. SUFFICES ASSUME NEW y \in S, y < x PROVE FALSE
    OBVIOUS
  <2>2. <<y, x>> \in Nat \X Nat /\ <<y, x>>[1] < <<y, x>>[2]
    BY <2>1
  <2>3. <<y, x>> \in R
    BY <2>2, Zenon
  <2> QED
    BY <1>1, <2>3
<1> QED
  BY <1>2 DEF Min

-----------------------------------------------------------------------------
(* Runs.                                                                   *)

Steps == {"idle", "fetch", "stamp", "record", "ingested",
          "score", "local", "restamp", "platform"}

\* What a run x holds at step p.
Fine(x, p) ==
    /\ p \in {"stamp", "record"} => x.payload # <<>>
    /\ p \in {"record", "local", "restamp", "platform"} => x.members # {}
    /\ x.todo \subseteq {PostOf[QuestionOf[r]] : r \in x.listed}
    /\ p = "stamp" => x.post \in x.todo

RunsAreFine ==
    /\ pc \in [Sessions -> Steps]
    /\ run \in [Sessions -> RunType]
    /\ \A s \in Sessions : Fine(run[s], pc[s])

LedgerType ==
    /\ status \in [Records -> {"approved", "submitted", "resolved", "scored"}]
    /\ rows \in [Records -> Seq(Rows)]
    /\ scores \in [Records -> Seq(Scores)]

WorldType ==
    /\ platform \in [Questions -> Shown]
    /\ alerted \in SUBSET Records
    /\ clock \in 0 .. MaxClock
    /\ version \in 1 .. MaxVersions
    /\ changes \in 0 .. MaxChanges
    /\ commands \in 0 .. MaxCommands
    /\ faults \in 0 .. MaxFaults

LEMMA Parts == TypeOK /\ Listing <=> RunsAreFine /\ LedgerType /\ WorldType
BY DEF TypeOK, Listing, RunsAreFine, Fine, Steps, LedgerType, WorldType

\* One session takes a step.
Moves(s, x, p) ==
    /\ run' = [run EXCEPT ![s] = x]
    /\ pc' = [pc EXCEPT ![s] = p]

LEMMA MovesKeepRuns ==
  ASSUME RunsAreFine, NEW s \in Sessions, NEW x \in RunType, NEW p \in Steps,
         Fine(x, p), Moves(s, x, p)
  PROVE  RunsAreFine'
<1>1. /\ pc' \in [Sessions -> Steps]
      /\ run' \in [Sessions -> RunType]
  BY DEF RunsAreFine, Moves
<1>2. ASSUME NEW t \in Sessions PROVE Fine(run[t]', pc[t]')
  <2>1. CASE t = s
    BY <2>1 DEF RunsAreFine, Moves
  <2>2. CASE t # s
    BY <2>2 DEF RunsAreFine, Moves
  <2> QED
    BY <2>1, <2>2
<1> QED
  BY <1>1, <1>2 DEF RunsAreFine, Fine

LEMMA IdleRun ==
  /\ Idle \in RunType
  /\ \A p \in {"idle", "fetch", "ingested", "score"} : Fine(Idle, p)
<1>1. Idle \in RunType
  BY BoundsAreNumbers DEF Idle, RunType
<1> QED
  BY <1>1 DEF Idle, Fine

LEMMA InHandIsMember ==
  ASSUME RunsAreFine, NEW s \in Sessions, run[s].members # {}
  PROVE  InHand(s) \in run[s].members /\ InHand(s) \in Records
<1>1. run[s].members \in SUBSET Records
  BY DEF RunsAreFine, RunType
<1>2. run[s].members \in SUBSET Nat
  BY <1>1, NumbersOrder
<1> QED
  BY <1>1, <1>2, MinIsMember DEF InHand

\* The posts a run has still to fetch are numbers.
LEMMA NextPost ==
  ASSUME RunsAreFine, NEW s \in Sessions, run[s].todo # {}
  PROVE  Min(run[s].todo) \in run[s].todo /\ Min(run[s].todo) \in Posts
<1>1. run[s].todo \in SUBSET Posts
  BY DEF RunsAreFine, RunType
<1>2. run[s].todo \in SUBSET Nat
  BY <1>1, NumbersOrder
<1> QED
  BY <1>1, <1>2, MinIsMember

LEMMA BeginIngestMoves ==
  ASSUME RunsAreFine, NEW s \in Sessions, BeginIngest(s)
  PROVE  RunsAreFine'
<1>1. PICK Q : LET listed == {r \in Posted : QuestionOf[r] \in Q}
               IN  run' = [run EXCEPT ![s] =
                     [Idle EXCEPT !.listed = listed,
                        !.todo = {PostOf[QuestionOf[r]] : r \in listed}]]
  BY DEF BeginIngest
<1> DEFINE listed == {r \in Posted : QuestionOf[r] \in Q}
           todo == {PostOf[QuestionOf[r]] : r \in listed}
           x == [Idle EXCEPT !.listed = listed, !.todo = todo]
<1>2. listed \in SUBSET Records
  BY DEF Posted
<1>3. todo \in SUBSET Posts
  BY <1>2, MapsAreFunctions
<1>4. x \in RunType /\ x.todo = todo /\ x.listed = listed
  <2> HIDE DEF listed, todo
  <2> QED
    BY <1>2, <1>3, IdleRun DEF RunType
<1>5. Fine(x, "fetch")
  <2> HIDE DEF x
  <2> QED
    BY <1>4 DEF Fine
<1>6. Moves(s, x, "fetch")
  BY <1>1 DEF BeginIngest, Moves
<1> HIDE DEF x
<1> QED
  BY <1>4, <1>5, <1>6, MovesKeepRuns DEF Steps

LEMMA FetchMoves ==
  ASSUME RunsAreFine, WorldType, NEW s \in Sessions, Fetch(s)
  PROVE  RunsAreFine'
<1> DEFINE x == [run[s] EXCEPT !.post = Min(run[s].todo), !.payload = platform]
<1>1. run[s] \in RunType /\ Fine(run[s], "fetch") /\ run[s].todo # {}
  BY DEF RunsAreFine, Fetch
<1>2. Min(run[s].todo) \in run[s].todo /\ Min(run[s].todo) \in Posts
  BY <1>1, NextPost
<1>3. /\ x \in RunType
      /\ x.todo = run[s].todo
      /\ x.listed = run[s].listed
      /\ x.post = Min(run[s].todo)
      /\ x.payload = platform
  BY <1>1, <1>2 DEF RunType, WorldType
<1>4. platform # <<>>
  <2>1. PICK r \in run[s].listed : TRUE
    BY <1>1 DEF Fine
  <2>2. QuestionOf[r] \in DOMAIN platform
    BY <1>1, MapsAreFunctions DEF RunType, WorldType
  <2>3. DOMAIN <<>> = {}
    OBVIOUS
  <2> QED
    BY <2>2, <2>3
<1>5. Fine(x, "stamp")
  BY <1>1, <1>2, <1>3, <1>4 DEF Fine
<1>6. Moves(s, x, "stamp")
  BY DEF Fetch, Moves
<1> HIDE DEF x
<1> QED
  BY <1>3, <1>5, <1>6, MovesKeepRuns DEF Steps

LEMMA FetchFailsMoves ==
  ASSUME RunsAreFine, NEW s \in Sessions, FetchFails(s)
  PROVE  RunsAreFine'
<1> DEFINE x == [run[s] EXCEPT !.todo = @ \ {Min(@)}, !.failed = TRUE]
<1>1. run[s] \in RunType /\ Fine(run[s], "fetch") /\ pc[s] = "fetch"
  BY DEF RunsAreFine, FetchFails
<1>2. /\ x \in RunType
      /\ x.todo \subseteq run[s].todo
      /\ x.listed = run[s].listed
  BY <1>1 DEF RunType
<1>3. Fine(x, "fetch")
  BY <1>1, <1>2 DEF Fine
<1>4. Moves(s, x, "fetch")
  BY <1>1 DEF FetchFails, Moves, RunsAreFine
<1> HIDE DEF x
<1> QED
  BY <1>2, <1>3, <1>4, MovesKeepRuns DEF Steps

LEMMA StampMoves ==
  ASSUME RunsAreFine, WorldType, NEW s \in Sessions, Stamp(s)
  PROVE  RunsAreFine'
<1> DEFINE found == {r \in run[s].listed :
                       PostOf[QuestionOf[r]] = run[s].post}
           x == [run[s] EXCEPT !.stamp = clock, !.members = found]
<1>1. run[s] \in RunType /\ Fine(run[s], "stamp")
  BY DEF RunsAreFine, Stamp
<1>2. found \in SUBSET Records /\ found # {}
  BY <1>1 DEF Fine, RunType
<1>3. /\ x \in RunType
      /\ x.todo = run[s].todo
      /\ x.listed = run[s].listed
      /\ x.payload = run[s].payload
      /\ x.members = found
  <2> HIDE DEF found
  <2> QED
    BY <1>1, <1>2 DEF RunType, WorldType
<1>4. Fine(x, "record")
  <2> HIDE DEF found, x
  <2> QED
    BY <1>1, <1>2, <1>3 DEF Fine
<1>5. Moves(s, x, "record")
  BY DEF Stamp, Moves
<1> HIDE DEF x
<1> QED
  BY <1>3, <1>4, <1>5, MovesKeepRuns DEF Steps

LEMMA NextMemberMoves ==
  ASSUME RunsAreFine, NEW s \in Sessions, pc[s] = "record",
         NEW failing \in BOOLEAN, NextMember(s, failing)
  PROVE  RunsAreFine'
<1> DEFINE rest == run[s].members \ {InHand(s)}
           x == [run[s] EXCEPT !.members = rest, !.failed = @ \/ failing]
           failed == run[s].failed \/ failing
           y == [run[s] EXCEPT !.members = {}, !.failed = failed,
                               !.todo = @ \ {run[s].post}, !.post = Null,
                               !.payload = <<>>, !.stamp = 0]
<1>1. run[s] \in RunType /\ Fine(run[s], "record")
  BY DEF RunsAreFine
<1>2. CASE rest # {}
  <2>1. /\ x \in RunType
        /\ x.todo = run[s].todo
        /\ x.listed = run[s].listed
        /\ x.payload = run[s].payload
        /\ x.members = rest
    BY <1>1 DEF RunType
  <2>2. Fine(x, "record")
    <3> HIDE DEF x
    <3> QED
      BY <1>1, <1>2, <2>1 DEF Fine
  <2>3. Moves(s, x, "record")
    BY <1>2 DEF NextMember, Moves, RunsAreFine
  <2> HIDE DEF x
  <2> QED
    BY <2>1, <2>2, <2>3, MovesKeepRuns DEF Steps
<1>3. CASE rest = {}
  <2>1. /\ y \in RunType
        /\ y.todo \subseteq run[s].todo
        /\ y.listed = run[s].listed
    <3>1. /\ failed \in BOOLEAN
          /\ 0 \in 0 .. MaxClock
          /\ run[s].todo \ {run[s].post} \in SUBSET Posts
          /\ <<>> \in [Questions -> Shown] \cup {<<>>}
      BY <1>1, BoundsAreNumbers DEF RunType
    <3> HIDE DEF failed
    <3> QED
      BY <1>1, <3>1 DEF RunType
  <2>2. Fine(y, "fetch")
    <3> HIDE DEF y
    <3> QED
      BY <1>1, <2>1 DEF Fine
  <2>3. Moves(s, y, "fetch")
    BY <1>3 DEF NextMember, Moves
  <2> HIDE DEF y
  <2> QED
    BY <2>1, <2>2, <2>3, MovesKeepRuns DEF Steps
<1> QED
  BY <1>2, <1>3

LEMMA EndMoves ==
  ASSUME RunsAreFine, NEW s \in Sessions, EndIngest(s) \/ EndScore(s) \/ Kill(s)
  PROVE  RunsAreFine'
<1>1. CASE Moves(s, Idle, "idle")
  BY <1>1, IdleRun, MovesKeepRuns DEF Steps
<1>2. CASE Moves(s, Idle, "ingested")
  BY <1>2, IdleRun, MovesKeepRuns DEF Steps
<1> QED
  BY <1>1, <1>2 DEF EndIngest, EndScore, Kill, Moves

LEMMA BeginScoreMoves ==
  ASSUME RunsAreFine, WorldType, NEW s \in Sessions, BeginScore(s)
  PROVE  RunsAreFine'
<1> DEFINE choices == {{r \in Records : rows[r] # <<>>}}
                        \cup (IF s \in Timers THEN {}
                                              ELSE {{r} : r \in Records})
<1>1. choices \subseteq SUBSET Records
  OBVIOUS
<1>2. PICK R \in choices :
        run' = [run EXCEPT ![s] =
                  [Idle EXCEPT !.members = R, !.version = version]]
  BY Zenon DEF BeginScore
<1> DEFINE x == [Idle EXCEPT !.members = R, !.version = version]
<1>3. x \in RunType /\ x.todo = {} /\ x.listed = {}
  <2> HIDE DEF choices
  <2> QED
    BY <1>1, IdleRun DEF RunType, WorldType, Idle
<1>4. Fine(x, "score")
  BY <1>3 DEF Fine
<1>5. Moves(s, x, "score")
  BY <1>2 DEF BeginScore, Moves
<1> HIDE DEF x
<1> QED
  BY <1>3, <1>4, <1>5, MovesKeepRuns DEF Steps

LEMMA StampingMoves ==
  ASSUME RunsAreFine, WorldType, NEW s \in Sessions,
         TakeRecord(s) \/ Restamp(s)
  PROVE  RunsAreFine'
<1> DEFINE x == [run[s] EXCEPT !.stamp = clock]
<1>1. run[s] \in RunType /\ Fine(run[s], pc[s])
  BY DEF RunsAreFine
<1>2. /\ x \in RunType
      /\ x.todo = run[s].todo
      /\ x.listed = run[s].listed
      /\ x.members = run[s].members
  BY <1>1 DEF RunType, WorldType
<1>3. PICK p \in {"local", "platform"} : Moves(s, x, p)
  BY DEF TakeRecord, Restamp, Moves
<1>4. run[s].members # {}
  BY <1>1 DEF Fine, TakeRecord, Restamp
<1> HIDE DEF x
<1>5. Fine(x, p)
  BY <1>1, <1>2, <1>4 DEF Fine
<1> QED
  BY <1>2, <1>3, <1>5, MovesKeepRuns DEF Steps

LEMMA NextFamilyMoves ==
  ASSUME RunsAreFine, NEW s \in Sessions, pc[s] \in Families, NextFamily(s)
  PROVE  RunsAreFine'
<1>1. run[s] \in RunType /\ Fine(run[s], pc[s])
  BY DEF RunsAreFine
<1>2. CASE pc[s] = "local"
  <2>1. Fine(run[s], "restamp")
    BY <1>1, <1>2 DEF Fine
  <2>2. Moves(s, run[s], "restamp")
    BY <1>2 DEF NextFamily, Moves, RunsAreFine
  <2> QED
    BY <1>1, <2>1, <2>2, MovesKeepRuns DEF Steps
<1>3. CASE pc[s] # "local"
  <2> DEFINE x == [run[s] EXCEPT !.members = @ \ {InHand(s)}, !.stamp = 0]
  <2>1. /\ x \in RunType
        /\ x.todo = run[s].todo
        /\ x.listed = run[s].listed
    <3>1. 0 \in 0 .. MaxClock
      BY BoundsAreNumbers
    <3>2. run[s].members \ {InHand(s)} \in SUBSET Records
      BY <1>1 DEF RunType
    <3> QED
      BY <1>1, <3>1, <3>2 DEF RunType
  <2>2. Moves(s, x, "score")
    BY <1>3 DEF NextFamily, Moves
  <2> HIDE DEF x
  <2>3. Fine(x, "score")
    BY <1>1, <2>1 DEF Fine
  <2> QED
    BY <2>1, <2>2, <2>3, MovesKeepRuns DEF Steps
<1> QED
  BY <1>2, <1>3

-----------------------------------------------------------------------------
(* The ledger.                                                             *)

LEMMA RowAppended ==
  ASSUME LedgerType, NEW r \in Records, NEW e \in Rows,
         rows' = [rows EXCEPT ![r] = Append(@, e)]
  PROVE  /\ rows' \in [Records -> Seq(Rows)]
         /\ \A q \in Records : q # r => rows'[q] = rows[q]
         /\ Len(rows[r]) \in Nat
         /\ DOMAIN rows[r] = 1 .. Len(rows[r])
         /\ Len(rows'[r]) = Len(rows[r]) + 1
         /\ DOMAIN rows'[r] = 1 .. Len(rows[r]) + 1
         /\ \A i \in DOMAIN rows[r] : rows'[r][i] = rows[r][i]
         /\ rows'[r][Len(rows[r]) + 1] = e
         /\ rows'[r] # <<>>
<1>1. rows \in [Records -> Seq(Rows)]
  BY DEF LedgerType
<1>2. rows[r] \in Seq(Rows) /\ rows'[r] = Append(rows[r], e)
  BY <1>1
<1>3. /\ rows'[r] \in Seq(Rows)
      /\ Len(rows'[r]) = Len(rows[r]) + 1
      /\ Len(rows[r]) \in Nat
  BY <1>2
<1> QED
  BY <1>1, <1>2, <1>3

LEMMA ScoreAppended ==
  ASSUME LedgerType, NEW r \in Records, NEW e \in Scores,
         scores' = [scores EXCEPT ![r] = Append(@, e)]
  PROVE  /\ scores' \in [Records -> Seq(Scores)]
         /\ \A q \in Records : q # r => scores'[q] = scores[q]
         /\ Len(scores[r]) \in Nat
         /\ DOMAIN scores[r] = 1 .. Len(scores[r])
         /\ Len(scores'[r]) = Len(scores[r]) + 1
         /\ DOMAIN scores'[r] = 1 .. Len(scores[r]) + 1
         /\ \A i \in DOMAIN scores[r] : scores'[r][i] = scores[r][i]
         /\ scores'[r][Len(scores[r]) + 1] = e
         /\ scores'[r] # <<>>
<1>1. scores \in [Records -> Seq(Scores)]
  BY DEF LedgerType
<1>2. scores[r] \in Seq(Scores) /\ scores'[r] = Append(scores[r], e)
  BY <1>1
<1>3. /\ scores'[r] \in Seq(Scores)
      /\ Len(scores'[r]) = Len(scores[r]) + 1
      /\ Len(scores[r]) \in Nat
  BY <1>2
<1> QED
  BY <1>1, <1>2, <1>3

\* What the row of AppendAnswer and the observations before it are.
LEMMA AnswerRow ==
  ASSUME RunsAreFine, LedgerType, NEW s \in Sessions, AppendAnswer(s)
  PROVE  \E r \in Records, row \in Rows :
           /\ r = InHand(s)
           /\ row = [shown |-> Seen(s), observed |-> run[s].stamp]
           /\ rows' = [rows EXCEPT ![r] = Append(@, row)]
<1>1. run[s] \in RunType /\ Fine(run[s], "record")
  BY DEF RunsAreFine, AppendAnswer
<1>2. InHand(s) \in Records
  BY <1>1, InHandIsMember DEF Fine
<1>3. run[s].payload \in [Questions -> Shown]
  BY <1>1 DEF Fine, RunType
<1>4. Seen(s) \in Shown
  BY <1>2, <1>3, MapsAreFunctions DEF Seen
<1>5. run[s].stamp \in 0 .. MaxClock
  BY <1>1 DEF RunType
<1> QED
  BY <1>2, <1>4, <1>5 DEF AppendAnswer, Rows

InStep(r) ==
    /\ status[r] = "approved" => rows[r] = <<>>
    /\ status[r] \in {"resolved", "scored"} <=> Kinds(r) \cap Definitive # {}
    /\ status[r] = "scored" <=> scores[r] # <<>>

LEMMA StatusInSteps == StatusFollowsRows <=> \A r \in Records : InStep(r)
BY DEF StatusFollowsRows, InStep, Kinds

\* The kinds an observation adds.
LEMMA KindAdded ==
  ASSUME LedgerType, NEW r \in Records, NEW row \in Rows,
         rows' = [rows EXCEPT ![r] = Append(@, row)]
  PROVE  /\ Kinds(r)' = Kinds(r) \cup {KindOf(QuestionOf[r], row.shown.answer)}
         /\ \A q \in Records : q # r => Kinds(q)' = Kinds(q)
<1> DEFINE kind == KindOf(QuestionOf[r], row.shown.answer)
           n == Len(rows[r])
<1>1. /\ \A q \in Records : q # r => rows'[q] = rows[q]
      /\ n \in Nat
      /\ DOMAIN rows[r] = 1 .. n
      /\ DOMAIN rows'[r] = 1 .. n + 1
      /\ \A i \in DOMAIN rows[r] : rows'[r][i] = rows[r][i]
      /\ rows'[r][n + 1] = row
  BY RowAppended
<1>2. ASSUME NEW k PROVE k \in Kinds(r)' <=> k \in Kinds(r) \cup {kind}
  <2>1. KindOf(QuestionOf[r], rows'[r][n + 1].shown.answer) = kind
    BY <1>1
  <2>2. ASSUME NEW i \in DOMAIN rows[r]
        PROVE  /\ i \in DOMAIN rows'[r]
               /\ KindOf(QuestionOf[r], rows'[r][i].shown.answer)
                    = KindOf(QuestionOf[r], rows[r][i].shown.answer)
    BY <1>1
  <2>3. n + 1 \in DOMAIN rows'[r]
    BY <1>1
  <2>4. ASSUME NEW i \in DOMAIN rows'[r]
        PROVE  i \in DOMAIN rows[r] \/ i = n + 1
    BY <1>1
  <2> HIDE DEF kind
  <2> QED
    BY <2>1, <2>2, <2>3, <2>4, Zenon DEF Kinds
<1>3. Kinds(r)' = Kinds(r) \cup {kind}
  BY <1>2
<1> QED
  BY <1>1, <1>3 DEF Kinds

LEMMA AnswerKeepsStatus ==
  ASSUME RunsAreFine, LedgerType, StatusFollowsRows, NEW s \in Sessions,
         AppendAnswer(s)
  PROVE  StatusFollowsRows' /\ LedgerType'
<1>1. PICK r \in Records, row \in Rows :
        /\ r = InHand(s)
        /\ row = [shown |-> Seen(s), observed |-> run[s].stamp]
        /\ rows' = [rows EXCEPT ![r] = Append(@, row)]
  BY AnswerRow
<1> DEFINE kind == KindOf(QuestionOf[r], row.shown.answer)
<1>2. /\ rows' \in [Records -> Seq(Rows)]
      /\ \A q \in Records : q # r => rows'[q] = rows[q]
      /\ rows'[r] # <<>>
  BY <1>1, RowAppended
<1>3. row.shown = Seen(s)
  BY <1>1
<1>4. /\ scores' = scores
      /\ status' = [status EXCEPT ![r] =
                      IF kind \in Definitive /\ status[r] = "submitted"
                        THEN "resolved" ELSE @]
      /\ status[r] \in {"submitted", "resolved", "scored"}
  BY <1>1, <1>3 DEF AppendAnswer, Refuses, Posted
<1>5. LedgerType'
  <2> HIDE DEF kind
  <2> QED
    BY <1>1, <1>2, <1>4 DEF LedgerType
<1>6. /\ Kinds(r)' = Kinds(r) \cup {kind}
      /\ \A q \in Records : q # r => Kinds(q)' = Kinds(q)
  BY <1>1, KindAdded
<1> HIDE DEF kind
<1>7. ASSUME NEW q \in Records PROVE InStep(q)'
  <2>1. InStep(q)
    BY StatusInSteps
  <2>2. CASE q # r
    BY <1>1, <1>2, <1>4, <1>6, <2>1, <2>2 DEF InStep, LedgerType
  <2>3. CASE q = r
    <3>1. status'[r] = IF kind \in Definitive /\ status[r] = "submitted"
                         THEN "resolved" ELSE status[r]
      BY <1>1, <1>4 DEF LedgerType
    <3> QED
      BY <1>2, <1>4, <1>6, <2>1, <2>3, <3>1 DEF InStep
  <2> QED
    BY <2>2, <2>3
<1> QED
  BY <1>5, <1>7, StatusInSteps DEF StatusFollowsRows, InStep, Kinds

LEMMA AnswerKeepsHistory ==
  ASSUME RunsAreFine, LedgerType, HistoryIsChanges, NEW s \in Sessions,
         AppendAnswer(s)
  PROVE  HistoryIsChanges'
<1>1. PICK r \in Records, row \in Rows :
        /\ r = InHand(s)
        /\ row = [shown |-> Seen(s), observed |-> run[s].stamp]
        /\ rows' = [rows EXCEPT ![r] = Append(@, row)]
  BY AnswerRow
<1> DEFINE n == Len(rows[r])
<1>2. /\ \A q \in Records : q # r => rows'[q] = rows[q]
      /\ n \in Nat
      /\ DOMAIN rows[r] = 1 .. n
      /\ DOMAIN rows'[r] = 1 .. n + 1
      /\ \A i \in DOMAIN rows[r] : rows'[r][i] = rows[r][i]
      /\ rows'[r][n + 1] = row
  BY <1>1, RowAppended
<1>3. row.shown = Seen(s) /\ row.observed = run[s].stamp
  BY <1>1
<1>4. ~Refuses(r, row.shown.answer, row.observed)
      /\ ~NothingNew(r, row.shown.answer)
  BY <1>1, <1>3 DEF AppendAnswer
<1>5. rows[r] \in Seq(Rows) /\ (n = 0 <=> rows[r] = <<>>)
  BY DEF LedgerType
<1>6. n = 0 => KindOf(QuestionOf[r], row.shown.answer)
                 \notin {"unresolved", "refused"}
  BY <1>4, <1>5 DEF Refuses, NothingNew
<1>7. n # 0 => /\ Digest(row.shown.answer) # Digest(rows[r][n].shown.answer)
               /\ row.observed >= rows[r][n].observed
  <2>1. ASSUME n # 0
        PROVE  rows[r][n].observed \in Int /\ row.observed \in Int
    <3>1. rows[r][n] \in Rows
      BY <1>2, <1>5, <2>1
    <3> QED
      BY <1>1, <3>1, BoundsAreNumbers DEF Rows
  <2> QED
    BY <1>4, <1>5, <2>1 DEF Refuses, NothingNew, Latest
<1>8. ASSUME NEW q \in Records, NEW i \in DOMAIN rows'[q]
      PROVE  IF i = 1
               THEN KindOf(QuestionOf[q], rows'[q][1].shown.answer)
                      \notin {"unresolved", "refused"}
               ELSE /\ Digest(rows'[q][i].shown.answer)
                         # Digest(rows'[q][i-1].shown.answer)
                    /\ rows'[q][i].observed >= rows'[q][i-1].observed
  <2>1. CASE q # r
    BY <1>2, <2>1 DEF HistoryIsChanges
  <2>2. CASE q = r /\ i \in DOMAIN rows[r]
    <3>1. /\ rows'[r][i] = rows[r][i]
          /\ i # 1 => rows'[r][i-1] = rows[r][i-1]
          /\ rows'[r][1] = rows[r][1]
      BY <1>2, <2>2
    <3> QED
      BY <2>2, <3>1 DEF HistoryIsChanges
  <2>3. CASE q = r /\ i = n + 1
    <3>1. n # 0 => rows'[r][n] = rows[r][n]
      BY <1>2
    <3>2. n = 0 <=> i = 1
      BY <1>2, <2>3
    <3>3. i - 1 = n
      BY <1>2, <2>3
    <3> HIDE DEF n
    <3> QED
      BY <1>2, <1>6, <1>7, <2>3, <3>1, <3>2, <3>3
  <2> QED
    BY <1>2, <2>1, <2>2, <2>3
<1> QED
  BY <1>8 DEF HistoryIsChanges

Belongs(r) ==
    /\ \A i \in DOMAIN scores[r] :
          /\ scores[r][i].row \in DOMAIN rows[r]
          /\ KindOf(QuestionOf[r], rows[r][scores[r][i].row].shown.answer)
               = "resolved"
          /\ HasScore(r, rows[r][scores[r][i].row].shown, scores[r][i].family)
    /\ \A i, j \in DOMAIN scores[r] : scores[r][i] = scores[r][j] => i = j

LEMMA ScoresInParts == ScoresBelong <=> \A r \in Records : Belongs(r)
BY DEF ScoresBelong, Belongs

LEMMA AnswerKeepsScores ==
  ASSUME RunsAreFine, LedgerType, ScoresBelong, NEW s \in Sessions,
         AppendAnswer(s)
  PROVE  ScoresBelong'
<1>1. PICK r \in Records, row \in Rows :
        rows' = [rows EXCEPT ![r] = Append(@, row)]
  BY AnswerRow
<1>2. /\ \A q \in Records : q # r => rows'[q] = rows[q]
      /\ DOMAIN rows[r] \subseteq DOMAIN rows'[r]
      /\ \A i \in DOMAIN rows[r] : rows'[r][i] = rows[r][i]
  BY <1>1, RowAppended
<1>3. scores' = scores
  BY DEF AppendAnswer
<1>4. ASSUME NEW q \in Records PROVE Belongs(q)'
  BY <1>2, <1>3, ScoresInParts DEF Belongs
<1> QED
  BY <1>4 DEF ScoresBelong, Belongs

LEMMA ScoreRow ==
  ASSUME RunsAreFine, LedgerType, NEW s \in Sessions, AppendScore(s)
  PROVE  \E r \in Records, score \in Scores :
           /\ r = InHand(s)
           /\ score = [row |-> Len(rows[r]), family |-> pc[s],
                       version |-> VersionOf(s)]
           /\ scores' = [scores EXCEPT ![r] = Append(@, score)]
           /\ status' = [status EXCEPT ![r] = "scored"]
           /\ Computable(r, score.family)
           /\ ~Scored(r, score.family, score.version)
<1> DEFINE r == InHand(s)
<1>1. run[s] \in RunType /\ Fine(run[s], pc[s]) /\ pc[s] \in Families
  BY DEF RunsAreFine, AppendScore
<1>2. r \in Records
  BY <1>1, InHandIsMember DEF Fine, Families
<1>3. VersionOf(s) \in 1 .. MaxVersions
  BY <1>1, BoundsAreNumbers DEF VersionOf, RunType
<1>4. Computable(r, pc[s]) /\ ~Scored(r, pc[s], VersionOf(s))
  BY DEF AppendScore, Missing
<1>5. rows[r] # <<>>
  BY <1>4 DEF Computable, Scorable, Standing
<1>6. Len(rows[r]) \in Nat \ {0}
  BY <1>2, <1>5 DEF LedgerType
<1> HIDE DEF r
<1>7. [row |-> Len(rows[r]), family |-> pc[s], version |-> VersionOf(s)]
        \in Scores
  BY <1>1, <1>3, <1>6 DEF Scores
<1> QED
  BY <1>2, <1>4, <1>7 DEF AppendScore, r

\* The row a score is computed from is the newest, and a resolution.
LEMMA ComputableIsResolved ==
  ASSUME LedgerType, NEW r \in Records, NEW f, Computable(r, f)
  PROVE  LET n == Len(rows[r])
         IN  /\ n \in DOMAIN rows[r]
             /\ KindOf(QuestionOf[r], rows[r][n].shown.answer) = "resolved"
             /\ HasScore(r, rows[r][n].shown, f)
             /\ status[r] \in {"resolved", "scored"}
<1>1. rows[r] \in Seq(Rows) /\ rows[r] # <<>>
  BY DEF LedgerType, Computable, Scorable, Standing
<1> QED
  BY <1>1 DEF Computable, Scorable, Standing, Latest

LEMMA ScoreKeepsStatus ==
  ASSUME RunsAreFine, LedgerType, StatusFollowsRows, NEW s \in Sessions,
         AppendScore(s)
  PROVE  StatusFollowsRows' /\ LedgerType'
<1>1. PICK r \in Records, score \in Scores :
        /\ scores' = [scores EXCEPT ![r] = Append(@, score)]
        /\ status' = [status EXCEPT ![r] = "scored"]
        /\ Computable(r, score.family)
  BY ScoreRow
<1>2. /\ scores' \in [Records -> Seq(Scores)]
      /\ \A q \in Records : q # r => scores'[q] = scores[q]
      /\ scores'[r] # <<>>
  BY <1>1, ScoreAppended
<1>3. rows' = rows
  BY DEF AppendScore
<1>4. LedgerType'
  BY <1>1, <1>2, <1>3 DEF LedgerType
<1>5. ASSUME NEW q \in Records PROVE InStep(q)'
  <2>1. InStep(q) /\ Kinds(q)' = Kinds(q)
    BY <1>3, StatusInSteps DEF Kinds
  <2>2. CASE q # r
    BY <1>1, <1>2, <1>3, <2>1, <2>2 DEF InStep, LedgerType
  <2>3. CASE q = r
    <3>1. status[r] \in {"resolved", "scored"} /\ status'[r] = "scored"
      BY <1>1, ComputableIsResolved DEF LedgerType
    <3> QED
      BY <1>2, <2>1, <2>3, <3>1 DEF InStep
  <2> QED
    BY <2>2, <2>3
<1> QED
  BY <1>4, <1>5 DEF StatusFollowsRows, InStep, Kinds

LEMMA ScoreKeepsScores ==
  ASSUME RunsAreFine, LedgerType, ScoresBelong, NEW s \in Sessions,
         AppendScore(s)
  PROVE  ScoresBelong'
<1>1. PICK r \in Records, score \in Scores :
        /\ score = [row |-> Len(rows[r]), family |-> pc[s],
                    version |-> VersionOf(s)]
        /\ scores' = [scores EXCEPT ![r] = Append(@, score)]
        /\ Computable(r, score.family)
        /\ ~Scored(r, score.family, score.version)
  BY ScoreRow
<1> DEFINE n == Len(scores[r])
<1>2. /\ \A q \in Records : q # r => scores'[q] = scores[q]
      /\ n \in Nat
      /\ DOMAIN scores[r] = 1 .. n
      /\ DOMAIN scores'[r] = 1 .. n + 1
      /\ \A i \in DOMAIN scores[r] : scores'[r][i] = scores[r][i]
      /\ scores'[r][n + 1] = score
  BY <1>1, ScoreAppended
<1>3. rows' = rows
  BY DEF AppendScore
<1>4. /\ score.row \in DOMAIN rows[r]
      /\ KindOf(QuestionOf[r], rows[r][score.row].shown.answer) = "resolved"
      /\ HasScore(r, rows[r][score.row].shown, score.family)
  BY <1>1, ComputableIsResolved
<1>5. \A i \in DOMAIN scores[r] : scores[r][i] # score
  BY <1>1 DEF Scored
<1> HIDE DEF n
<1>6. ASSUME NEW q \in Records PROVE Belongs(q)'
  <2>1. Belongs(q)
    BY ScoresInParts
  <2>2. CASE q # r
    BY <1>2, <1>3, <2>1, <2>2 DEF Belongs
  <2>3. CASE q = r
    <3>1. ASSUME NEW i \in DOMAIN scores'[r]
          PROVE  \/ i \in DOMAIN scores[r] /\ scores'[r][i] = scores[r][i]
                 \/ i = n + 1 /\ scores'[r][i] = score
      BY <1>2
    <3> QED
      BY <1>3, <1>4, <1>5, <2>1, <2>3, <3>1 DEF Belongs
  <2> QED
    BY <2>2, <2>3
<1> QED
  BY <1>6 DEF ScoresBelong, Belongs

LEMMA SubmitKeepsLedger ==
  ASSUME LedgerType, StatusFollowsRows, NEW r \in Records, Submit(r)
  PROVE  StatusFollowsRows' /\ LedgerType'
<1>1. LedgerType'
  BY DEF LedgerType, Submit
<1>2. ASSUME NEW q \in Records PROVE InStep(q)'
  <2>1. InStep(q) /\ Kinds(q)' = Kinds(q)
    BY StatusInSteps DEF Kinds, Submit
  <2>2. CASE q # r
    BY <2>1, <2>2 DEF InStep, Submit, LedgerType
  <2>3. CASE q = r
    <3>1. status[r] = "approved" /\ status'[r] = "submitted"
      BY DEF Submit, LedgerType
    <3> QED
      BY <2>1, <2>3, <3>1 DEF InStep, Submit
  <2> QED
    BY <2>2, <2>3
<1> QED
  BY <1>1, <1>2 DEF StatusFollowsRows, InStep, Kinds

-----------------------------------------------------------------------------
(* The world.                                                              *)

LEMMA BeginsKeepsCommands ==
  ASSUME WorldType, NEW s, Begins(s)
  PROVE  commands' \in 0 .. MaxCommands
BY BoundsAreNumbers DEF WorldType, Begins

LEMMA ChangeKeepsWorld ==
  ASSUME WorldType, NEW q \in Questions, Change(q)
  PROVE  WorldType'
<1>1. PICK a \in Answers :
        platform' = [platform EXCEPT ![q] = [answer |-> a, rev |-> changes + 1]]
  BY DEF Change
<1>2. changes' \in 0 .. MaxChanges /\ changes' = changes + 1
  BY BoundsAreNumbers DEF WorldType, Change
<1>3. [answer |-> a, rev |-> changes + 1] \in Shown
  BY <1>2 DEF Shown
<1>4. platform' \in [Questions -> Shown]
  BY <1>1, <1>3 DEF WorldType
<1> QED
  BY <1>2, <1>4 DEF WorldType, Change, sessions

LEMMA SessionKeepsWorld ==
  ASSUME RunsAreFine, WorldType, NEW s \in Sessions,
         Ingest(s) \/ Score(s) \/ FetchFails(s) \/ Kill(s)
  PROVE  WorldType'
<1>1. CASE BeginIngest(s) \/ BeginScore(s)
  <2>1. commands' \in 0 .. MaxCommands
    BY <1>1, BeginsKeepsCommands DEF BeginIngest, BeginScore
  <2> QED
    BY <1>1, <2>1 DEF BeginIngest, BeginScore, WorldType, world
<1>2. CASE EndIngest(s)
  <2>1. Withheld(s) \subseteq Records
    BY DEF Withheld, RunsAreFine, RunType
  <2> QED
    BY <1>2, <2>1 DEF EndIngest, WorldType, world
<1>3. CASE FetchFails(s) \/ Kill(s)
  <2>1. faults' \in 0 .. MaxFaults
    BY <1>3, BoundsAreNumbers DEF FetchFails, Kill, WorldType
  <2> QED
    BY <1>3, <2>1 DEF FetchFails, Kill, WorldType, world
<1>4. CASE \/ Fetch(s) \/ Stamp(s) \/ RefuseAnswer(s) \/ SkipAnswer(s)
           \/ AppendAnswer(s) \/ TakeRecord(s) \/ Restamp(s) \/ PassOver(s)
           \/ AppendScore(s) \/ EndScore(s)
  BY <1>4 DEF Fetch, Stamp, RefuseAnswer, SkipAnswer, AppendAnswer, TakeRecord,
     Restamp, PassOver, AppendScore, EndScore, WorldType, world
<1> QED
  BY <1>1, <1>2, <1>3, <1>4 DEF Ingest, Score

LEMMA SessionKeepsRuns ==
  ASSUME RunsAreFine, WorldType, NEW s \in Sessions,
         Ingest(s) \/ Score(s) \/ FetchFails(s) \/ Kill(s)
  PROVE  RunsAreFine'
<1>1. CASE BeginIngest(s) \/ Fetch(s) \/ FetchFails(s) \/ Stamp(s)
  BY <1>1, BeginIngestMoves, FetchMoves, FetchFailsMoves, StampMoves
<1>2. CASE RefuseAnswer(s) \/ SkipAnswer(s) \/ AppendAnswer(s)
  BY <1>2, NextMemberMoves DEF RefuseAnswer, SkipAnswer, AppendAnswer
<1>3. CASE EndIngest(s) \/ EndScore(s) \/ Kill(s)
  BY <1>3, EndMoves
<1>4. CASE BeginScore(s) \/ TakeRecord(s) \/ Restamp(s)
  BY <1>4, BeginScoreMoves, StampingMoves
<1>5. CASE PassOver(s) \/ AppendScore(s)
  BY <1>5, NextFamilyMoves DEF PassOver, AppendScore
<1> QED
  BY <1>1, <1>2, <1>3, <1>4, <1>5 DEF Ingest, Score

LEMMA QuietKeepsLedger ==
  ASSUME LedgerType, StatusFollowsRows, HistoryIsChanges, ScoresBelong,
         UNCHANGED ledger
  PROVE  LedgerType' /\ StatusFollowsRows' /\ HistoryIsChanges' /\ ScoresBelong'
<1>1. LedgerType'
  BY DEF ledger, LedgerType
<1>2. StatusFollowsRows'
  BY DEF ledger, StatusFollowsRows
<1>3. HistoryIsChanges'
  BY DEF ledger, HistoryIsChanges
<1>4. ASSUME NEW q \in Records PROVE Belongs(q)'
  BY ScoresInParts DEF ledger, Belongs
<1> QED
  BY <1>1, <1>2, <1>3, <1>4 DEF ScoresBelong, Belongs

LEMMA QuietKeepsRuns ==
  ASSUME RunsAreFine, UNCHANGED <<pc, run>>
  PROVE  RunsAreFine'
BY DEF RunsAreFine, Fine

-----------------------------------------------------------------------------
(* The invariant.                                                          *)

LEMMA InitInductive == Init => Inductive
<1> SUFFICES ASSUME Init PROVE Inductive
  OBVIOUS
<1>1. RunsAreFine
  BY IdleRun DEF Init, RunsAreFine, Steps
<1>2. LedgerType
  BY DEF Init, LedgerType
<1>3. WorldType
  BY BoundsAreNumbers DEF Init, WorldType, Shown
<1>4. StatusFollowsRows /\ HistoryIsChanges /\ ScoresBelong
  BY DEF Init, StatusFollowsRows, HistoryIsChanges, ScoresBelong
<1> QED
  BY <1>1, <1>2, <1>3, <1>4, Parts DEF Inductive

LEMMA SessionKeepsLedger ==
  ASSUME RunsAreFine, LedgerType, StatusFollowsRows, HistoryIsChanges,
         ScoresBelong, NEW s \in Sessions,
         Ingest(s) \/ Score(s) \/ FetchFails(s) \/ Kill(s)
  PROVE  LedgerType' /\ StatusFollowsRows' /\ HistoryIsChanges' /\ ScoresBelong'
<1>1. CASE AppendAnswer(s)
  BY <1>1, AnswerKeepsStatus, AnswerKeepsHistory, AnswerKeepsScores
<1>2. CASE AppendScore(s)
  <2>1. HistoryIsChanges'
    BY <1>2 DEF AppendScore, HistoryIsChanges
  <2> QED
    BY <1>2, <2>1, ScoreKeepsStatus, ScoreKeepsScores
<1>3. CASE UNCHANGED ledger
  BY <1>3, QuietKeepsLedger
<1> QED
  BY <1>1, <1>2, <1>3 DEF Ingest, Score, BeginIngest, Fetch, FetchFails, Stamp,
     RefuseAnswer, SkipAnswer, EndIngest, BeginScore, TakeRecord, Restamp,
     PassOver, EndScore, Kill

LEMMA NextParts ==
  ASSUME RunsAreFine', LedgerType', WorldType', StatusFollowsRows',
         HistoryIsChanges', ScoresBelong'
  PROVE  Inductive'
<1>1. TypeOK'
  BY DEF TypeOK, RunsAreFine, Fine, Steps, LedgerType, WorldType
<1>2. Listing'
  BY DEF Listing, RunsAreFine, Fine
<1> QED
  BY <1>1, <1>2 DEF Inductive

LEMMA StepInductive == Inductive /\ [Next]_vars => Inductive'
<1> SUFFICES ASSUME Inductive, [Next]_vars PROVE Inductive'
  OBVIOUS
<1>1. /\ RunsAreFine /\ LedgerType /\ WorldType
      /\ StatusFollowsRows /\ HistoryIsChanges /\ ScoresBelong
  BY Parts DEF Inductive
<1>2. ASSUME NEW r \in Records, Submit(r) PROVE Inductive'
  <2>1. LedgerType' /\ StatusFollowsRows'
    BY <1>1, <1>2, SubmitKeepsLedger
  <2>2. RunsAreFine'
    BY <1>1, <1>2, QuietKeepsRuns DEF Submit, sessions
  <2>3. WorldType'
    BY <1>1, <1>2 DEF Submit, sessions, world, WorldType
  <2>4. HistoryIsChanges'
    BY <1>1, <1>2 DEF Submit, HistoryIsChanges
  <2>5. ScoresBelong'
    <3>1. ASSUME NEW q \in Records PROVE Belongs(q)'
      BY <1>1, <1>2, ScoresInParts DEF Submit, Belongs
    <3> QED
      BY <3>1 DEF ScoresBelong, Belongs
  <2> QED
    BY <2>1, <2>2, <2>3, <2>4, <2>5, NextParts
<1>3. ASSUME UNCHANGED <<ledger, pc, run>>, WorldType' PROVE Inductive'
  BY <1>1, <1>3, QuietKeepsLedger, QuietKeepsRuns, NextParts
<1>4. ASSUME NEW q \in Questions, Change(q) PROVE Inductive'
  <2>1. WorldType'
    BY <1>1, <1>4, ChangeKeepsWorld
  <2> QED
    BY <1>3, <1>4, <2>1 DEF Change, sessions
<1>5. CASE Tick
  <2>1. WorldType'
    BY <1>1, <1>5, BoundsAreNumbers DEF Tick, sessions, WorldType
  <2> QED
    BY <1>3, <1>5, <2>1 DEF Tick, sessions
<1>6. CASE Deploy
  <2>1. WorldType'
    BY <1>1, <1>6, BoundsAreNumbers DEF Deploy, sessions, WorldType
  <2> QED
    BY <1>3, <1>6, <2>1 DEF Deploy, sessions
<1>7. ASSUME NEW s \in Sessions,
             Ingest(s) \/ Score(s) \/ FetchFails(s) \/ Kill(s)
      PROVE  Inductive'
  BY <1>1, <1>7, SessionKeepsLedger, SessionKeepsRuns, SessionKeepsWorld,
     NextParts
<1>8. CASE UNCHANGED vars
  <2>1. WorldType'
    BY <1>1, <1>8 DEF vars, sessions, world, WorldType
  <2> QED
    BY <1>3, <1>8, <2>1 DEF vars, sessions
<1> QED
  BY <1>2, <1>4, <1>5, <1>6, <1>7, <1>8 DEF Next

-----------------------------------------------------------------------------
(* The properties.                                                         *)

\* However runs overlap and die, the invariant holds (lifecycle.py:1800-2170).
THEOREM InductiveHolds == Spec => []Inductive
BY InitInductive, StepInductive, PTL DEF Spec

\* Every variable keeps its type, every run something to do at its step.
THEOREM TypeHolds == Spec => []TypeOK
<1>1. Inductive => TypeOK
  BY DEF Inductive
<1> QED
  BY <1>1, InductiveHolds, PTL

\* A record's status says what its rows say: it has left submitted when some
\* observation was definitive, and is scored when it has a score.
THEOREM StatusFollowsRowsHolds == Spec => []StatusFollowsRows
<1>1. Inductive => StatusFollowsRows
  BY DEF Inductive
<1> QED
  BY <1>1, InductiveHolds, PTL

\* Each observation appended differs from the one before it and is not
\* stamped earlier; the first says something.
THEOREM HistoryIsChangesHolds == Spec => []HistoryIsChanges
<1>1. Inductive => HistoryIsChanges
  BY DEF Inductive
<1> QED
  BY <1>1, InductiveHolds, PTL

\* Every score is of a resolution of its record, and none is written twice.
THEOREM ScoresBelongHolds == Spec => []ScoresBelong
<1>1. Inductive => ScoresBelong
  BY DEF Inductive
<1> QED
  BY <1>1, InductiveHolds, PTL

\* A score is written against the newest observation, and only while that is
\* a resolution.
THEOREM NothingStaleIsScoredHolds == Spec => NothingStaleIsScored
<1> DEFINE Newest == \A r \in Records :
                       scores'[r] # scores[r] =>
                         /\ Standing(r) = "resolved"
                         /\ scores'[r][Len(scores'[r])].row = Len(rows'[r])
<1>1. Inductive /\ [Next]_vars => [Newest]_vars
  <2> SUFFICES ASSUME Inductive, Next PROVE Newest
    BY DEF vars
  <2>1. RunsAreFine /\ LedgerType
    BY Parts DEF Inductive
  <2>2. ASSUME NEW s \in Sessions, AppendScore(s) PROVE Newest
    <3>1. PICK r \in Records, score \in Scores :
            /\ score = [row |-> Len(rows[r]), family |-> pc[s],
                        version |-> VersionOf(s)]
            /\ scores' = [scores EXCEPT ![r] = Append(@, score)]
            /\ Computable(r, score.family)
      BY <2>1, <2>2, ScoreRow
    <3>2. /\ \A q \in Records : q # r => scores'[q] = scores[q]
          /\ scores'[r][Len(scores[r]) + 1] = score
          /\ Len(scores'[r]) = Len(scores[r]) + 1
      BY <2>1, <3>1, ScoreAppended
    <3>3. Standing(r) = "resolved" /\ rows' = rows
      BY <2>2, <3>1 DEF Computable, Scorable, AppendScore
    <3> QED
      BY <3>1, <3>2, <3>3
  <2>3. CASE scores' = scores
    BY <2>3
  <2> QED
    BY <2>2, <2>3 DEF Next, Submit, Change, Tick, Deploy, ledger, Ingest, Score,
       BeginIngest, Fetch, FetchFails, Stamp, RefuseAnswer, SkipAnswer,
       AppendAnswer, EndIngest, BeginScore, TakeRecord, Restamp, PassOver,
       EndScore, Kill
<1> QED
  BY <1>1, InductiveHolds, PTL DEF Spec, NothingStaleIsScored

-----------------------------------------------------------------------------
(* The runs implement Scoreboard.                                          *)

LEMMA QuietBoard ==
  ASSUME UNCHANGED ledger
  PROVE  UNCHANGED B!vars
<1>1. status' = status /\ rows' = rows /\ scores' = scores
  BY DEF ledger
<1>2. posted' = posted
  BY <1>1 DEF posted
<1>3. newest' = newest
  BY <1>1 DEF newest, Latest
<1>4. count' = count
  BY <1>1 DEF count
<1>5. settled' = settled
  BY <1>1 DEF settled, Kinds
<1>6. marks' = marks
  BY <1>1 DEF marks
<1> QED
  BY <1>2, <1>3, <1>4, <1>5, <1>6 DEF B!vars

LEMMA SubmitPosts ==
  ASSUME LedgerType, NEW r \in Records, Submit(r)
  PROVE  B!Post(r)
<1>1. rows' = rows /\ scores' = scores
  BY DEF Submit
<1>2. r \notin posted /\ posted' = posted \cup {r}
  BY DEF Submit, LedgerType, posted
<1>3. newest' = newest /\ count' = count
  BY <1>1 DEF newest, Latest, count
<1>4. settled' = settled /\ marks' = marks
  BY <1>1 DEF settled, Kinds, marks
<1> QED
  BY <1>2, <1>3, <1>4 DEF B!Post

\* An observation not refused and not a repetition is news.
LEMMA AppendedIsNews ==
  ASSUME LedgerType, NEW r \in Records, NEW row \in Rows,
         ~Refuses(r, row.shown.answer, row.observed),
         ~NothingNew(r, row.shown.answer)
  PROVE  B!News(r, Observation(r, row))
<1>1. rows[r] \in Seq(Rows) /\ count[r] = Len(rows[r])
  BY DEF LedgerType, count
<1>2. CASE rows[r] = <<>>
  <2>1. count[r] = 0
    BY <1>1, <1>2
  <2>2. Observation(r, row).kind # "unresolved"
    BY <1>2 DEF NothingNew, Observation
  <2> QED
    BY <2>1, <2>2 DEF B!News
<1>3. CASE rows[r] # <<>>
  <2>1. count[r] # 0 /\ Latest(r) \in Rows
    BY <1>1, <1>3 DEF Latest
  <2>2. newest[r] = Observation(r, Latest(r))
    BY <1>3 DEF newest
  <2>3. Digest(Latest(r).shown.answer) # Digest(row.shown.answer)
    BY <1>3 DEF NothingNew
  <2>4. Latest(r).observed =< row.observed
    <3>1. Latest(r).observed \in Int /\ row.observed \in Int
      BY <2>1, BoundsAreNumbers DEF Rows
    <3> QED
      BY <1>3, <3>1 DEF Refuses
  <2>5. /\ Observation(r, row).says # newest[r].says
        /\ newest[r].at =< Observation(r, row).at
    BY <2>2, <2>3, <2>4 DEF Observation
  <2> QED
    BY <2>1, <2>5 DEF B!News
<1> QED
  BY <1>2, <1>3

LEMMA AnswerObserves ==
  ASSUME RunsAreFine, LedgerType, NEW s \in Sessions, AppendAnswer(s)
  PROVE  \E r \in Records : B!Observe(r)
<1>1. PICK r \in Records, row \in Rows :
        /\ r = InHand(s)
        /\ row = [shown |-> Seen(s), observed |-> run[s].stamp]
        /\ rows' = [rows EXCEPT ![r] = Append(@, row)]
  BY AnswerRow
<1>2. /\ rows' \in [Records -> Seq(Rows)]
      /\ \A q \in Records : q # r => rows'[q] = rows[q]
      /\ Len(rows'[r]) = Len(rows[r]) + 1
      /\ rows'[r][Len(rows[r]) + 1] = row
      /\ rows'[r] # <<>>
  BY <1>1, RowAppended
<1>3. row.shown = Seen(s) /\ row.observed = run[s].stamp
  BY <1>1
<1>4. /\ ~Refuses(r, row.shown.answer, row.observed)
      /\ ~NothingNew(r, row.shown.answer)
      /\ scores' = scores
      /\ \A q \in Records : q # r => status'[q] = status[q]
      /\ status[r] # "approved" /\ status'[r] # "approved"
  BY <1>1, <1>3 DEF AppendAnswer, Refuses, Posted, LedgerType
<1> DEFINE o == Observation(r, row)
<1>5. o \in Observable
  BY DEF Observable
<1>6. B!News(r, o)
  BY <1>4, AppendedIsNews
<1>7. o.kind # "refused"
  BY <1>4 DEF Refuses, Observation
<1>8. newest' = [newest EXCEPT ![r] = o]
  <2>1. Latest(r)' = row
    BY <1>2 DEF Latest
  <2>2. ASSUME NEW q \in Records, q # r
        PROVE  /\ (rows[q] = <<>>)' <=> rows[q] = <<>>
               /\ Observation(q, Latest(q))' = Observation(q, Latest(q))
    BY <1>2, <2>2 DEF Latest, Observation
  <2>3. Observation(r, Latest(r))' = o
    BY <2>1 DEF Observation
  <2> HIDE DEF o
  <2>4. newest'[r] = o
    BY <1>2, <2>3 DEF newest
  <2>5. ASSUME NEW q \in Records, q # r PROVE newest'[q] = newest[q]
    BY <2>2, <2>5 DEF newest
  <2> QED
    BY <2>4, <2>5 DEF newest
<1>9. settled' = IF o.kind \in Definitive THEN settled \cup {r} ELSE settled
  <2>1. o.kind = KindOf(QuestionOf[r], row.shown.answer)
    BY DEF Observation
  <2>2. /\ Kinds(r)' = Kinds(r) \cup {o.kind}
        /\ \A q \in Records : q # r => Kinds(q)' = Kinds(q)
    BY <1>1, <2>1, KindAdded
  <2> HIDE DEF o
  <2>3. ASSUME NEW q \in Records, q # r PROVE q \in settled' <=> q \in settled
    BY <2>2, <2>3 DEF settled
  <2>4. r \in settled' <=> r \in settled \/ o.kind \in Definitive
    BY <2>2 DEF settled
  <2>5. settled \subseteq Records /\ settled' \subseteq Records
    BY DEF settled
  <2> QED
    BY <2>3, <2>4, <2>5
<1>10. count' = [count EXCEPT ![r] = @ + 1]
  BY <1>2 DEF count
<1>11. r \in posted /\ posted' = posted
  BY <1>4 DEF posted
<1>12. marks' = marks
  BY <1>4 DEF marks
<1> HIDE DEF o
<1>13. \E w \in Observable :
          /\ w.kind # "refused"
          /\ B!News(r, w)
          /\ newest' = [newest EXCEPT ![r] = w]
          /\ settled' = IF w.kind \in Definitive THEN settled \cup {r}
                                                 ELSE settled
  BY <1>5, <1>6, <1>7, <1>8, <1>9, Zenon
<1>14. B!Observe(r)
  BY <1>10, <1>11, <1>12, <1>13, Zenon DEF B!Observe
<1> QED
  BY <1>14

LEMMA ScoreMarks ==
  ASSUME RunsAreFine, LedgerType, NEW s \in Sessions, AppendScore(s)
  PROVE  \E r \in Records : B!Mark(r)
<1>1. PICK r \in Records, score \in Scores :
        /\ score = [row |-> Len(rows[r]), family |-> pc[s],
                    version |-> VersionOf(s)]
        /\ scores' = [scores EXCEPT ![r] = Append(@, score)]
        /\ status' = [status EXCEPT ![r] = "scored"]
        /\ Computable(r, score.family)
        /\ ~Scored(r, score.family, score.version)
  BY ScoreRow
<1> DEFINE f == score.family
           v == score.version
           n == Len(scores[r])
<1>2. /\ \A q \in Records : q # r => scores'[q] = scores[q]
      /\ DOMAIN scores[r] = 1 .. n
      /\ DOMAIN scores'[r] = 1 .. n + 1
      /\ n \in Nat
      /\ \A i \in DOMAIN scores[r] : scores'[r][i] = scores[r][i]
      /\ scores'[r][n + 1] = score
  BY <1>1, ScoreAppended
<1>3. rows' = rows
  BY DEF AppendScore
<1>4. f \in Families /\ v \in 1 .. MaxVersions
  BY DEF Scores
<1>5. /\ rows[r] \in Seq(Rows) /\ rows[r] # <<>>
      /\ KindOf(QuestionOf[r], Latest(r).shown.answer) = "resolved"
      /\ HasScore(r, Latest(r).shown, f)
      /\ status[r] \in {"resolved", "scored"}
  BY <1>1 DEF Computable, Scorable, Standing, LedgerType
<1>6. count[r] = Len(rows[r]) /\ count[r] # 0
  BY <1>5 DEF count
<1>7. newest[r].kind = "resolved" /\ f \in newest[r].supports
  <2>1. newest[r] = Observation(r, Latest(r))
    BY <1>5 DEF newest
  <2> QED
    BY <1>4, <1>5, <2>1 DEF Observation
<1>8. score = [row |-> count[r], family |-> f, version |-> v]
  BY <1>1, <1>6
<1>9. score \notin marks[r]
  BY <1>1, <1>6, <1>8 DEF Scored, marks
<1>10. marks' = [marks EXCEPT ![r] = @ \cup {score}]
  <2>1. ASSUME NEW m PROVE m \in marks'[r] <=> m \in marks[r] \cup {score}
    <3>1. m \in marks'[r] <=> \E i \in DOMAIN scores'[r] : m = scores'[r][i]
      BY DEF marks
    <3>2. m \in marks[r] <=> \E i \in DOMAIN scores[r] : m = scores[r][i]
      BY DEF marks
    <3>3. ASSUME NEW i \in DOMAIN scores'[r]
          PROVE  i \in DOMAIN scores[r] \/ scores'[r][i] = score
      BY <1>2
    <3>4. /\ DOMAIN scores[r] \subseteq DOMAIN scores'[r]
          /\ n + 1 \in DOMAIN scores'[r]
      BY <1>2
    <3> QED
      BY <1>2, <3>1, <3>2, <3>3, <3>4, Zenon
  <2>2. marks'[r] = marks[r] \cup {score}
    BY <2>1
  <2>3. ASSUME NEW q \in Records, q # r PROVE marks'[q] = marks[q]
    BY <1>2, <2>3 DEF marks
  <2> QED
    BY <2>2, <2>3 DEF marks
<1>11. posted' = posted
  BY <1>1, <1>5 DEF posted, LedgerType
<1>12. newest' = newest /\ count' = count /\ settled' = settled
  BY <1>3 DEF newest, Latest, count, settled, Kinds
<1> HIDE DEF f, v
<1> QED
  BY <1>4, <1>6, <1>7, <1>8, <1>9, <1>10, <1>11, <1>12 DEF B!Mark

\* The status is the word for what the rows say.
LEMMA StatusIsLabel ==
  ASSUME LedgerType, StatusFollowsRows, NEW r \in Records
  PROVE  status[r] = B!Label(r)
<1>1. InStep(r) /\ status[r] \in {"approved", "submitted", "resolved", "scored"}
  BY StatusInSteps DEF LedgerType
<1>2. r \in posted <=> status[r] # "approved"
  BY DEF posted
<1>3. r \in settled <=> status[r] \in {"resolved", "scored"}
  BY <1>1 DEF InStep, settled
<1>4. marks[r] = {} <=> scores[r] = <<>>
  <2>1. scores[r] \in Seq(Scores)
    BY DEF LedgerType
  <2>2. marks[r] = {scores[r][i] : i \in DOMAIN scores[r]}
    BY DEF marks
  <2>3. DOMAIN scores[r] = {} <=> scores[r] = <<>>
    <3>1. DOMAIN scores[r] = 1 .. Len(scores[r]) /\ Len(scores[r]) \in Nat
      BY <2>1
    <3>2. Len(scores[r]) = 0 <=> scores[r] = <<>>
      BY <2>1
    <3>3. 1 .. Len(scores[r]) = {} <=> Len(scores[r]) = 0
      <4>1. Len(scores[r]) # 0 => 1 \in 1 .. Len(scores[r])
        BY <3>1
      <4> QED
        BY <3>1, <4>1
    <3> QED
      BY <3>1, <3>2, <3>3
  <2> QED
    BY <2>2, <2>3, Zenon
<1>5. marks[r] # {} <=> status[r] = "scored"
  BY <1>1, <1>4 DEF InStep
<1> QED
  BY <1>1, <1>2, <1>3, <1>5 DEF B!Label

LEMMA NextOnBoard ==
  ASSUME Inductive, [Next]_vars
  PROVE  [B!Next]_(B!vars)
<1>1. RunsAreFine /\ LedgerType
  BY Parts DEF Inductive
<1>2. ASSUME NEW r \in Records, Submit(r) PROVE B!Next
  BY <1>1, <1>2, SubmitPosts DEF B!Next
<1>3. ASSUME NEW s \in Sessions, AppendAnswer(s) PROVE B!Next
  BY <1>1, <1>3, AnswerObserves DEF B!Next
<1>4. ASSUME NEW s \in Sessions, AppendScore(s) PROVE B!Next
  BY <1>1, <1>4, ScoreMarks DEF B!Next
<1>5. ASSUME UNCHANGED ledger PROVE UNCHANGED B!vars
  BY <1>5, QuietBoard
<1>6. ASSUME NEW s \in Sessions,
             Ingest(s) \/ Score(s) \/ FetchFails(s) \/ Kill(s)
      PROVE  AppendAnswer(s) \/ AppendScore(s) \/ UNCHANGED ledger
  BY <1>6 DEF Ingest, Score, BeginIngest, Fetch, FetchFails, Stamp,
     RefuseAnswer, SkipAnswer, EndIngest, BeginScore, TakeRecord, Restamp,
     PassOver, EndScore, Kill
<1>7. ASSUME NEW q \in Questions, Change(q) PROVE UNCHANGED ledger
  BY <1>7 DEF Change
<1>8. CASE Tick \/ Deploy \/ UNCHANGED vars
  BY <1>5, <1>8 DEF Tick, Deploy, vars
<1> QED
  BY <1>2, <1>3, <1>4, <1>5, <1>6, <1>7, <1>8 DEF Next

\* Whatever runs overlap and die, each of their transactions is one step of
\* Scoreboard or changes nothing it can see, and the status of every record is
\* its label (lifecycle.py:1781-1902, 1936-2038).
THEOREM ImplementsScoreboardHolds == Spec => ImplementsScoreboard
<1> DEFINE Labelled == \A r \in Records : status[r] = B!Label(r)
<1>1. Init => B!Init
  <2> SUFFICES ASSUME Init PROVE B!Init
    OBVIOUS
  <2>1. \A r \in Records : rows[r] = <<>> /\ scores[r] = <<>>
    BY DEF Init
  <2>2. posted \in SUBSET Records
    BY DEF posted
  <2>3. newest = [r \in Records |-> Null] /\ count = [r \in Records |-> 0]
    BY <2>1 DEF newest, count
  <2>4. settled = {}
    BY <2>1 DEF settled, Kinds
  <2>5. marks = [r \in Records |-> {}]
    BY <2>1 DEF marks
  <2> QED
    BY <2>2, <2>3, <2>4, <2>5 DEF B!Init
<1>2. Inductive /\ [Next]_vars => [B!Next]_(B!vars)
  BY NextOnBoard
<1>3. Inductive => Labelled
  BY Parts, StatusIsLabel DEF Inductive
<1> QED
  BY <1>1, <1>2, <1>3, InductiveHolds, PTL
  DEF Spec, ImplementsScoreboard, B!Spec
=============================================================================
