-------------------------- MODULE SubmissionProofs --------------------------
(***************************************************************************)
(* Inductive holds at every step of Submission, and what follows from it.  *)
(***************************************************************************)
EXTENDS SubmissionRefinement, SubmissionInvariant, TLAPS

-----------------------------------------------------------------------------
(* The initial state.                                                      *)

LEMMA InitInductive == Init => Inductive
<1> SUFFICES ASSUME Init PROVE Inductive
  OBVIOUS
<1>1. 0 \in Numbers
  BY BoundKnown DEF Numbers
<1>2. TypeOK
  <2>1. active \in BOOLEAN /\ torn \in BOOLEAN
    BY Zenon DEF Init
  <2>2. /\ status \in [Records -> Statuses]
        /\ seq \in [Records -> Numbers]
        /\ attempt \in [Records -> AttemptEvents \cup {"none"}]
    BY <1>1 DEF Init, Statuses
  <2>3. /\ pc \in [Procs -> Steps]
        /\ rec \in [Procs -> Records \cup {None}]
        /\ res \in [Procs -> Numbers]
        /\ obs \in [Procs -> AttemptEvents \cup VerificationEvents \cup {"none"}]
    BY <1>1 DEF Init, Steps
  <2> QED
    BY <2>1, <2>2, <2>3 DEF TypeOK, Init
<1>3. LocalKnowledge /\ OneHolder
  BY DEF Init, LocalKnowledge, Knows, OneHolder, Claiming, Sending
<1>4. Keys
  BY DEF Init, Keys, Held, Numbers
<1>5. Posts
  BY NamesDistinct DEF Init, Posts
<1>6. Verdicts
  BY DEF Init, Verdicts
<1> QED
  BY <1>2, <1>3, <1>4, <1>5, <1>6 DEF Inductive

-----------------------------------------------------------------------------
(* Frame lemmas: what a step leaves alone.                                 *)

\* A process that does not move keeps what it knows, as long as verdicts and
\* traces only grow and its own reservation is left alone.
LEMMA OthersKnow ==
  ASSUME NEW q \in Procs, TypeOK, Knows(q),
         pc'[q] = pc[q], rec'[q] = rec[q], res'[q] = res[q], obs'[q] = obs[q],
         \A r \in Records : status[r] # "validated" => status'[r] # "validated",
         intent \subseteq intent', posted \subseteq posted', landed \subseteq landed',
         pc[q] \in Claiming =>
             /\ seq'[rec[q]] = seq[rec[q]]
             /\ <<rec[q], res[q]>> \in released' => <<rec[q], res[q]>> \in released,
         pc[q] \in Claiming \ Sending =>
             /\ <<rec[q], res[q]>> \in posted' => <<rec[q], res[q]>> \in posted
             /\ attempt'[rec[q]] = attempt[rec[q]]
             /\ rec[q] \in reconciled' => rec[q] \in reconciled
  PROVE  Knows(q)'
<1>1. pc[q] # "idle" => rec[q] \in Records
  BY DEF Knows
<1>2. Stored(rec[q]) => Stored(rec[q])'
  BY DEF Stored
<1>3. pc[q] \in Claiming => pc[q] # "idle"
  BY DEF Claiming
<1>4. pc[q] \in Claiming /\ Held(rec[q]) /\ res[q] = seq[rec[q]] => Held(rec[q])'
  BY DEF Held
<1> QED
  BY <1>1, <1>2, <1>3, <1>4 DEF Knows

\* A step of one process that writes nothing but its own locals and traces.
LEMMA LocalStep ==
  ASSUME NEW p \in Procs, Inductive, UNCHANGED <<ledger, platform>>, TypeOK',
         intent \subseteq intent',
         \A q \in Procs \ {p} :
             pc'[q] = pc[q] /\ rec'[q] = rec[q] /\ res'[q] = res[q] /\ obs'[q] = obs[q],
         pc'[p] \in Claiming => pc[p] \in Claiming,
         Knows(p)'
  PROVE  Inductive'
<1> USE DEF Inductive, ledger, platform
<1>1. LocalKnowledge'
  <2> SUFFICES ASSUME NEW q \in Procs \ {p} PROVE Knows(q)'
    BY DEF LocalKnowledge
  <2>1. Knows(q)
    BY DEF LocalKnowledge
  <2> QED
    BY <2>1, OthersKnow
<1>2. OneHolder'
  BY DEF OneHolder
<1>3. Keys'
  BY DEF Keys, Held
<1>4. Posts'
  BY DEF Posts, Stored
<1>5. Verdicts'
  BY DEF Verdicts, Stored, Sent
<1> QED
  BY <1>1, <1>2, <1>3, <1>4, <1>5

-----------------------------------------------------------------------------
(* Steps of one process that leave the ledger and the platform alone.      *)

\* One step along the program text.
LEMMA WalkStep ==
  ASSUME NEW p \in Procs, Inductive,
         \/ Policy(p) \/ Derive(p) \/ Baseline(p) \/ BeforePost(p)
         \/ WitnessRow(p) \/ WitnessFiles(p) \/ WriteIntent(p) \/ FailBeforePost(p)
  PROVE  Inductive'
<1> DEFINE Moves == UNCHANGED <<ledger, platform, rec, res, obs>>
<1>1. TypeOK /\ Knows(p)
  BY DEF Inductive, LocalKnowledge
<1>2. CASE Policy(p)
  <2>1. Moves /\ UNCHANGED journal /\ pc[p] = "policy" /\ pc' = [pc EXCEPT ![p] = "derive"]
    BY <1>2 DEF Policy, Goto
  <2>2. TypeOK'
    BY <1>1, <2>1 DEF TypeOK, Steps, ledger, journal, platform
  <2>3. Knows(p)'
    BY <1>1, <2>1 DEF TypeOK, Knows, Claiming, Sending, ledger, platform
  <2> QED
    BY <1>1, <2>1, <2>2, <2>3, LocalStep DEF TypeOK, Claiming, journal
<1>3. CASE Derive(p)
  <2>1. Moves /\ UNCHANGED journal /\ pc[p] = "derive" /\ pc' = [pc EXCEPT ![p] = "reserve"]
        /\ status[rec[p]] = "approved"
    BY <1>3 DEF Derive, Goto
  <2>2. TypeOK'
    BY <1>1, <2>1 DEF TypeOK, Steps, ledger, journal, platform
  <2>3. Knows(p)'
    BY <1>1, <2>1 DEF TypeOK, Knows, Claiming, Sending, ledger, platform
  <2> QED
    BY <1>1, <2>1, <2>2, <2>3, LocalStep DEF TypeOK, Claiming, journal
<1>4. CASE \/ Baseline(p) \/ BeforePost(p) \/ WitnessRow(p) \/ WitnessFiles(p)
  <2>1. Moves /\ UNCHANGED journal
    BY <1>4 DEF Baseline, BeforePost, WitnessRow, WitnessFiles
  <2>2. PICK to \in {"before", "row", "ops", "guard", "intent"} :
          pc[p] \in Claiming \ Sending /\ pc' = [pc EXCEPT ![p] = to]
    BY <1>4 DEF Baseline, BeforePost, WitnessRow, WitnessFiles, Goto, Claiming, Sending
  <2>3. TypeOK'
    BY <1>1, <2>1, <2>2 DEF TypeOK, Steps, Claiming, ledger, journal, platform
  <2>4. Knows(p)'
    BY <1>1, <2>1, <2>2 DEF TypeOK, Knows, Held, Claiming, Sending, ledger, platform
  <2> QED
    BY <1>1, <2>1, <2>2, <2>3, <2>4, LocalStep DEF TypeOK, Claiming, journal
<1>5. CASE WriteIntent(p)
  <2>1. Moves /\ pc[p] = "intent" /\ pc' = [pc EXCEPT ![p] = "post"]
        /\ intent' = intent \cup {rec[p]} /\ UNCHANGED <<confirmed, active, torn>>
    BY <1>5 DEF WriteIntent, Goto, ledger, platform
  <2>2. TypeOK'
    BY <1>1, <2>1 DEF TypeOK, Knows, Steps, Claiming, ledger, platform
  <2>3. Knows(p)'
    BY <1>1, <2>1 DEF TypeOK, Knows, Held, Claiming, Sending, ledger, platform
  <2> QED
    BY <1>1, <2>1, <2>2, <2>3, LocalStep DEF TypeOK, Claiming
<1>6. CASE FailBeforePost(p)
  <2>1. Moves /\ UNCHANGED <<intent, confirmed, active>>
        /\ pc[p] \in Claiming \ Sending /\ pc' = [pc EXCEPT ![p] = "release"]
    BY <1>6 DEF FailBeforePost, Goto, Claiming, Sending, ledger, platform
  <2>2. torn' \in BOOLEAN
    BY <1>6 DEF FailBeforePost
  <2>3. TypeOK'
    BY <1>1, <2>1, <2>2 DEF TypeOK, Steps, Claiming, ledger, platform
  <2>4. Knows(p)'
    BY <1>1, <2>1 DEF TypeOK, Knows, Held, Claiming, Sending, ledger, platform
  <2> QED
    BY <1>1, <2>1, <2>3, <2>4, LocalStep DEF TypeOK, Claiming
<1> QED
  BY <1>2, <1>3, <1>4, <1>5, <1>6

\* A command ends without a write.
LEMMA EndStep ==
  ASSUME NEW p \in Procs, Inductive, Refuse(p) \/ ReceiptRefused(p) \/ Crash(p)
  PROVE  Inductive'
<1>1. TypeOK
  BY DEF Inductive
<1>2. /\ UNCHANGED <<ledger, platform, intent, confirmed, active>>
      /\ End(p)
  BY DEF Refuse, ReceiptRefused, Crash, journal
<1>3. torn' \in BOOLEAN
  BY <1>1 DEF Refuse, ReceiptRefused, Crash, journal, TypeOK
<1>4. TypeOK'
  BY <1>1, <1>2, <1>3, BoundKnown DEF TypeOK, End, Steps, Numbers, ledger, platform
<1>5. pc'[p] = "idle"
  BY <1>1, <1>2 DEF TypeOK, End
<1>6. Knows(p)'
  BY <1>5 DEF Knows, Claiming, Sending
<1> QED
  BY <1>1, <1>2, <1>4, <1>5, <1>6, LocalStep DEF TypeOK, End, Claiming

\* A command begins.
LEMMA BeginStep ==
  ASSUME NEW p \in Procs, NEW r \in Records, Inductive,
         BeginPost(p, r) \/ BeginVerify(p, r) \/ BeginReconcile(p, r)
  PROVE  Inductive'
<1>1. TypeOK /\ Posts
  BY DEF Inductive
<1>2. UNCHANGED <<ledger, platform, journal>> /\ rec' = [rec EXCEPT ![p] = r]
  BY DEF BeginPost, BeginVerify, BeginReconcile
<1>3. Classify(r) = "confirmed" => Stored(r)
  BY <1>1, NamesDistinct DEF Classify, Posts
<1>4. PICK step \in {"policy", "verify", "reconcile"} : pc' = [pc EXCEPT ![p] = step]
  BY DEF BeginPost, BeginVerify, BeginReconcile, Goto
<1>5. /\ res' \in [Procs -> Numbers]
      /\ obs' \in [Procs -> AttemptEvents \cup VerificationEvents \cup {"none"}]
      /\ \A q \in Procs \ {p} : res'[q] = res[q] /\ obs'[q] = obs[q]
  BY <1>1 DEF BeginPost, BeginVerify, BeginReconcile, TypeOK, VerificationEvents
<1>6. TypeOK'
  BY <1>1, <1>2, <1>4, <1>5 DEF TypeOK, Steps, ledger, platform, journal
<1>7. Knows(p)'
  BY <1>1, <1>2, <1>3, <1>4
     DEF BeginPost, BeginVerify, BeginReconcile, Goto, TypeOK, Knows, Stored, Claiming,
         Sending, VerificationEvents, platform
<1> QED
  BY <1>1, <1>2, <1>4, <1>5, <1>6, <1>7, LocalStep DEF TypeOK, Claiming, journal

-----------------------------------------------------------------------------
(* Steps that write the ledger.                                            *)

LEMMA ApproveStep ==
  ASSUME NEW r \in Records, Inductive, Approve(r)
  PROVE  Inductive'
<1> USE DEF Inductive, Approve, ledger, journal, platform, locals
<1>1. TypeOK'
  BY DEF TypeOK, Statuses
<1>2. \A q \in Records : status[q] # "validated" => status'[q] = status[q]
  BY DEF TypeOK
<1>3. LocalKnowledge'
  <2> SUFFICES ASSUME NEW q \in Procs PROVE Knows(q)'
    BY DEF LocalKnowledge
  <2>1. Knows(q) /\ TypeOK
    BY DEF LocalKnowledge
  <2>2. \A x \in Records : status[x] # "validated" => status'[x] # "validated"
    BY <1>2
  <2> QED
    BY <2>1, <2>2, OthersKnow
<1>4. OneHolder' /\ Keys'
  BY DEF OneHolder, Keys, Held
<1>5. Posts'
  BY <1>2 DEF Posts, Stored
<1>6. Verdicts'
  BY <1>2 DEF Verdicts, Stored, Sent, Posts, TypeOK
<1> QED
  BY <1>1, <1>3, <1>4, <1>5, <1>6

LEMMA ReserveStep ==
  ASSUME NEW p \in Procs, Inductive, Reserve(p)
  PROVE  Inductive'
<1> DEFINE r == rec[p]
           n == seq[r] + 1
<1>1. TypeOK /\ Knows(p) /\ OneHolder /\ Keys /\ Posts /\ Verdicts
  BY DEF Inductive, LocalKnowledge
<1>2. /\ pc[p] = "reserve" /\ pc' = [pc EXCEPT ![p] = "baseline"]
      /\ seq' = [seq EXCEPT ![r] = n] /\ res' = [res EXCEPT ![p] = n]
      /\ seq[r] < MaxReservations
      /\ UNCHANGED <<status, released, attempt, reconciled, journal, platform, rec, obs>>
  BY DEF Reserve, Goto
<1>3. r \in Records /\ n \in Numbers /\ seq[r] \in Numbers /\ n # 0
  BY <1>1, <1>2, BoundKnown DEF Knows, TypeOK, Numbers
<1>4. TypeOK'
  BY <1>1, <1>2, <1>3 DEF TypeOK, Steps, Claiming, journal, platform
<1>5. \A q \in Records : ~Held(q)
  <2>1. ~Held(r)
    BY <1>1, <1>3 DEF Reserve, KeyFree, Unreleased, Reservations, Held, Numbers, TypeOK
  <2>2. ASSUME NEW q \in Records \ {r} PROVE ~Held(q)
    <3>1. Unreleased(q) = {} /\ seq[q] \in Numbers
      BY <1>1, <1>3 DEF Reserve, QuestionFree, TypeOK
    <3> QED
      BY <3>1, BoundKnown DEF Unreleased, Reservations, Held, Numbers
  <2> QED
    BY <2>1, <2>2
<1>6. <<r, n>> \notin released /\ <<r, n>> \notin posted
  BY <1>1, <1>3 DEF Keys, Posts, Numbers
<1>7. Held(r)' /\ \A q \in Records \ {r} : Held(q)' <=> Held(q)
  BY <1>1, <1>2, <1>3, <1>6 DEF Held, TypeOK
<1>8. \A q \in Procs : pc[q] \notin Claiming
  <2> SUFFICES ASSUME NEW q \in Procs, pc[q] \in Claiming PROVE FALSE
    OBVIOUS
  <2>1. Knows(q)
    BY DEF Inductive, LocalKnowledge
  <2> QED
    BY <1>5, <2>1 DEF Knows, Claiming
<1>9. \A q \in Records : attempt[q] = "none" /\ q \notin reconciled
  BY <1>1, <1>5 DEF Keys
<1>10. LocalKnowledge'
  <2>1. Knows(p)'
    BY <1>1, <1>2, <1>3, <1>6, <1>7, <1>9
       DEF Knows, TypeOK, Claiming, Sending, journal, platform
  <2>2. ASSUME NEW q \in Procs \ {p} PROVE Knows(q)'
    <3>1. Knows(q) /\ pc'[q] = pc[q] /\ res'[q] = res[q]
      BY <1>1, <1>2 DEF Inductive, LocalKnowledge, TypeOK
    <3> QED
      BY <1>1, <1>2, <1>8, <3>1, OthersKnow DEF journal, platform
  <2> QED
    BY <2>1, <2>2 DEF LocalKnowledge
<1>11. OneHolder'
  BY <1>1, <1>2, <1>8 DEF OneHolder, TypeOK
<1>12. Keys'
  <2>1. ASSUME NEW q \in Records, NEW m \in Numbers, m \in 1 .. (seq'[q] - 1)
        PROVE  <<q, m>> \in released'
    <3>1. CASE q # r
      BY <1>1, <1>2, <2>1, <3>1 DEF Keys, TypeOK
    <3>2. CASE q = r /\ m = seq[r]
      BY <1>2, <1>3, <1>5, <2>1, <3>2 DEF Held, Numbers
    <3>3. CASE q = r /\ m # seq[r]
      <4>1. m \in 1 .. (seq[r] - 1)
        BY <1>1, <1>2, <1>3, <2>1, <3>3 DEF TypeOK, Numbers
      <4> QED
        BY <1>1, <1>2, <4>1, <3>3 DEF Keys
    <3> QED
      BY <3>1, <3>2, <3>3
  <2>2. ASSUME NEW q \in Records, NEW m \in Numbers, <<q, m>> \in released'
        PROVE  m <= seq'[q]
    <3>1. m <= seq[q]
      BY <1>1, <1>2, <2>2 DEF Keys
    <3> QED
      BY <1>1, <1>2, <1>3, <3>1 DEF TypeOK, Numbers
  <2> QED
    BY <1>2, <1>5, <1>7, <1>9, <2>1, <2>2 DEF Keys
<1>13. Posts'
  <2>1. ASSUME NEW q \in Records, NEW m \in Numbers, m \in 1 .. seq[q]
        PROVE  m \in 1 .. seq'[q]
    BY <1>1, <1>2, <1>3, <2>1 DEF TypeOK, Numbers
  <2> QED
    BY <1>1, <1>2, <2>1 DEF Posts, Stored, journal, platform
<1>14. Verdicts'
  BY <1>1, <1>2 DEF Verdicts, Stored, Sent, platform
<1> QED
  BY <1>4, <1>10, <1>11, <1>12, <1>13, <1>14 DEF Inductive

\* A process that holds the question shares it with no other process, and no
\* other record is held, attempted or reconciled.
LEMMA HolderAlone ==
  ASSUME NEW p \in Procs, Inductive, pc[p] \in Claiming
  PROVE  /\ rec[p] \in Records /\ res[p] = seq[rec[p]] /\ Held(rec[p])
         /\ \A q \in Procs \ {p} : pc[q] \notin Claiming
         /\ \A q \in Records \ {rec[p]} :
               ~Held(q) /\ attempt[q] = "none" /\ q \notin reconciled
<1>1. Knows(p)
  BY DEF Inductive, LocalKnowledge
<1>2. rec[p] \in Records /\ res[p] = seq[rec[p]] /\ Held(rec[p])
  BY <1>1 DEF Knows, Claiming
<1>3. \A q \in Procs \ {p} : pc[q] \notin Claiming
  BY DEF Inductive, OneHolder
<1>4. \A q \in Records \ {rec[p]} :
         ~Held(q) /\ attempt[q] = "none" /\ q \notin reconciled
  BY <1>2 DEF Inductive, Keys
<1> QED
  BY <1>2, <1>3, <1>4

LEMMA RecordReceiptStep ==
  ASSUME NEW p \in Procs, Inductive, RecordReceipt(p)
  PROVE  Inductive'
<1> DEFINE r == rec[p]
<1>1. TypeOK /\ Knows(p) /\ OneHolder /\ Keys /\ Posts /\ Verdicts
  BY DEF Inductive, LocalKnowledge
<1>2. /\ pc[p] = "record" /\ pc[p] \in Claiming /\ attempt[r] = "none" /\ r \notin reconciled
      /\ attempt' = [attempt EXCEPT ![r] = obs[p]]
      /\ status' = [status EXCEPT ![r] = Destination(obs[p])]
      /\ UNCHANGED <<seq, released, reconciled, journal, platform>> /\ End(p)
  BY DEF RecordReceipt, Claiming
<1>3. r \in Records /\ obs[p] \in AttemptEvents /\ <<r, res[p]>> \in posted
  BY <1>1, <1>2 DEF Knows, Sending
<1>4. Destination(obs[p]) \in Statuses \ {"validated"}
  BY DEF Destination, Statuses
<1>5. TypeOK'
  <2>1. /\ pc' \in [Procs -> Steps] /\ rec' \in [Procs -> Records \cup {None}]
        /\ res' \in [Procs -> Numbers]
        /\ obs' \in [Procs -> AttemptEvents \cup VerificationEvents \cup {"none"}]
    BY <1>1, <1>2, BoundKnown DEF TypeOK, End, Steps, Numbers
  <2> QED
    BY <1>1, <1>2, <1>3, <1>4, <2>1 DEF TypeOK, journal, platform
<1>6. LocalKnowledge'
  <2>1. Knows(p)'
    BY <1>1, <1>2 DEF Knows, TypeOK, End, Claiming, Sending
  <2>2. ASSUME NEW q \in Procs \ {p} PROVE Knows(q)'
    <3>1. Knows(q) /\ pc[q] \notin Claiming
      BY <1>2, HolderAlone DEF Inductive, LocalKnowledge
    <3>2. \A x \in Records : status[x] # "validated" => status'[x] # "validated"
      BY <1>1, <1>2, <1>3, <1>4 DEF TypeOK
    <3> QED
      BY <1>1, <1>2, <3>1, <3>2, OthersKnow DEF TypeOK, End, journal, platform
  <2> QED
    BY <2>1, <2>2 DEF LocalKnowledge
<1>7. OneHolder'
  BY <1>1, <1>2 DEF OneHolder, TypeOK, End, Claiming
<1>8. Keys'
  BY <1>1, <1>2, <1>3, HolderAlone DEF Keys, Held, TypeOK
<1>9. Posts'
  BY <1>1, <1>2, <1>3, <1>4 DEF Posts, Stored, TypeOK, journal, platform
<1>10. Verdicts'
  <2>1. Destination(obs[p]) = "approved" => obs[p] = "submission_uncertain"
    BY <1>3 DEF Destination, AttemptEvents
  <2>2. Destination(obs[p]) = "submitted" => Stored(r)
    <3>1. Destination(obs[p]) = "submitted" => obs[p] = "submitted"
      BY <1>3 DEF Destination, AttemptEvents
    <3> QED
      BY <1>1, <1>2, <3>1 DEF Knows
  <2>3. Sent(r)
    BY <1>1, <1>3 DEF Sent, TypeOK
  <2>4. UNCHANGED <<posted, landed, reconciled>>
    BY <1>2 DEF platform
  <2> QED
    BY <1>1, <1>2, <1>3, <2>1, <2>2, <2>3, <2>4 DEF Verdicts, Stored, Sent, TypeOK
<1> QED
  BY <1>5, <1>6, <1>7, <1>8, <1>9, <1>10 DEF Inductive

LEMMA ReleaseUnspentStep ==
  ASSUME NEW p \in Procs, Inductive, ReleaseUnspent(p)
  PROVE  Inductive'
<1> DEFINE r == rec[p]
<1>1. TypeOK /\ Knows(p) /\ OneHolder /\ Keys /\ Posts /\ Verdicts
  BY DEF Inductive, LocalKnowledge
<1>2. /\ pc[p] \in Claiming \ Sending /\ End(p)
      /\ released' \in {released, released \cup {<<r, res[p]>>}}
      /\ UNCHANGED <<status, seq, attempt, reconciled, journal, platform>>
  BY DEF ReleaseUnspent, Claiming, Sending
<1>3. /\ r \in Records /\ res[p] = seq[r] /\ <<r, res[p]>> \notin posted
      /\ attempt[r] = "none" /\ r \notin reconciled /\ seq[r] \in Numbers
  BY <1>1, <1>2, HolderAlone DEF Knows, TypeOK
<1>4. TypeOK'
  BY <1>1, <1>2, <1>3, BoundKnown DEF TypeOK, End, Steps, Numbers, journal, platform
<1>5. LocalKnowledge'
  <2>1. Knows(p)'
    BY <1>1, <1>2 DEF Knows, TypeOK, End, Claiming, Sending
  <2>2. ASSUME NEW q \in Procs \ {p} PROVE Knows(q)'
    <3>1. Knows(q) /\ pc[q] \notin Claiming
      BY <1>2, HolderAlone DEF Inductive, LocalKnowledge
    <3> QED
      BY <1>1, <1>2, <3>1, OthersKnow DEF TypeOK, End, journal, platform
  <2> QED
    BY <2>1, <2>2 DEF LocalKnowledge
<1>6. OneHolder'
  BY <1>1, <1>2 DEF OneHolder, TypeOK, End, Claiming
<1>7. Keys'
  <2>1. \A q \in Records : Held(q)' => Held(q)
    BY <1>2 DEF Held
  <2>2. \A q \in Records : attempt[q] # "none" \/ q \in reconciled => Held(q) /\ q # r
    BY <1>1, <1>3 DEF Keys
  <2>3. \A q \in Records : Held(q) => q = r
    BY <1>2, HolderAlone
  <2>4. \A q \in Records, n \in Numbers : <<q, n>> \in released' => n <= seq[q]
    BY <1>1, <1>2, <1>3, BoundKnown DEF Keys, Numbers
  <2> QED
    BY <1>1, <1>2, <2>1, <2>2, <2>3, <2>4 DEF Keys
<1>8. Posts'
  BY <1>1, <1>2, <1>3 DEF Posts, Stored, journal, platform
<1>9. Verdicts'
  BY <1>1, <1>2 DEF Verdicts, Stored, Sent, platform
<1> QED
  BY <1>4, <1>5, <1>6, <1>7, <1>8, <1>9 DEF Inductive

\* A POST that may still land, or did, was sent under the latest reservation
\* of its record, and that reservation stands.
LEMMA LivePostIsHeld ==
  ASSUME Inductive, NEW r \in Records, NEW n \in Numbers, <<r, n>> \in posted \ lost
  PROVE  n = seq[r] /\ Held(r) /\ <<r, n>> \notin released
<1>1. <<r, n>> \notin released /\ n \in 1 .. seq[r]
  BY DEF Inductive, Posts
<1>2. seq[r] \in Numbers
  BY DEF Inductive, TypeOK
<1>3. n \notin 1 .. (seq[r] - 1)
  BY <1>1 DEF Inductive, Keys
<1> QED
  BY <1>1, <1>2, <1>3, BoundKnown DEF Held, Numbers

LEMMA StoredIsHeld ==
  ASSUME Inductive, NEW r \in Records, Stored(r)
  PROVE  <<r, seq[r]>> \in landed \ lost /\ Held(r)
<1>1. PICK n \in Numbers : <<r, n>> \in landed
  BY DEF Stored
<1>2. <<r, n>> \in posted \ lost
  BY <1>1 DEF Inductive, Posts
<1> QED
  BY <1>1, <1>2, LivePostIsHeld

LEMMA RecordVerificationStep ==
  ASSUME NEW p \in Procs, Inductive, RecordVerification(p)
  PROVE  Inductive'
<1> DEFINE r == rec[p]
<1>1. TypeOK /\ Knows(p) /\ OneHolder /\ Keys /\ Posts /\ Verdicts
  BY DEF Inductive, LocalKnowledge
<1>2. /\ pc[p] = "verify" /\ End(p)
      /\ status' \in {status, [status EXCEPT ![r] = Destination(obs[p])]}
      /\ UNCHANGED <<seq, released, attempt, reconciled, journal, platform>>
      /\ ~Unresolved(r) => status' = status
  BY DEF RecordVerification
<1>3. /\ r \in Records
      /\ Destination(obs[p]) \in {"submitted", "failed"}
      /\ Destination(obs[p]) = "submitted" => Stored(r)
  BY <1>1, <1>2 DEF Knows, VerificationEvents, Destination
<1>4. TypeOK'
  <2>1. /\ pc' \in [Procs -> Steps] /\ rec' \in [Procs -> Records \cup {None}]
        /\ res' \in [Procs -> Numbers]
        /\ obs' \in [Procs -> AttemptEvents \cup VerificationEvents \cup {"none"}]
    BY <1>1, <1>2, BoundKnown DEF TypeOK, End, Steps, Numbers
  <2> QED
    BY <1>1, <1>2, <1>3, <2>1 DEF TypeOK, Statuses, journal, platform
<1>5. \A x \in Records : status[x] # "validated" => status'[x] # "validated"
  BY <1>1, <1>2, <1>3 DEF TypeOK
<1>6. LocalKnowledge'
  <2>1. Knows(p)'
    BY <1>1, <1>2 DEF Knows, TypeOK, End, Claiming, Sending
  <2>2. ASSUME NEW q \in Procs \ {p} PROVE Knows(q)'
    <3>1. Knows(q)
      BY DEF Inductive, LocalKnowledge
    <3> QED
      BY <1>1, <1>2, <1>5, <3>1, OthersKnow DEF TypeOK, End, journal, platform
  <2> QED
    BY <2>1, <2>2 DEF LocalKnowledge
<1>7. OneHolder'
  BY <1>1, <1>2 DEF OneHolder, TypeOK, End, Claiming
<1>8. Keys'
  BY <1>1, <1>2 DEF Keys, Held
<1>9. Posts'
  BY <1>1, <1>2, <1>5 DEF Posts, Stored, journal, platform
<1>10. Verdicts'
  BY <1>1, <1>2, <1>3 DEF Verdicts, Stored, Sent, Unresolved, TypeOK, platform
<1> QED
  BY <1>4, <1>6, <1>7, <1>8, <1>9, <1>10 DEF Inductive

LEMMA RecordReconciliationStep ==
  ASSUME NEW p \in Procs, Inductive, RecordReconciliation(p)
  PROVE  Inductive'
<1> DEFINE r == rec[p]
<1>1. TypeOK /\ Knows(p) /\ OneHolder /\ Keys /\ Posts /\ Verdicts
  BY DEF Inductive, LocalKnowledge
<1>2. /\ pc[p] = "reconcile" /\ End(p)
      /\ UNCHANGED <<seq, released, attempt, journal, platform>>
      /\ \/ reconciled' = reconciled /\ status' = status
         \/ reconciled' = reconciled \cup {r} /\ status' = [status EXCEPT ![r] = "submitted"]
  BY DEF RecordReconciliation
<1>3. r \in Records /\ Stored(r)
  BY <1>1, <1>2 DEF Knows
<1>4. <<r, seq[r]>> \in posted /\ Held(r)
  BY <1>1, <1>3, StoredIsHeld DEF Posts
<1>5. TypeOK'
  <2>1. /\ pc' \in [Procs -> Steps] /\ rec' \in [Procs -> Records \cup {None}]
        /\ res' \in [Procs -> Numbers]
        /\ obs' \in [Procs -> AttemptEvents \cup VerificationEvents \cup {"none"}]
    BY <1>1, <1>2, BoundKnown DEF TypeOK, End, Steps, Numbers
  <2> QED
    BY <1>1, <1>2, <1>3, <2>1 DEF TypeOK, Statuses, journal, platform
<1>6. \A x \in Records : status[x] # "validated" => status'[x] # "validated"
  BY <1>1, <1>2, <1>3 DEF TypeOK
<1>7. LocalKnowledge'
  <2>1. Knows(p)'
    BY <1>1, <1>2 DEF Knows, TypeOK, End, Claiming, Sending
  <2>2. ASSUME NEW q \in Procs \ {p} PROVE Knows(q)'
    <3>1. Knows(q)
      BY DEF Inductive, LocalKnowledge
    <3>2. pc[q] \in Claiming \ Sending => rec[q] # r
      BY <1>4, <3>1 DEF Knows
    <3>3. pc[q] \in Claiming \ Sending => (rec[q] \in reconciled' => rec[q] \in reconciled)
      BY <1>2, <3>2
    <3> QED
      BY <1>1, <1>2, <1>6, <3>1, <3>3, OthersKnow DEF TypeOK, End, journal, platform
  <2> QED
    BY <2>1, <2>2 DEF LocalKnowledge
<1>8. OneHolder'
  BY <1>1, <1>2 DEF OneHolder, TypeOK, End, Claiming
<1>9. Keys'
  BY <1>1, <1>2, <1>4 DEF Keys, Held
<1>10. Posts'
  BY <1>1, <1>2, <1>6 DEF Posts, Stored, journal, platform
<1>11. Verdicts'
  <2>1. UNCHANGED <<attempt, posted, landed>>
    BY <1>2 DEF platform
  <2>2. CASE UNCHANGED <<reconciled, status>>
    BY <1>1, <2>1, <2>2 DEF Verdicts, Stored, Sent
  <2>3. CASE reconciled' = reconciled \cup {r} /\ status' = [status EXCEPT ![r] = "submitted"]
    <3>1. status'[r] = "submitted" /\ \A x \in Records \ {r} : status'[x] = status[x]
      BY <1>1, <1>3, <2>3 DEF TypeOK
    <3> QED
      BY <1>1, <1>3, <2>1, <2>3, <3>1 DEF Verdicts, Stored, Sent
  <2> QED
    BY <1>2, <2>2, <2>3
<1> QED
  BY <1>5, <1>7, <1>8, <1>9, <1>10, <1>11 DEF Inductive

\* The only step that needs the assertion to be true: nothing was posted
\* under the reservation, or what was posted is lost.
LEMMA OperatorReleaseStep ==
  ASSUME NEW r \in Records, Inductive, OperatorRelease(r), ReleaseRule # "looked"
  PROVE  Inductive'
<1>1. TypeOK /\ LocalKnowledge /\ OneHolder /\ Keys /\ Posts /\ Verdicts
  BY DEF Inductive
<1>2. /\ released' = released \cup Unreleased(r)
      /\ UNCHANGED <<status, seq, attempt, reconciled, journal, platform, locals>>
      /\ attempt[r] = "none" /\ r \notin reconciled
      /\ \A p \in Procs : pc[p] \in Claiming => rec[p] # r
      /\ top = None /\ ReleaseRule = "settled" /\ ~InFlight(r)
  BY DEF OperatorRelease, Standing, AssertNothingPosted, HolderGone
<1>3. \A n \in Numbers : <<r, n>> \in posted => <<r, n>> \in lost
  <2>1. landed = {}
    BY <1>1, <1>2 DEF Posts
  <2> QED
    BY <1>2, <2>1 DEF InFlight
<1>4. \A q \in Records, n \in Numbers :
         <<q, n>> \in released' <=> (<<q, n>> \in released \/ (q = r /\ n \in 1 .. seq[r]))
  BY <1>2 DEF Unreleased, Reservations
<1>5. TypeOK'
  <2>1. Unreleased(r) \subseteq Records \X Numbers
    BY <1>1, BoundKnown DEF Unreleased, Reservations, Numbers, TypeOK
  <2> QED
    BY <1>1, <1>2, <2>1 DEF TypeOK, journal, platform, locals
<1>6. LocalKnowledge'
  <2> SUFFICES ASSUME NEW q \in Procs PROVE Knows(q)'
    BY DEF LocalKnowledge
  <2>1. Knows(q)
    BY <1>1 DEF LocalKnowledge
  <2>2. pc[q] \in Claiming =>
           (<<rec[q], res[q]>> \in released' => <<rec[q], res[q]>> \in released)
    BY <1>1, <1>2, <1>4, <2>1 DEF Knows, TypeOK, Claiming
  <2> QED
    BY <1>1, <1>2, <2>1, <2>2, OthersKnow DEF journal, platform, locals
<1>7. OneHolder'
  BY <1>1, <1>2 DEF OneHolder, locals
<1>8. Keys'
  <2>1. \A q \in Records : Held(q)' => Held(q)
    BY <1>2 DEF Held
  <2>2. \A q \in Records \ {r} : Held(q) => Held(q)'
    BY <1>1, <1>2, <1>4 DEF Held, TypeOK
  <2>3. \A q \in Records, n \in Numbers : <<q, n>> \in released' => n <= seq[q]
    BY <1>1, <1>4 DEF Keys, TypeOK, Numbers
  <2> QED
    BY <1>1, <1>2, <2>1, <2>2, <2>3 DEF Keys
<1>9. Posts'
  BY <1>1, <1>2, <1>3, <1>4 DEF Posts, Stored, journal, platform
<1>10. Verdicts'
  BY <1>1, <1>2 DEF Verdicts, Stored, Sent, platform
<1> QED
  BY <1>5, <1>6, <1>7, <1>8, <1>9, <1>10 DEF Inductive

-----------------------------------------------------------------------------
(* The POST, its answer, and the platform.                                 *)

LEMMA PostStep ==
  ASSUME NEW p \in Procs, Inductive, Post(p)
  PROVE  Inductive'
<1> DEFINE r == rec[p]
           m == <<rec[p], res[p]>>
<1>1. TypeOK /\ Knows(p) /\ OneHolder /\ Keys /\ Posts /\ Verdicts
  BY DEF Inductive, LocalKnowledge
<1>2. /\ pc[p] = "post" /\ pc[p] \in Claiming /\ pc' = [pc EXCEPT ![p] = "posted"]
      /\ posted' = posted \cup {m}
      /\ UNCHANGED <<ledger, journal, landed, lost, top, rec, res, obs>>
  BY DEF Post, Goto, Claiming
<1>3. /\ r \in Records /\ r \in intent /\ status[r] # "validated"
      /\ res[p] = seq[r] /\ res[p] \in Numbers /\ m \notin released
      /\ res[p] \in 1 .. seq[r] /\ Held(r)
  BY <1>1, <1>2, BoundKnown DEF Knows, TypeOK, Held, Numbers
<1>4. TypeOK'
  BY <1>1, <1>2, <1>3 DEF TypeOK, Steps, Claiming, ledger, journal
<1>5. LocalKnowledge'
  <2>1. Knows(p)'
    BY <1>1, <1>2, <1>3 DEF Knows, Held, TypeOK, Claiming, Sending, ledger
  <2>2. ASSUME NEW q \in Procs \ {p} PROVE Knows(q)'
    <3>1. Knows(q) /\ pc[q] \notin Claiming
      BY <1>2, HolderAlone DEF Inductive, LocalKnowledge
    <3> QED
      BY <1>1, <1>2, <3>1, OthersKnow DEF TypeOK, ledger, journal
  <2> QED
    BY <2>1, <2>2 DEF LocalKnowledge
<1>6. OneHolder'
  BY <1>1, <1>2 DEF OneHolder, TypeOK
<1>7. Keys'
  BY <1>1, <1>2 DEF Keys, Held, ledger
<1>8. Posts'
  BY <1>1, <1>2, <1>3 DEF Posts, Stored, ledger, journal
<1>9. Verdicts'
  BY <1>1, <1>2 DEF Verdicts, Stored, Sent, ledger
<1> QED
  BY <1>4, <1>5, <1>6, <1>7, <1>8, <1>9 DEF Inductive

LEMMA RefetchStep ==
  ASSUME NEW p \in Procs, Inductive, Refetch(p)
  PROVE  Inductive'
<1> DEFINE r == rec[p]
           m == <<rec[p], res[p]>>
<1>1. TypeOK /\ Knows(p) /\ OneHolder /\ Keys /\ Posts /\ Verdicts
  BY DEF Inductive, LocalKnowledge
<1>2. PICK answer \in {"ok", "refused", "error"}, outcome \in {Classify(r), "unreadable"} :
        /\ Goto(p, "posted", "record")
        /\ obs' = [obs EXCEPT ![p] = Partition(answer, outcome)]
        /\ answer = "refused" => m \notin landed
        /\ lost' = IF answer = "refused" THEN lost \cup {m} ELSE lost
        /\ UNCHANGED <<ledger, journal, posted, landed, top, rec, res>>
  BY DEF Refetch
<1>3. pc[p] = "posted" /\ pc[p] \in Claiming /\ pc' = [pc EXCEPT ![p] = "record"]
  BY <1>2 DEF Goto, Claiming
<1>4. r \in Records /\ res[p] \in Numbers /\ m \in posted
  BY <1>1, <1>3 DEF Knows, TypeOK, Sending
<1>5. /\ Partition(answer, outcome) \in AttemptEvents
      /\ Partition(answer, outcome) = "submitted" => outcome = "confirmed"
  BY DEF Partition, AttemptEvents
<1>6. Partition(answer, outcome) = "submitted" => Stored(r)
  <2>1. Partition(answer, outcome) = "submitted" => top = r
    BY <1>2, <1>5 DEF Classify
  <2> QED
    BY <1>1, <1>4, <2>1 DEF Posts
<1>7. lost \subseteq lost' /\ lost' \subseteq lost \cup {m} /\ landed \cap lost' = {}
  BY <1>1, <1>2 DEF Posts
<1>8. TypeOK'
  BY <1>1, <1>2, <1>3, <1>4, <1>5, <1>7 DEF TypeOK, Steps, Claiming, ledger, journal
<1>9. LocalKnowledge'
  <2>1. Knows(p)'
    BY <1>1, <1>2, <1>3, <1>4, <1>5, <1>6
       DEF Knows, Held, Stored, TypeOK, Claiming, Sending, ledger
  <2>2. ASSUME NEW q \in Procs \ {p} PROVE Knows(q)'
    <3>1. Knows(q)
      BY DEF Inductive, LocalKnowledge
    <3> QED
      BY <1>1, <1>2, <1>3, <3>1, OthersKnow DEF TypeOK, ledger, journal
  <2> QED
    BY <2>1, <2>2 DEF LocalKnowledge
<1>10. OneHolder'
  BY <1>1, <1>3 DEF OneHolder, TypeOK
<1>11. Keys'
  BY <1>1, <1>2 DEF Keys, Held, ledger
<1>12. Posts'
  <2>1. UNCHANGED <<status, seq, released, intent, posted, landed, top>>
    BY <1>2 DEF ledger, journal
  <2> QED
    BY <1>1, <1>4, <1>7, <2>1 DEF Posts, Stored
<1>13. Verdicts'
  BY <1>1, <1>2 DEF Verdicts, Stored, Sent, ledger
<1> QED
  BY <1>8, <1>9, <1>10, <1>11, <1>12, <1>13 DEF Inductive

\* The journal's confirmation, the activation and a forecast made by hand.
LEMMA JournalStep ==
  ASSUME Inductive, (\E r \in Records : Confirm(r)) \/ Enable \/ Disable \/ ForecastByHand
  PROVE  Inductive'
<1>1. TypeOK /\ LocalKnowledge /\ OneHolder /\ Keys /\ Posts /\ Verdicts
  BY DEF Inductive
<1>2. /\ UNCHANGED <<ledger, locals, intent, posted, landed, lost, torn>>
      /\ confirmed' \in SUBSET Records /\ active' \in BOOLEAN
      /\ top' \in {top, Hand}
  BY <1>1 DEF Confirm, Enable, Disable, ForecastByHand, TypeOK, journal, platform
<1>3. TypeOK'
  BY <1>1, <1>2 DEF TypeOK, ledger, locals
<1>4. LocalKnowledge'
  <2> SUFFICES ASSUME NEW q \in Procs PROVE Knows(q)'
    BY DEF LocalKnowledge
  <2>1. Knows(q)
    BY <1>1 DEF LocalKnowledge
  <2> QED
    BY <1>1, <1>2, <2>1, OthersKnow DEF ledger, locals
<1>5. OneHolder' /\ Keys'
  BY <1>1, <1>2 DEF OneHolder, Keys, Held, ledger, locals
<1>6. Posts'
  BY <1>1, <1>2, NamesDistinct DEF Posts, Stored, ledger, locals
<1>7. Verdicts'
  BY <1>1, <1>2 DEF Verdicts, Stored, Sent, ledger
<1> QED
  BY <1>3, <1>4, <1>5, <1>6, <1>7 DEF Inductive

LEMMA PlatformStep ==
  ASSUME Inductive, NEW m \in posted, Land(m) \/ Lose(m)
  PROVE  Inductive'
<1>1. TypeOK /\ LocalKnowledge /\ OneHolder /\ Keys /\ Posts /\ Verdicts
  BY DEF Inductive
<1>2. PICK r \in Records, n \in Numbers : m = <<r, n>>
  BY <1>1 DEF TypeOK
<1>3. /\ m \notin landed \cup lost
      /\ \/ landed' = landed \cup {m} /\ top' = r /\ lost' = lost
         \/ landed' = landed /\ top' = top /\ lost' = lost \cup {m}
      /\ UNCHANGED <<ledger, journal, posted, locals>>
  BY <1>2 DEF Land, Lose
<1>4. TypeOK'
  BY <1>1, <1>2, <1>3 DEF TypeOK, ledger, journal, locals
<1>5. LocalKnowledge'
  <2> SUFFICES ASSUME NEW q \in Procs PROVE Knows(q)'
    BY DEF LocalKnowledge
  <2>1. Knows(q)
    BY <1>1 DEF LocalKnowledge
  <2>2. landed \subseteq landed'
    BY <1>3
  <2> QED
    BY <1>1, <1>3, <2>1, <2>2, OthersKnow DEF ledger, journal, locals
<1>6. OneHolder' /\ Keys'
  BY <1>1, <1>3 DEF OneHolder, Keys, Held, ledger, locals
<1>7. Posts'
  <2>1. UNCHANGED <<status, seq, released, intent, posted>>
    BY <1>3 DEF ledger, journal
  <2>2. CASE landed' = landed \cup {m} /\ top' = r /\ lost' = lost
    BY <1>1, <1>2, <1>3, <2>1, <2>2, NamesDistinct DEF Posts, Stored
  <2>3. CASE landed' = landed /\ top' = top /\ lost' = lost \cup {m}
    BY <1>1, <1>2, <1>3, <2>1, <2>3 DEF Posts, Stored
  <2> QED
    BY <1>3, <2>2, <2>3
<1>8. Verdicts'
  <2>1. UNCHANGED <<status, attempt, reconciled, posted>> /\ landed \subseteq landed'
    BY <1>3 DEF ledger
  <2> QED
    BY <1>1, <2>1 DEF Verdicts, Stored, Sent
<1> QED
  BY <1>4, <1>5, <1>6, <1>7, <1>8 DEF Inductive

-----------------------------------------------------------------------------
(* The invariant, and what it shows.                                       *)

LEMMA NextInductive ==
  ASSUME Inductive, [Next]_vars, ReleaseRule # "looked"
  PROVE  Inductive'
<1>1. CASE UNCHANGED vars
  <2> USE <1>1 DEF vars, Inductive
  <2>1. TypeOK' /\ OneHolder'
    BY DEF TypeOK, OneHolder
  <2>2. LocalKnowledge'
    <3> SUFFICES ASSUME NEW q \in Procs PROVE Knows(q)'
      BY DEF LocalKnowledge
    <3> QED
      BY DEF LocalKnowledge, Knows, Held, Stored
  <2>3. Keys' /\ Posts' /\ Verdicts'
    BY DEF Keys, Posts, Verdicts, Held, Stored, Sent
  <2> QED
    BY <2>1, <2>2, <2>3
<1>2. ASSUME NEW p \in Procs, SubmitStep(p)
      PROVE  Inductive'
  BY <1>2, WalkStep, EndStep, ReserveStep, PostStep, RefetchStep, RecordReceiptStep,
     ReleaseUnspentStep
     DEF SubmitStep
<1>3. ASSUME NEW p \in Procs, OperatorStep(p)
      PROVE  Inductive'
  BY <1>3, RecordVerificationStep, RecordReconciliationStep, BeginStep DEF OperatorStep
<1>4. ASSUME NEW p \in Procs, Crash(p)
      PROVE  Inductive'
  BY <1>4, EndStep
<1>5. ASSUME NEW p \in Procs, NEW r \in Records, BeginPost(p, r)
      PROVE  Inductive'
  BY <1>5, BeginStep
<1>6. ASSUME NEW r \in Records, Approve(r) \/ OperatorRelease(r) \/ Confirm(r)
      PROVE  Inductive'
  BY <1>6, ApproveStep, OperatorReleaseStep, JournalStep
<1>7. CASE Enable \/ Disable \/ ForecastByHand
  BY <1>7, JournalStep
<1>8. ASSUME NEW m \in posted, Land(m) \/ Lose(m)
      PROVE  Inductive'
  BY <1>8, PlatformStep
<1> QED
  BY <1>1, <1>2, <1>3, <1>4, <1>5, <1>6, <1>7, <1>8 DEF Next

\* The inductive invariant holds whenever release-key is used as its prompt
\* asks, or not at all: for any number of processes, versions and reservations.
THEOREM InductiveHolds ==
  ASSUME ReleaseRule # "looked"
  PROVE  Spec => []Inductive
<1>1. Inductive /\ [Next]_vars => Inductive'
  BY NextInductive
<1> QED
  BY InitInductive, <1>1, PTL DEF Spec

\* Type correctness.
THEOREM TypeHolds ==
  ASSUME ReleaseRule # "looked"
  PROVE  Spec => []TypeOK
<1>1. Inductive => TypeOK
  BY DEF Inductive
<1> QED
  BY <1>1, InductiveHolds, PTL

\* A live POST names the one record that is held and its latest reservation,
\* so there is one.
LEMMA LivePostIsUnique == Inductive => OneLivePost
<1> SUFFICES ASSUME Inductive, NEW m \in posted \ lost, NEW n \in posted \ lost
             PROVE  m = n
  BY DEF OneLivePost
<1>1. PICK r \in Records, i \in Numbers : m = <<r, i>>
  BY DEF Inductive, TypeOK
<1>2. PICK q \in Records, j \in Numbers : n = <<q, j>>
  BY DEF Inductive, TypeOK
<1>3. i = seq[r] /\ Held(r) /\ j = seq[q] /\ Held(q)
  BY <1>1, <1>2, LivePostIsHeld
<1>4. r = q
  BY <1>3 DEF Inductive, Keys
<1> QED
  BY <1>1, <1>2, <1>3, <1>4

\* At most one POST that landed or may land exists for the question.
THEOREM OneLivePostHolds ==
  ASSUME ReleaseRule # "looked"
  PROVE  Spec => []OneLivePost
<1> QED
  BY LivePostIsUnique, InductiveHolds, PTL

\* Without release-key, a released reservation was never posted under.
LEMMA PostIsHeld ==
  ASSUME Inductive, ReleaseRule = "never", NEW r \in Records, NEW n \in Numbers,
         <<r, n>> \in posted
  PROVE  n = seq[r] /\ Held(r)
<1>1. <<r, n>> \notin released /\ n \in 1 .. seq[r]
  BY DEF Inductive, Posts
<1>2. seq[r] \in Numbers
  BY DEF Inductive, TypeOK
<1>3. n \notin 1 .. (seq[r] - 1)
  BY <1>1 DEF Inductive, Keys
<1> QED
  BY <1>1, <1>2, <1>3, BoundKnown DEF Held, Numbers

\* Without release-key at most one request ever leaves for the question.
THEOREM OnePostHolds ==
  ASSUME ReleaseRule = "never"
  PROVE  Spec => []OnePost
<1>1. Inductive => OnePost
  <2> SUFFICES ASSUME Inductive, NEW m \in posted, NEW n \in posted
               PROVE  m = n
    BY DEF OnePost
  <2>1. PICK r \in Records, i \in Numbers : m = <<r, i>>
    BY DEF Inductive, TypeOK
  <2>2. PICK q \in Records, j \in Numbers : n = <<q, j>>
    BY DEF Inductive, TypeOK
  <2>3. i = seq[r] /\ Held(r) /\ j = seq[q] /\ Held(q)
    BY <2>1, <2>2, PostIsHeld
  <2>4. r = q
    BY <2>3 DEF Inductive, Keys
  <2> QED
    BY <2>1, <2>2, <2>3, <2>4
<1>2. Spec => []Inductive
  BY InductiveHolds
<1> QED
  BY <1>1, <1>2, PTL

\* Every POST has its intent, and its reservation stands until it is lost.
THEOREM PostLeavesTracesHolds ==
  ASSUME ReleaseRule # "looked"
  PROVE  Spec => []PostLeavesTraces
<1>1. Inductive => PostLeavesTraces
  <2> SUFFICES ASSUME Inductive, NEW m \in posted
               PROVE  /\ m[1] \in intent
                      /\ m \in Reservations(m[1])
                      /\ m \in released => m \in lost
    BY DEF PostLeavesTraces
  <2>1. PICK r \in Records, n \in Numbers : m = <<r, n>>
    BY DEF Inductive, TypeOK
  <2> QED
    BY <2>1 DEF Inductive, Posts, Reservations
<1> QED
  BY <1>1, InductiveHolds, PTL

\* Every submitted record is on the platform.
THEOREM SubmittedIsLiveHolds ==
  ASSUME ReleaseRule # "looked"
  PROVE  Spec => []SubmittedIsLive
<1>1. Inductive => SubmittedIsLive
  BY DEF Inductive, Verdicts, Stored, SubmittedIsLive
<1> QED
  BY <1>1, InductiveHolds, PTL

\* A stored post that no process holds is settled or can be.
THEOREM LandedIsRecoverableHolds ==
  ASSUME ReleaseRule # "looked"
  PROVE  Spec => []LandedIsRecoverable
<1>1. Inductive => LandedIsRecoverable
  <2> SUFFICES ASSUME Inductive, NEW m \in landed, NEW r, r = m[1],
                      status[r] \notin {"submitted", "failed"}, ~Unresolved(r)
               PROVE  UnrecordedPost(r)
    BY DEF LandedIsRecoverable
  <2>1. r \in Records /\ Stored(r)
    BY DEF Inductive, TypeOK, Stored
  <2>2. <<r, seq[r]>> \in posted /\ Held(r) /\ seq[r] \in Numbers
    BY <2>1, StoredIsHeld DEF Inductive, Posts, TypeOK
  <2>3. status[r] = "approved" /\ r \in intent
    BY <2>1, <2>2 DEF Inductive, Posts, TypeOK, Statuses
  <2>4. attempt[r] = "none" /\ r \notin reconciled
    BY <2>1, <2>3 DEF Inductive, Verdicts, Unresolved
  <2>5. <<r, seq[r]>> \in Unreleased(r)
    BY <2>1, <2>2, BoundKnown DEF Unreleased, Reservations, Held, Numbers
  <2> QED
    BY <2>3, <2>4, <2>5 DEF UnrecordedPost, Standing
<1> QED
  BY <1>1, InductiveHolds, PTL

-----------------------------------------------------------------------------
(* No blind retry.                                                         *)

\* Only Post sends.
LEMMA OnlyPostSends ==
  ASSUME Next, posted' # posted
  PROVE  \E p \in Procs : Post(p)
<1>1. ASSUME NEW p \in Procs, SubmitStep(p) \/ OperatorStep(p) \/ Crash(p), ~Post(p)
      PROVE  posted' = posted
  <2> USE DEF platform
  <2>1. CASE SubmitStep(p)
    BY <1>1, <2>1 DEF SubmitStep, Policy, Derive, Refuse, Reserve, Baseline, BeforePost,
       WitnessRow, WitnessFiles, WriteIntent, Refetch, RecordReceipt, ReceiptRefused,
       FailBeforePost, ReleaseUnspent
  <2>2. CASE OperatorStep(p)
    BY <2>2 DEF OperatorStep, RecordVerification, RecordReconciliation, BeginVerify,
       BeginReconcile
  <2>3. CASE Crash(p)
    BY <2>3 DEF Crash
  <2> QED
    BY <1>1, <2>1, <2>2, <2>3
<1>2. ASSUME NEW p \in Procs, NEW r \in Records, BeginPost(p, r)
      PROVE  posted' = posted
  BY <1>2 DEF BeginPost, platform
<1>3. ASSUME NEW r \in Records, Approve(r) \/ OperatorRelease(r) \/ Confirm(r)
      PROVE  posted' = posted
  BY <1>3 DEF Approve, OperatorRelease, Confirm, platform
<1>4. CASE Enable \/ Disable \/ ForecastByHand
  BY <1>4 DEF Enable, Disable, ForecastByHand, platform
<1>5. ASSUME NEW m \in posted, Land(m) \/ Lose(m)
      PROVE  posted' = posted
  BY <1>5 DEF Land, Lose
<1> QED
  BY <1>1, <1>2, <1>3, <1>4, <1>5 DEF Next

\* What is true when a POST is about to leave: nothing was attempted or
\* reconciled for the question and every earlier POST is lost.
LEMMA PostIsClear ==
  ASSUME NEW p \in Procs, Inductive, Post(p)
  PROVE  /\ \A r \in Records : attempt[r] = "none" /\ r \notin reconciled
         /\ posted \subseteq lost
<1>1. pc[p] \in Claiming \ Sending
  BY DEF Post, Goto, Claiming, Sending
<1>2. /\ <<rec[p], res[p]>> \notin posted
      /\ attempt[rec[p]] = "none" /\ rec[p] \notin reconciled
  BY <1>1 DEF Inductive, LocalKnowledge, Knows
<1>3. \A r \in Records : attempt[r] = "none" /\ r \notin reconciled
  BY <1>1, <1>2, HolderAlone
<1>4. ASSUME NEW m \in posted \ lost
      PROVE  FALSE
  <2>1. PICK r \in Records, n \in Numbers : m = <<r, n>>
    BY DEF Inductive, TypeOK
  <2>2. n = seq[r] /\ Held(r)
    BY <2>1, LivePostIsHeld
  <2>3. r = rec[p] /\ n = res[p]
    BY <1>1, <2>2, HolderAlone
  <2> QED
    BY <1>2, <2>1, <2>3
<1> QED
  BY <1>3, <1>4

\* No POST leaves while an attempt is recorded or another may still land.
THEOREM NoBlindRetryHolds ==
  ASSUME ReleaseRule # "looked"
  PROVE  Spec => NoBlindRetry
<1>1. ASSUME Inductive, [Next]_vars, posted' # posted
      PROVE  /\ \A r \in Records : attempt[r] = "none" /\ r \notin reconciled
             /\ posted \subseteq lost
  <2>1. Next
    BY <1>1 DEF vars
  <2> QED
    BY <1>1, <2>1, OnlyPostSends, PostIsClear
<1>2. Inductive /\ [Next]_vars =>
        [posted' # posted =>
            /\ \A r \in Records : attempt[r] = "none" /\ r \notin reconciled
            /\ posted \subseteq lost]_vars
  BY <1>1
<1> QED
  BY <1>2, InductiveHolds, PTL DEF Spec, NoBlindRetry

-----------------------------------------------------------------------------
(* Submission implements PostOnce.                                         *)

LEMMA ClaimedIsHeld == Inductive => ClaimedRecords = {r \in Records : Held(r)}
<1> SUFFICES ASSUME Inductive, NEW r \in Records
             PROVE  Unreleased(r) # {} <=> Held(r)
  BY DEF ClaimedRecords
<1>1. seq[r] \in Numbers
  BY DEF Inductive, TypeOK
<1>2. ASSUME Held(r) PROVE <<r, seq[r]>> \in Unreleased(r)
  BY <1>1, <1>2, BoundKnown DEF Held, Unreleased, Reservations, Numbers
<1>3. ASSUME NEW m \in Unreleased(r) PROVE Held(r)
  <2>1. PICK n \in 1 .. seq[r] : m = <<r, n>> /\ <<r, n>> \notin released
    BY <1>3 DEF Unreleased, Reservations
  <2>2. n \in Numbers /\ seq[r] # 0
    BY <1>1, <2>1, BoundKnown DEF Numbers
  <2>3. n \notin 1 .. (seq[r] - 1)
    BY <2>1, <2>2 DEF Inductive, Keys
  <2>4. n = seq[r]
    BY <1>1, <2>1, <2>3, BoundKnown DEF Numbers
  <2> QED
    BY <2>1, <2>2, <2>4 DEF Held
<1> QED
  BY <1>2, <1>3

LEMMA SentIsHeld ==
  ASSUME Inductive, ReleaseRule = "never"
  PROVE  \A r \in SentRecords : r \in Records /\ Held(r)
<1> SUFFICES ASSUME NEW m \in posted PROVE m[1] \in Records /\ Held(m[1])
  BY DEF SentRecords
<1>1. PICK r \in Records, n \in Numbers : m = <<r, n>>
  BY DEF Inductive, TypeOK
<1> QED
  BY <1>1, PostIsHeld

\* A sent record is the one record sent.
LEMMA SentIsOne ==
  ASSUME Inductive, ReleaseRule = "never", NEW r \in Records, Sent(r)
  PROVE  SentRecords = {r}
<1>1. r \in SentRecords
  BY DEF Sent, SentRecords
<1>2. \A q \in SentRecords : q = r
  BY <1>1, SentIsHeld DEF Inductive, Keys
<1> QED
  BY <1>1, <1>2

\* Steps that touch neither a reservation, nor a status, nor a POST.
LEMMA QuietStep ==
  ASSUME UNCHANGED <<status, seq, released, posted>>
  PROVE  UNCHANGED Promise!vars
BY DEF Promise!vars, ClaimedRecords, SentRecords, Verdict, Unreleased, Reservations

\* A verdict is passed on a sent record that had none.
LEMMA ConcludeStep ==
  ASSUME Inductive, ReleaseRule = "never", NEW r \in Records, Sent(r),
         status[r] = "approved",
         NEW verdict \in {"approved", "submitted", "failed"},
         status' = [status EXCEPT ![r] = verdict],
         UNCHANGED <<seq, released, posted>>
  PROVE  [Promise!Next]_Promise!vars
<1>1. UNCHANGED <<ClaimedRecords, SentRecords>>
  BY DEF ClaimedRecords, SentRecords, Unreleased, Reservations
<1>2. CASE verdict = "approved"
  <2>1. status' = status
    BY <1>2 DEF Inductive, TypeOK
  <2> QED
    BY <2>1, QuietStep
<1>3. CASE verdict \in {"submitted", "failed"}
  <2>1. SentRecords = {r}
    BY SentIsOne
  <2>2. Verdict[r] = "open"
    BY DEF Verdict
  <2>3. Verdict' = [Verdict EXCEPT ![r] = verdict]
    BY <1>3 DEF Verdict, Inductive, TypeOK
  <2>4. Promise!Conclude(r, verdict)
    BY <1>1, <2>1, <2>2, <2>3 DEF Promise!Conclude
  <2> QED
    BY <1>3, <2>4 DEF Promise!Next
<1> QED
  BY <1>2, <1>3

LEMMA ApproveSimulates ==
  ASSUME Inductive, NEW r \in Records, Approve(r)
  PROVE  UNCHANGED Promise!vars
<1>1. Verdict' = Verdict
  BY DEF Approve, Verdict, Inductive, TypeOK
<1>2. UNCHANGED <<ClaimedRecords, SentRecords>>
  BY DEF Approve, ClaimedRecords, SentRecords, Unreleased, Reservations, platform
<1> QED
  BY <1>1, <1>2 DEF Promise!vars

LEMMA ReserveSimulates ==
  ASSUME Inductive, ReleaseRule = "never", NEW p \in Procs, Reserve(p)
  PROVE  [Promise!Next]_Promise!vars
<1>1. PICK r \in Records : r = rec[p] /\ KeyFree(r) /\ QuestionFree(r)
  BY DEF Inductive, LocalKnowledge, Knows, Reserve, Goto
<1>2. ClaimedRecords = {}
  BY <1>1 DEF ClaimedRecords, KeyFree, QuestionFree
<1>3. SentRecords = {}
  BY <1>2, SentIsHeld, ClaimedIsHeld
<1>4. ClaimedRecords' = {r}
  <2>1. /\ seq' = [seq EXCEPT ![r] = @ + 1] /\ released' = released
        /\ seq \in [Records -> Numbers]
    BY <1>1 DEF Reserve, Inductive, TypeOK
  <2>2. ASSUME NEW q \in Records \ {r} PROVE Unreleased(q)' = {}
    <3>1. Unreleased(q) = {} /\ seq'[q] = seq[q]
      BY <1>1, <2>1 DEF QuestionFree
    <3> QED
      BY <2>1, <3>1 DEF Unreleased, Reservations
  <2>3. <<r, seq'[r]>> \in Unreleased(r)'
    <3>1. seq'[r] = seq[r] + 1 /\ seq[r] \in Numbers
      BY <2>1
    <3>2. seq[r] < MaxReservations
      BY <1>1 DEF Reserve
    <3>3. <<r, seq'[r]>> \notin released
      BY <3>1, <3>2, BoundKnown DEF Inductive, Keys, Numbers
    <3> QED
      BY <2>1, <3>1, <3>3, BoundKnown DEF Unreleased, Reservations, Numbers
  <2> QED
    BY <2>2, <2>3 DEF ClaimedRecords
<1>5. UNCHANGED <<SentRecords, Verdict>>
  BY DEF Reserve, SentRecords, Verdict, platform
<1> QED
  BY <1>2, <1>3, <1>4, <1>5 DEF Promise!Claim, Promise!Next

LEMMA PostSimulates ==
  ASSUME Inductive, ReleaseRule = "never", NEW p \in Procs, Post(p)
  PROVE  [Promise!Next]_Promise!vars
<1>1. pc[p] \in Claiming \ Sending
  BY DEF Post, Goto, Claiming, Sending
<1>2. /\ rec[p] \in Records /\ Held(rec[p]) /\ res[p] = seq[rec[p]]
      /\ \A q \in Records \ {rec[p]} : ~Held(q)
  BY <1>1, HolderAlone
<1>3. ClaimedRecords = {rec[p]}
  BY <1>2, ClaimedIsHeld
<1>4. posted = {}
  <2> SUFFICES ASSUME NEW m \in posted PROVE FALSE
    OBVIOUS
  <2>1. PICK r \in Records, n \in Numbers : m = <<r, n>>
    BY DEF Inductive, TypeOK
  <2>2. m = <<rec[p], res[p]>>
    BY <1>2, <2>1, PostIsHeld
  <2> QED
    BY <1>1, <2>2 DEF Inductive, LocalKnowledge, Knows
<1>5. SentRecords = {} /\ SentRecords' = {rec[p]}
  BY <1>4 DEF SentRecords, Post
<1>6. UNCHANGED <<ClaimedRecords, Verdict>>
  BY DEF Post, ClaimedRecords, Verdict, Unreleased, Reservations, ledger
<1>7. Promise!Send(rec[p])
  BY <1>3, <1>5, <1>6 DEF Promise!Send
<1> QED
  BY <1>2, <1>7 DEF Promise!Next

LEMMA ReleaseSimulates ==
  ASSUME Inductive, ReleaseRule = "never", NEW p \in Procs, ReleaseUnspent(p)
  PROVE  [Promise!Next]_Promise!vars
<1>1. pc[p] \in Claiming \ Sending
  BY DEF ReleaseUnspent, Claiming, Sending
<1>2. /\ rec[p] \in Records /\ Held(rec[p]) /\ res[p] = seq[rec[p]]
      /\ \A q \in Records \ {rec[p]} : ~Held(q)
  BY <1>1, HolderAlone
<1>3. UNCHANGED <<status, seq, posted>>
  BY DEF ReleaseUnspent, platform
<1>4. CASE released' = released
  BY <1>3, <1>4, QuietStep
<1>5. CASE released' = released \cup {<<rec[p], res[p]>>}
  <2>1. SentRecords = {}
    <3> SUFFICES ASSUME NEW m \in posted PROVE FALSE
      BY DEF SentRecords
    <3>1. PICK r \in Records, n \in Numbers : m = <<r, n>>
      BY DEF Inductive, TypeOK
    <3>2. m = <<rec[p], res[p]>>
      BY <1>2, <3>1, PostIsHeld
    <3> QED
      BY <1>1, <3>2 DEF Inductive, LocalKnowledge, Knows
  <2>2. ClaimedRecords' = {}
    <3> SUFFICES ASSUME NEW r \in Records PROVE Unreleased(r)' = {}
      BY DEF ClaimedRecords
    <3>1. Unreleased(r)' \subseteq Unreleased(r)
      BY <1>3, <1>5 DEF Unreleased, Reservations
    <3>2. CASE r # rec[p]
      BY <1>2, <3>1, <3>2, ClaimedIsHeld DEF ClaimedRecords
    <3>3. CASE r = rec[p]
      <4> SUFFICES ASSUME NEW m \in Unreleased(r)' PROVE FALSE
        OBVIOUS
      <4>1. PICK n \in 1 .. seq[r] : m = <<r, n>> /\ <<r, n>> \notin released'
        BY <1>3 DEF Unreleased, Reservations
      <4>2. n # seq[r] /\ <<r, n>> \notin released
        BY <1>2, <1>5, <3>3, <4>1
      <4>3. seq[r] \in Numbers
        BY DEF Inductive, TypeOK
      <4>4. n \in 1 .. (seq[r] - 1) /\ n \in Numbers
        BY <4>1, <4>2, <4>3, BoundKnown DEF Numbers
      <4> QED
        BY <4>2, <4>4 DEF Inductive, Keys
    <3> QED
      BY <3>2, <3>3
  <2>3. UNCHANGED <<SentRecords, Verdict>>
    BY <1>3 DEF SentRecords, Verdict
  <2> QED
    BY <2>1, <2>2, <2>3 DEF Promise!Withdraw, Promise!Next
<1> QED
  BY <1>4, <1>5 DEF ReleaseUnspent

LEMMA VerdictSimulates ==
  ASSUME Inductive, ReleaseRule = "never", NEW p \in Procs,
         RecordReceipt(p) \/ RecordVerification(p) \/ RecordReconciliation(p)
  PROVE  [Promise!Next]_Promise!vars
<1>1. TypeOK /\ Knows(p) /\ Posts /\ Verdicts
  BY DEF Inductive, LocalKnowledge
<1>2. UNCHANGED <<seq, released, posted>>
  BY DEF RecordReceipt, RecordVerification, RecordReconciliation, platform
<1>3. CASE RecordReceipt(p)
  <2>1. /\ pc[p] = "record" /\ status[rec[p]] = "approved"
        /\ status' = [status EXCEPT ![rec[p]] = Destination(obs[p])]
    BY <1>3 DEF RecordReceipt
  <2>2. rec[p] \in Records /\ Sent(rec[p])
    BY <1>1, <2>1 DEF Knows, TypeOK, Sending, Sent
  <2>3. Destination(obs[p]) \in {"approved", "submitted", "failed"}
    BY DEF Destination
  <2> QED
    BY <1>2, <2>1, <2>2, <2>3, ConcludeStep
<1>4. CASE RecordVerification(p)
  <2>1. CASE ~Unresolved(rec[p])
    BY <1>2, <1>4, <2>1, QuietStep DEF RecordVerification
  <2>2. CASE Unresolved(rec[p])
    <3>1. rec[p] \in Records /\ Sent(rec[p]) /\ status[rec[p]] = "approved"
      BY <1>1, <1>4, <2>2 DEF RecordVerification, Knows, Verdicts, Unresolved
    <3>2. status' = [status EXCEPT ![rec[p]] = Destination(obs[p])]
      BY <1>4, <2>2 DEF RecordVerification
    <3>3. Destination(obs[p]) \in {"approved", "submitted", "failed"}
      BY DEF Destination
    <3> QED
      BY <1>2, <3>1, <3>2, <3>3, ConcludeStep
  <2> QED
    BY <2>1, <2>2
<1>5. CASE RecordReconciliation(p)
  <2>1. CASE status' = status
    BY <1>2, <2>1, QuietStep
  <2>2. CASE status' # status
    <3>1. /\ pc[p] = "reconcile" /\ status[rec[p]] = "approved"
          /\ status' = [status EXCEPT ![rec[p]] = "submitted"]
      BY <1>5, <2>2 DEF RecordReconciliation, UnrecordedPost
    <3>2. rec[p] \in Records /\ Sent(rec[p])
      BY <1>1, <3>1 DEF Knows, Stored, Sent, Posts
    <3> QED
      BY <1>2, <3>1, <3>2, ConcludeStep
  <2> QED
    BY <2>1, <2>2
<1> QED
  BY <1>3, <1>4, <1>5

LEMMA StepSimulates ==
  ASSUME Inductive, ReleaseRule = "never", [Next]_vars
  PROVE  [Promise!Next]_Promise!vars
<1>1. CASE UNCHANGED vars
  BY <1>1, QuietStep DEF vars
<1>2. ASSUME NEW p \in Procs, SubmitStep(p)
      PROVE  [Promise!Next]_Promise!vars
  <2>1. CASE \/ Policy(p) \/ Derive(p) \/ Refuse(p) \/ Baseline(p) \/ BeforePost(p)
             \/ WitnessRow(p) \/ WitnessFiles(p) \/ WriteIntent(p) \/ Refetch(p)
             \/ ReceiptRefused(p) \/ FailBeforePost(p)
    BY <2>1, QuietStep
       DEF Policy, Derive, Refuse, Baseline, BeforePost, WitnessRow, WitnessFiles, WriteIntent,
           Refetch, ReceiptRefused, FailBeforePost, ledger, platform
  <2> QED
    BY <1>2, <2>1, ReserveSimulates, PostSimulates, VerdictSimulates, ReleaseSimulates
       DEF SubmitStep
<1>3. ASSUME NEW p \in Procs, OperatorStep(p)
      PROVE  [Promise!Next]_Promise!vars
  <2>1. ASSUME NEW r \in Records, BeginVerify(p, r) \/ BeginReconcile(p, r)
        PROVE  UNCHANGED Promise!vars
    BY <2>1, QuietStep DEF BeginVerify, BeginReconcile, ledger, platform
  <2> QED
    BY <1>3, <2>1, VerdictSimulates DEF OperatorStep
<1>4. ASSUME NEW p \in Procs, Crash(p)
      PROVE  UNCHANGED Promise!vars
  BY <1>4, QuietStep DEF Crash, ledger, platform
<1>5. ASSUME NEW p \in Procs, NEW r \in Records, BeginPost(p, r)
      PROVE  UNCHANGED Promise!vars
  BY <1>5, QuietStep DEF BeginPost, ledger, platform
<1>6. ASSUME NEW r \in Records, Approve(r) \/ OperatorRelease(r) \/ Confirm(r)
      PROVE  UNCHANGED Promise!vars
  <2>1. ~OperatorRelease(r)
    BY DEF OperatorRelease, AssertNothingPosted
  <2>2. Confirm(r) => UNCHANGED Promise!vars
    BY QuietStep DEF Confirm, ledger, platform
  <2> QED
    BY <1>6, <2>1, <2>2, ApproveSimulates
<1>7. CASE Enable \/ Disable \/ ForecastByHand
  BY <1>7, QuietStep DEF Enable, Disable, ForecastByHand, ledger, platform
<1>8. ASSUME NEW m \in posted, Land(m) \/ Lose(m)
      PROVE  UNCHANGED Promise!vars
  BY <1>8, QuietStep DEF Land, Lose, ledger
<1> QED
  BY <1>1, <1>2, <1>3, <1>4, <1>5, <1>6, <1>7, <1>8 DEF Next

\* Without release-key, five commands over one ledger, crashes and a platform
\* that answers late implement the promise of one claim, one sending and one
\* verdict.
THEOREM SubmissionImplementsPostOnce ==
  ASSUME ReleaseRule = "never"
  PROVE  Spec => ImplementsPostOnce
<1>1. Init => Promise!Init
  BY DEF Init, Promise!Init, ClaimedRecords, SentRecords, Verdict, Unreleased, Reservations
<1>2. Spec => []Inductive
  BY InductiveHolds
<1>3. Inductive /\ [Next]_vars => [Promise!Next]_Promise!vars
  BY StepSimulates
<1> QED
  BY <1>1, <1>2, <1>3, PTL DEF Spec, ImplementsPostOnce, Promise!Spec
=============================================================================
