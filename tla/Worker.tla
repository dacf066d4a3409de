------------------------------- MODULE Worker -------------------------------
(***************************************************************************)
(* The tournament worker: one poll at a time takes every open question     *)
(* through its gates, attempts a forecast, records it, posts it, reads it  *)
(* back and publishes its private comment, and first recovers whatever an  *)
(* earlier poll left unfinished.  Attempts are counted in checkpoint       *)
(* windows, per question fingerprint and per activation.  The worker may   *)
(* die between any two steps, the question may be edited or close, the     *)
(* operator may enable a new activation while a poll runs, and the ledger  *)
(* may be restored from a backup.                                          *)
(*                                                                         *)
(* Sources: tournament.py (run_once, complete_comment, reconcile_forecast  *)
(* and the helpers of the retry policy), restore.py.                       *)
(*                                                                         *)
(* Simplifications.                                                        *)
(*  - A fingerprint is the version of the question it was computed from.   *)
(*  - Of the clock only the age of the newest checkpoint is kept; a        *)
(*    checkpoint's instant is its place among the question's checkpoints.  *)
(*  - What an attempt buys, and a reservation it may leave unknown, are    *)
(*    Spending's; how a POST races a manual submission is Submission's.    *)
(*  - A restore and the reconcile-restored that must follow it, under the  *)
(*    worker's lock, are one step.                                         *)
(*  - Comment ids and receipts are not kept: one marker, one comment.      *)
(*  - All of it under one tournament project.                              *)
(***************************************************************************)
EXTENDS Integers, Sequences, FiniteSets

CONSTANTS
    Questions,     \* the questions, numbered in the order they close
    Versions,      \* the versions the platform may show of a question
    Window,        \* how many ticks a checkpoint stays current
    MaxQuestions,  \* run_limits.max_questions
    MaxAttempts,   \* MAX_TRANSIENT_ATTEMPTS, 3 in the code
    MaxActs,       \* bound on `tournament enable`
    MaxEdits,      \* bound on edits, over all questions
    MaxDeaths,     \* bound on the polls that die
    MaxRestores,   \* bound on restores
    None           \* no record, no question in hand, no backup

ASSUME BoundsAreNumbers ==
    /\ Window \in Nat
    /\ MaxQuestions \in Nat
    /\ MaxAttempts \in Nat
    /\ MaxActs \in Nat
    /\ MaxEdits \in Nat
    /\ MaxDeaths \in Nat
    /\ MaxRestores \in Nat
ASSUME QuestionsAreNumbered == Questions \subseteq Nat
ASSUME NoneIsNoValue == None \notin Versions /\ None \notin Questions

Acts == 1 .. MaxActs
Keys == [fp : Versions, act : Acts]     \* what an attempt is counted under
Rows == [at : Keys, reason : {"exhausted", "deterministic"}]
Waits == [row : Nat, key : Keys]

VARIABLES
    ledger,     \* the journal and the forecast records
    backup,     \* a copy of them, or None
    guards,     \* questions with a forecast intent in the host guard
    version,    \* what the platform shows of each question
    open,       \* the question closes in more than five minutes
    forecast,   \* what became of its forecast POST
    comments,   \* its comments: delayed, and visible
    pc,         \* where the worker is
    poll,       \* what the running poll holds in memory
    age,        \* ticks since the newest checkpoint, up to Window + 1
    minted,     \* activations enabled so far
    edits,      \* edits so far
    deaths,     \* polls that died so far
    restores,   \* restores so far
    sent,       \* history: forecast and comment POSTs made
    paid        \* history: attempts that ended as a provider or model failure

store == <<ledger, backup, guards>>
question == <<version, open>>
platform == <<forecast, comments>>
worker == <<pc, poll>>
counts == <<minted, edits, deaths, restores>>
history == <<sent, paid>>
vars == <<store, question, platform, worker, age, counts, history>>

-----------------------------------------------------------------------------
LedgerType ==
    [act          : 0 .. MaxActs,                     \* newest activation
     started      : [Questions -> Seq(Keys)],         \* question_started
     waits        : [Questions -> SUBSET Waits],      \* retry_wait
     blocked      : [Questions -> Seq(Rows)],         \* question_blocked
     record       : [Questions -> Versions \cup {None}],  \* forecast_records
     intent       : [Questions -> BOOLEAN],           \* forecast_intent
     refused      : [Questions -> BOOLEAN],           \* a 4xx answer on file
     confirmed    : [Questions -> BOOLEAN],           \* forecast_confirmed
     commenting   : [Questions -> BOOLEAN],           \* comment_intent
     commented    : [Questions -> BOOLEAN],           \* comment_confirmed
     held         : [Questions -> BOOLEAN],           \* restored_question_hold
     spendingHeld : BOOLEAN]                          \* restored_spending_hold

PollType ==
    [act  : 0 .. MaxActs,                        \* the activation it read
     seen : [Questions -> Versions \cup {None}], \* the questions it fetched
     todo : SUBSET Questions,                    \* still to be taken up
     cur  : Questions \cup {None},               \* the one in hand
     room : 0 .. MaxQuestions]                   \* attempts it may still make

TypeOK ==
    /\ ledger \in LedgerType
    /\ backup \in LedgerType \cup {None}
    /\ guards \in SUBSET Questions
    /\ version \in [Questions -> Versions]
    /\ open \in [Questions -> BOOLEAN]
    /\ forecast \in [Questions ->
                       {"none", "delayed", "up", "lost", "refused"}]
    /\ comments \in [Questions -> [delayed : Nat, up : Nat]]
    /\ pc \in {"idle", "recover", "gate", "attempt", "post", "send",
               "refusal", "verify", "comment", "publish"}
    /\ poll \in PollType
    /\ pc \notin {"idle", "recover", "gate"} => poll.cur \in Questions
    /\ pc \in {"attempt", "post", "send"} => poll.seen[poll.cur] \in Versions
    /\ age \in [Questions -> 0 .. Window + 1]
    /\ minted \in 0 .. MaxActs
    /\ edits \in 0 .. MaxEdits
    /\ deaths \in 0 .. MaxDeaths
    /\ restores \in 0 .. MaxRestores
    /\ sent \in [Questions -> [forecast : Nat, comment : Nat]]
    /\ paid \in [Questions -> [Keys -> Nat]]

NoPoll == [act |-> 0, seen |-> [q \in Questions |-> None], todo |-> {},
           cur |-> None, room |-> 0]

Never == [q \in Questions |-> FALSE]

Init ==
    /\ ledger = [act |-> 0,
                 started |-> [q \in Questions |-> <<>>],
                 waits |-> [q \in Questions |-> {}],
                 blocked |-> [q \in Questions |-> <<>>],
                 record |-> [q \in Questions |-> None],
                 intent |-> Never, refused |-> Never, confirmed |-> Never,
                 commenting |-> Never, commented |-> Never, held |-> Never,
                 spendingHeld |-> FALSE]
    /\ backup = None
    /\ guards = {}
    /\ version \in [Questions -> Versions]
    /\ open = [q \in Questions |-> TRUE]
    /\ forecast = [q \in Questions |-> "none"]
    /\ comments = [q \in Questions |-> [delayed |-> 0, up |-> 0]]
    /\ pc = "idle"
    /\ poll = NoPoll
    /\ age = [q \in Questions |-> Window + 1]
    /\ minted = 0
    /\ edits = 0
    /\ deaths = 0
    /\ restores = 0
    /\ sent = [q \in Questions |-> [forecast |-> 0, comment |-> 0]]
    /\ paid = [q \in Questions |-> [k \in Keys |-> 0]]

-----------------------------------------------------------------------------
(* Polls and recovery. *)

\* The poll is in its recovery loop until it has fetched the questions.
Recovering == poll.seen = NoPoll.seen

Done(q) == poll' = [poll EXCEPT !.todo = @ \ {q}, !.cur = None]

\* A question the worker gives up on for this poll.
Leave(q) ==
    /\ poll.cur = q
    /\ Done(q)
    /\ pc' = IF Recovering THEN "recover" ELSE "gate"

\* Mutant of BeginPoll: only open questions are recovered.
XBeginPoll ==
    /\ pc = "idle"
    /\ ledger.act > 0
    /\ pc' = "recover"
    /\ poll' = [NoPoll EXCEPT !.act = ledger.act,
                 !.todo = {q \in Questions : ledger.intent[q] /\ open[q]}]
    /\ UNCHANGED <<store, question, platform, age, counts, history>>

BeginPoll ==
    /\ pc = "idle"
    /\ ledger.act > 0
    /\ pc' = "recover"
    /\ poll' = [NoPoll EXCEPT !.act = ledger.act,
                              !.todo = {q \in Questions : ledger.intent[q]}]
    /\ UNCHANGED <<store, question, platform, age, counts, history>>

Settled(q) == ledger.commented[q] \/ ledger.refused[q]

Recover(q) ==
    /\ pc = "recover"
    /\ q \in poll.todo
    /\ IF Settled(q)
       THEN Done(q) /\ UNCHANGED pc
       ELSE poll' = [poll EXCEPT !.cur = q] /\ pc' = "verify"
    /\ UNCHANGED <<store, question, platform, age, counts, history>>

\* Under a restored spending hold the poll ends with the recovery loop.
BeginQuestions ==
    /\ pc = "recover"
    /\ poll.todo = {}
    /\ IF ledger.spendingHeld
       THEN pc' = "idle" /\ poll' = NoPoll
       ELSE /\ pc' = "gate"
            /\ poll' = [poll EXCEPT !.seen = version,
                                    !.todo = {q \in Questions : open[q]},
                                    !.room = MaxQuestions]
    /\ UNCHANGED <<store, question, platform, age, counts, history>>

-----------------------------------------------------------------------------
(* The gates of a question. *)

Key(q) == [fp |-> poll.seen[q], act |-> poll.act]

Blocked(q, key) ==
    \E i \in DOMAIN ledger.blocked[q] : ledger.blocked[q][i].at = key

Count(checkpoints, key) ==
    Cardinality({i \in DOMAIN checkpoints : checkpoints[i] = key})

Attempts(q, key) == Count(ledger.started[q], key)

\* Mutant of Current: a checkpoint never expires.
XCurrent(q) ==
    LET n == Len(ledger.started[q])
    IN  n > 0 /\ ledger.started[q][n].fp = poll.seen[q]

\* The newest checkpoint is of this version and has not expired; under which
\* activation it was written is not asked.
Current(q) ==
    LET n == Len(ledger.started[q])
    IN  /\ n > 0
        /\ ledger.started[q][n].fp = poll.seen[q]
        /\ age[q] <= Window

Waiting(q) ==
    /\ Current(q)
    /\ [row |-> Len(ledger.started[q]), key |-> Key(q)] \in ledger.waits[q]

\* Mutant of Barred: the recorded verdicts are not read.
XBarred(q) == ~open[q] \/ ledger.held[q]

Barred(q) == ~open[q] \/ ledger.held[q] \/ Blocked(q, Key(q))

Spent(q) == Attempts(q, Key(q)) >= MaxAttempts

Exhausted(q) == ~Barred(q) /\ Spent(q)

\* Reads the account's forecasts of the question last.
Eligible(q) ==
    /\ ~Barred(q)
    /\ ~Spent(q)
    /\ ~Waiting(q)
    /\ ~ledger.intent[q]
    /\ forecast[q] # "up"

\* Questions are taken in the order they close.
Reached(q) ==
    /\ pc = "gate"
    /\ q \in poll.todo
    /\ \A r \in poll.todo : q <= r

Block(q, reason) ==
    ledger' = [ledger EXCEPT !.blocked[q] =
                 Append(@, [at |-> Key(q), reason |-> reason])]

Exhaust(q) ==
    /\ Reached(q)
    /\ Exhausted(q)
    /\ Block(q, "exhausted")
    /\ Done(q)
    /\ UNCHANGED <<backup, guards, question, platform, pc, age, counts,
                   history>>

\* Declined by a gate, or the platform's history could not be read.
Skip(q) ==
    /\ Reached(q)
    /\ ~Exhausted(q)
    /\ Done(q)
    /\ UNCHANGED <<store, question, platform, pc, age, counts, history>>

NoRoom ==
    /\ poll.room = 0
    /\ \E q \in poll.todo : Reached(q) /\ Eligible(q)

\* No question is left, or the next one would be an attempt too many.
EndPoll ==
    /\ pc = "gate"
    /\ poll.todo = {} \/ NoRoom
    /\ pc' = "idle"
    /\ poll' = NoPoll
    /\ UNCHANGED <<store, question, platform, age, counts, history>>

TakeUp(q) ==
    /\ Reached(q)
    /\ Eligible(q)
    /\ poll.room > 0
    /\ poll' = [poll EXCEPT !.cur = q, !.room = @ - 1]

\* A forecast recorded earlier and never posted: nothing is bought.
Resume(q) ==
    /\ ledger.record[q] # None
    /\ TakeUp(q)
    /\ pc' = "post"
    /\ UNCHANGED <<store, question, platform, age, counts, history>>

OpenWindow(q) ==
    /\ ledger.record[q] = None
    /\ ~Current(q)
    /\ TakeUp(q)
    /\ pc' = "attempt"
    /\ ledger' = [ledger EXCEPT !.started[q] = Append(@, Key(q))]
    /\ age' = [age EXCEPT ![q] = 0]
    /\ UNCHANGED <<backup, guards, question, platform, counts, history>>

ReuseWindow(q) ==
    /\ ledger.record[q] = None
    /\ Current(q)
    /\ TakeUp(q)
    /\ pc' = "attempt"
    /\ UNCHANGED <<store, question, platform, age, counts, history>>

-----------------------------------------------------------------------------
(* How an attempt ends.  A storage failure is a death of the poll. *)

Attempting(q) == pc = "attempt" /\ poll.cur = q

Record(q) ==
    /\ Attempting(q)
    /\ ledger' = [ledger EXCEPT !.record[q] = poll.seen[q]]
    /\ pc' = "post"
    /\ UNCHANGED <<backup, guards, question, platform, poll, age, counts,
                   history>>

\* Mutant of Pace: the failure does not end the window.
XPace(q) ==
    /\ Attempting(q)
    /\ paid' = [paid EXCEPT ![q][Key(q)] = @ + 1]
    /\ Leave(q)
    /\ UNCHANGED <<store, question, platform, age, counts, sent>>

\* A provider or the model failed: the window is not attempted again.
Pace(q) ==
    /\ Attempting(q)
    /\ ledger' = [ledger EXCEPT !.waits[q] =
                    @ \cup {[row |-> Len(ledger.started[q]),
                             key |-> Key(q)]}]
    /\ paid' = [paid EXCEPT ![q][Key(q)] = @ + 1]
    /\ Leave(q)
    /\ UNCHANGED <<backup, guards, question, platform, age, counts, sent>>

\* The same question would fail the same way again.
Refuse(q) ==
    /\ Attempting(q)
    /\ Block(q, "deterministic")
    /\ Leave(q)
    /\ UNCHANGED <<backup, guards, question, platform, age, counts, history>>

\* No money for it, or its eight minutes are over.
Fail(q) ==
    /\ Attempting(q)
    /\ Leave(q)
    /\ UNCHANGED <<store, question, platform, age, counts, history>>

-----------------------------------------------------------------------------
(* Approval, submission and the refetch. *)

\* The approval, the policy or the platform refuses before anything is sent;
\* always so when the question has changed since the record was made.
Withhold(q) ==
    /\ pc = "post"
    /\ Leave(q)
    /\ UNCHANGED <<store, question, platform, age, counts, history>>

Intend(q) ==
    /\ pc = "post"
    /\ poll.cur = q
    /\ ledger.record[q] = poll.seen[q]
    /\ version[q] = ledger.record[q]
    /\ ~ledger.intent[q]
    /\ ~ledger.held[q]
    /\ forecast[q] # "up"
    /\ ledger' = [ledger EXCEPT !.intent[q] = TRUE]
    /\ guards' = guards \cup {q}
    /\ pc' = "send"
    /\ UNCHANGED <<backup, question, platform, poll, age, counts, history>>

Send(q) ==
    /\ pc = "send"
    /\ poll.cur = q
    /\ \E end \in {"delayed", "up", "lost", "refused"} :
          /\ forecast' = [forecast EXCEPT ![q] = end]
          /\ pc' = IF end = "refused" THEN "refusal" ELSE "verify"
    /\ sent' = [sent EXCEPT ![q].forecast = @ + 1]
    /\ UNCHANGED <<store, question, comments, poll, age, counts, paid>>

RecordRefusal(q) ==
    /\ pc = "refusal"
    /\ ledger' = [ledger EXCEPT !.refused[q] = TRUE]
    /\ Leave(q)
    /\ UNCHANGED <<backup, guards, question, platform, age, counts, history>>

Verify(q) ==
    /\ pc = "verify"
    /\ poll.cur = q
    /\ ledger.intent[q]
    /\ forecast[q] = "up"
    /\ ledger' = [ledger EXCEPT !.confirmed[q] = TRUE]
    /\ pc' = "comment"
    /\ UNCHANGED <<backup, guards, question, platform, poll, age, counts,
                   history>>

\* It is not there yet, or the platform could not be read.
Unverified(q) ==
    /\ pc = "verify"
    /\ Leave(q)
    /\ UNCHANGED <<store, question, platform, age, counts, history>>

-----------------------------------------------------------------------------
(* The private comment. *)

FindComment(q) ==
    /\ pc = "comment"
    /\ comments[q].up = 1
    /\ ledger' = [ledger EXCEPT !.commented[q] = TRUE]
    /\ Leave(q)
    /\ UNCHANGED <<backup, guards, question, platform, age, counts, history>>

\* Two comments carry the marker, a request already made has not shown, or
\* the platform could not be read.
LeaveComment(q) ==
    /\ pc = "comment"
    /\ Leave(q)
    /\ UNCHANGED <<store, question, platform, age, counts, history>>

IntendComment(q) ==
    /\ pc = "comment"
    /\ poll.cur = q
    /\ ledger.confirmed[q]
    /\ comments[q].up = 0
    /\ ~ledger.commenting[q]
    /\ ~ledger.spendingHeld
    /\ ledger' = [ledger EXCEPT !.commenting[q] = TRUE]
    /\ pc' = "publish"
    /\ UNCHANGED <<backup, guards, question, platform, poll, age, counts,
                   history>>

\* Answered, it is looked for at once.
Publish(q) ==
    /\ pc = "publish"
    /\ poll.cur = q
    /\ sent' = [sent EXCEPT ![q].comment = @ + 1]
    /\ \/ /\ comments' = [comments EXCEPT ![q].up = @ + 1]
          /\ pc' = "comment"
          /\ UNCHANGED poll
       \/ /\ comments' = [comments EXCEPT ![q].delayed = @ + 1]
          /\ Leave(q)
    /\ UNCHANGED <<store, question, forecast, age, counts, paid>>

-----------------------------------------------------------------------------
(* What happens to the worker. *)

\* Killed, out of disk, or stopped by a storage failure.
Die ==
    /\ pc # "idle"
    /\ deaths < MaxDeaths
    /\ deaths' = deaths + 1
    /\ pc' = "idle"
    /\ poll' = NoPoll
    /\ UNCHANGED <<store, question, platform, age, minted, edits, restores,
                   history>>

Edit(q) ==
    /\ edits < MaxEdits
    /\ edits' = edits + 1
    /\ \E v \in Versions \ {version[q]} :
          version' = [version EXCEPT ![q] = v]
    /\ UNCHANGED <<store, open, platform, worker, age, minted, deaths, restores,
                   history>>

Close(q) ==
    /\ open[q]
    /\ open' = [open EXCEPT ![q] = FALSE]
    /\ UNCHANGED <<store, version, platform, worker, age, counts, history>>

Land(q) ==
    /\ forecast[q] = "delayed"
    /\ \E end \in {"up", "lost"} :
          forecast' = [forecast EXCEPT ![q] = end]
    /\ UNCHANGED <<store, question, comments, worker, age, counts, history>>

LandComment(q) ==
    /\ comments[q].delayed > 0
    /\ \E n \in {0, 1} :
          comments' = [comments EXCEPT ![q].delayed = @ - 1, ![q].up = @ + n]
    /\ UNCHANGED <<store, question, forecast, worker, age, counts, history>>

Tick ==
    /\ \E q \in Questions : age[q] <= Window
    /\ age' = [q \in Questions |->
                 IF age[q] <= Window THEN age[q] + 1 ELSE age[q]]
    /\ UNCHANGED <<store, question, platform, worker, counts, history>>

\* `tournament enable` does not take the worker's lock.
Enable ==
    /\ minted < MaxActs
    /\ minted' = minted + 1
    /\ ledger' = [ledger EXCEPT !.act = minted + 1]
    /\ UNCHANGED <<backup, guards, question, platform, worker, age, edits,
                   deaths, restores, history>>

\* The operator stops the worker first.
Backup ==
    /\ pc = "idle"
    /\ restores < MaxRestores
    /\ ledger.act > 0
    /\ backup' = ledger
    /\ UNCHANGED <<ledger, guards, question, platform, worker, age, counts,
                   history>>

Older(now) ==
    {older \in [Questions -> 0 .. Window + 1] :
       \A q \in Questions :
          IF backup.started[q] = ledger.started[q]
          THEN older[q] = now[q]
          ELSE older[q] >= now[q]}

\* Mutant of Restore: a lost forecast intent does not hold its question.
XRestore ==
    /\ pc = "idle"
    /\ backup # None
    /\ restores < MaxRestores
    /\ restores' = restores + 1
    /\ \E spent \in BOOLEAN :
          ledger' = [backup EXCEPT !.spendingHeld = @ \/ spent]
    /\ age' \in Older(age)
    /\ UNCHANGED <<backup, guards, question, platform, worker, minted, edits,
                   deaths, history>>

\* A question whose forecast intent the restore lost is held; spending is
\* held if it lost a purchase.  A comment intent in the guard holds nothing.
Restore ==
    /\ pc = "idle"
    /\ backup # None
    /\ restores < MaxRestores
    /\ restores' = restores + 1
    /\ \E spent \in BOOLEAN :
          ledger' =
            [backup EXCEPT
               !.held = [q \in Questions |->
                           @[q] \/ (q \in guards /\ ~backup.intent[q])],
               !.spendingHeld = @ \/ spent]
    /\ age' \in Older(age)
    /\ UNCHANGED <<backup, guards, question, platform, worker, minted, edits,
                   deaths, history>>

Work(q) ==
    \/ Recover(q) \/ Exhaust(q) \/ Skip(q)
    \/ Resume(q) \/ OpenWindow(q) \/ ReuseWindow(q)
    \/ Record(q) \/ Pace(q) \/ Refuse(q) \/ Fail(q)
    \/ Withhold(q) \/ Intend(q) \/ Send(q) \/ RecordRefusal(q)
    \/ Verify(q) \/ Unverified(q)
    \/ FindComment(q) \/ LeaveComment(q) \/ IntendComment(q) \/ Publish(q)

Poll == BeginPoll \/ BeginQuestions \/ EndPoll

Next ==
    \/ Poll \/ Die \/ Tick \/ Enable \/ Backup \/ Restore
    \/ \E q \in Questions :
          Work(q) \/ Edit(q) \/ Close(q) \/ Land(q) \/ LandComment(q)

Spec == Init /\ [][Next]_vars

(* The timer starts a poll every five minutes, a phase limit ends every    *)
(* step of one, and time passes.  Reads of the platform and attempts that  *)
(* are possible again and again succeed, or are made, in the end.          *)
FairSpec ==
    /\ Spec
    /\ WF_vars(Tick)
    /\ WF_vars(Poll)
    /\ \A q \in Questions :
          /\ WF_vars(Work(q))
          /\ SF_vars(OpenWindow(q))
          /\ SF_vars(Verify(q))
          /\ SF_vars(IntendComment(q))

-----------------------------------------------------------------------------
(* Properties. *)

\* However often the worker dies or the ledger is restored, no question is
\* forecast on the platform by a second POST: the intent and, once a restore
\* has lost it, the hold imported from the guard stand in the way
\* (tournament.py:1140-1156, restore.py:64-84).
OneForecast == \A q \in Questions : sent[q].forecast <= 1

\* Nor is a comment requested more than once, and once for each restore that may
\* have lost the intent, though its answer may be lost and the worker die at any
\* step (tournament.py:506-569).
OneComment == \A q \in Questions : sent[q].comment <= 1 + restores

\* A comment is published only for a forecast that the platform shows, never
\* for one that was refused, lost or is still on its way
\* (tournament.py:368-435, 514).
CommentFollowsForecast ==
    \A q \in Questions : sent[q].comment > 0 => forecast[q] = "up"

\* Edits, activations and deaths interleaved, no version of a question opens
\* more than MaxAttempts checkpoint windows under one activation
\* (tournament.py:97-103, 1109-1132).
WindowsAreBounded ==
    \A q \in Questions, k \in Keys : Attempts(q, k) <= MaxAttempts

\* A failure of a provider or the model ends its window, so while no ledger is
\* restored one version of a question fails so at most once a window: its own,
\* and the one it may inherit from the activation before
\* (tournament.py:136-188).
FailuresAreBounded ==
    restores = 0 =>
      \A q \in Questions, k \in Keys : paid[q][k] <= MaxAttempts + 1

\* A verdict is recorded exactly once (tournament.py:1111-1115), and while it
\* stands the question is not bought for again under the same activation
\* (tournament.py:258).
VerdictsStand ==
    [][\A q \in Questions, k \in Keys :
          Blocked(q, k) =>
            /\ paid'[q][k] = paid[q][k]
            /\ \A i, j \in DOMAIN ledger'.blocked[q] :
                  /\ ledger'.blocked[q][i].at = k
                  /\ ledger'.blocked[q][j].at = k
                  => i = j]_vars

\* Said of failures after the forecast is recorded: they "must be retried on
\* the very next poll by the recovery path" (M1-NOTES.md:14324-14325).  The
\* last attempt's forecast, not posted at once, is blocked with the question.
RecordedIsNotExhausted ==
    \A q \in Questions : \A i \in DOMAIN ledger.blocked[q] :
        LET row == ledger.blocked[q][i]
        IN  row.reason = "exhausted" =>
              ledger.record[q] # row.at.fp \/ ledger.intent[q]

\* Under an activation every question is in the end forecast, blocked as the
\* platform then shows it, or closed; the windows of the attempts that come
\* to nothing are what makes it so (tournament.py:1167-1195).  Of a question
\* that no other keeps from its turn: the room of a poll can be taken, poll
\* after poll, by one whose record is withheld (tournament.py:1157).
QuestionsAreDecided ==
    \A q \in Questions :
        minted > 0 ~> \/ ledger.record[q] # None
                      \/ Blocked(q, [fp |-> version[q], act |-> ledger.act])
                      \/ ~open[q]

\* A forecast the platform shows gets its comment, or at least the one
\* request for it, even if it arrived late, the question closed or the worker
\* died in between (tournament.py:988-1009).
ForecastsAreCommented ==
    \A q \in Questions :
        forecast[q] = "up" ~> ledger.commenting[q]
=============================================================================
