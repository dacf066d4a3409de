------------------------------ MODULE Spending ------------------------------
(***************************************************************************)
(* The paid calls of the tournament worker: every request to a model or a  *)
(* retrieval provider is reserved at a conservative estimate against the   *)
(* project's ceiling, the series' ceiling and the AskNews sub-cap,         *)
(* witnessed on disk, sent, recorded, and settled at its real cost.  The   *)
(* worker may die or hit its wall-clock limit between any two of these     *)
(* steps, the ledger may be restored from a backup, and `correct-costs`    *)
(* writes the same journal without the worker's lock.                      *)
(*                                                                         *)
(* Sources: tournament_state.py (Budget, spending, series_spending,        *)
(* correct_costs, check_storage, witness), forecast/priced.py,             *)
(* research/durable.py, follow.py, restore.py, the frame of                *)
(* tournament.run_once and the never-fatal arms it calls.                  *)
(*                                                                         *)
(* Simplifications.                                                        *)
(*  - A call is one (scope, request digest); its nth reservation, with an  *)
(*    identifier never used before, is <<call, n>>.                        *)
(*  - Amounts are small numbers of micro-USD; rounding up is done.         *)
(*  - One series is in force and every activation is bound under it.       *)
(*  - A provider charges once, at most the bound in the request.           *)
(*  - The guard directory outlives every restore, as the operator is told. *)
(***************************************************************************)
EXTENDS Totals

CONSTANTS
    Calls,            \* the distinct paid requests
    Projects,         \* Metaculus project ids, in the order they are created
    ProjectOf,        \* the project a call is made for
    ProviderOf,       \* its provider
    EstimateOf,       \* its estimate
    Ceiling,          \* each project's ceiling
    SeriesCeiling,    \* the ceiling across the series' projects
    NewsCeiling,      \* the AskNews share of it
    Understated,      \* calls an earlier version settled at zero
    MaxReservations,  \* bound on reservations of one call
    MaxRestores,      \* bound on restores from a backup
    None,             \* no row, no reservation in hand, no backup
    Unpriced          \* an answer that does not say what it cost

ASSUME ProjectsAreIds == Projects \subseteq Nat /\ Projects # {}
ASSUME CallsAreDescribed ==
    /\ IsFiniteSet(Calls)
    /\ ProjectOf \in [Calls -> Projects]
    /\ ProviderOf \in [Calls -> {"openrouter", "asknews", "exa"}]
    /\ EstimateOf \in [Calls -> Nat \ {0}]
ASSUME CeilingsAreAmounts ==
    /\ Ceiling \in [Projects -> Nat]
    /\ SeriesCeiling \in Nat
    /\ NewsCeiling \in Nat
ASSUME BoundsAreNumbers == MaxReservations \in Nat /\ MaxRestores \in Nat
ASSUME MarksAreNotAmounts ==
    /\ None \notin Nat
    /\ Unpriced \notin Nat
    /\ None # Unpriced
    /\ None \notin Calls \X (1 .. MaxReservations)

\* Bought on the operator's own provider key, whose cost an earlier version
\* read as zero.
ASSUME UnderstatedAreModelCalls ==
    /\ Understated \subseteq Calls
    /\ \A c \in Understated : ProviderOf[c] = "openrouter"
    /\ Understated # {} => MaxReservations > 0

VARIABLES
    store,      \* the ledger and the artifact directory, backed up together
    guard,      \* files in the posting-guard directory
    saved,      \* the latest backup of store
    restores,   \* restores so far
    minted,     \* reservation identifiers generated so far
    sent,       \* reservations whose request left the host
    charge,     \* what the provider charged for each
    pc,         \* next step of the process that holds the worker lock
    arm,        \* the part of a question it is in
    cur,        \* the reservation in its hands
    reply,      \* the cost the answer states
    zeros,      \* corrections `correct-costs` has decided to write
    credits     \* AskNews settlements it has decided to write

worker == <<pc, arm, cur, reply>>
provider == <<sent, charge>>
operator == <<zeros, credits>>
vars == <<store, guard, saved, restores, minted, provider, worker, operator>>

-----------------------------------------------------------------------------
Reservations == Calls \X (1 .. MaxReservations)
CallOf(r) == r[1]
Amounts == Nat
Arms == {"question", "side"}
Buying == {"row", "ops", "guard", "start", "send", "wait", "complete",
           "respond", "settle"}
Restoring == {"reconcile", "hold", "file", "import"}

StoreType ==
    [rows      : [Reservations -> 0 .. 1],               \* cost_reserved rows
     stamped   : SUBSET Reservations,                    \* ... with a series_id
     settled   : [Reservations -> Amounts \cup {None}],  \* cost_settled
     corrected : [Reservations -> Amounts \cup {None}],  \* cost_corrected
     witness   : SUBSET Reservations,                    \* witness rows
     ops       : SUBSET Reservations,                    \* operations/*.json
     started   : [Calls -> Reservations \cup {None}],    \* *_started rows
     completed : [Calls -> Amounts \cup {None, Unpriced}],      \* *_completed
     response  : [Reservations -> Amounts \cup {None, Unpriced}], \* model_response
     held      : SUBSET Reservations,          \* restored_spending_hold rows
     project   : Projects]                     \* the newest activation's

Priced == Reservations \X Amounts

TypeOK ==
    /\ store \in StoreType
    /\ guard \in SUBSET Reservations
    /\ saved \in StoreType \cup {None}
    /\ restores \in 0 .. MaxRestores
    /\ minted \in SUBSET Reservations
    /\ sent \in SUBSET Reservations
    /\ charge \in [Reservations -> Amounts \cup {None}]
    /\ pc \in {"idle", "poll"} \cup Arms \cup Buying \cup Restoring
    /\ arm \in Arms
    /\ cur \in Reservations \cup {None}
    /\ pc \in Buying \cup {"hold", "file", "import"} => cur \in Reservations
    /\ reply \in Amounts \cup {None, Unpriced}
    /\ zeros \in SUBSET Priced
    /\ credits \in SUBSET Priced

\* A call an earlier version bought and settled at zero.
Old(c) == <<c, 1>>
OldReservations == {Old(c) : c \in Understated}

Init ==
    /\ store =
         [rows      |-> [r \in Reservations |-> IF r \in OldReservations THEN 1 ELSE 0],
          stamped   |-> OldReservations,
          settled   |-> [r \in Reservations |-> IF r \in OldReservations THEN 0 ELSE None],
          corrected |-> [r \in Reservations |-> None],
          witness   |-> OldReservations,
          ops       |-> OldReservations,
          started   |-> [c \in Calls |-> IF c \in Understated THEN Old(c) ELSE None],
          completed |-> [c \in Calls |-> IF c \in Understated THEN Unpriced ELSE None],
          response  |-> [r \in Reservations |-> IF r \in OldReservations
                                                THEN EstimateOf[CallOf(r)] ELSE None],
          held      |-> {},
          project   |-> CHOOSE p \in Projects : \A q \in Projects : p <= q]
    /\ guard = OldReservations
    /\ saved = None /\ restores = 0
    /\ minted = OldReservations
    /\ sent = OldReservations
    /\ charge = [r \in Reservations |-> IF r \in OldReservations
                                        THEN EstimateOf[CallOf(r)] ELSE None]
    /\ pc = "idle" /\ arm = "question"
    /\ cur = None /\ reply = None
    /\ zeros = {} /\ credits = {}

-----------------------------------------------------------------------------
(* What the journal says was spent.                                        *)

\* A correction only ever raises a settled amount.
Paid(s, r) ==
    IF s.corrected[r] # None /\ s.corrected[r] > s.settled[r]
    THEN s.corrected[r] ELSE s.settled[r]

\* A reservation counts at its estimate until it is settled.
Cost(s, r) == IF s.settled[r] # None
              THEN Paid(s, r) ELSE s.rows[r] * EstimateOf[CallOf(r)]

Used(s, R) == Total([r \in R |-> Cost(s, r)])

OfProject(p) == {r \in Reservations : ProjectOf[CallOf(r)] = p}
OfNews == {r \in Reservations : ProviderOf[CallOf(r)] = "asknews"}

\* Mutant of Fits: only what has been billed counts.
Actual(s, R) == Used(s, {r \in R : s.settled[r] # None})

XFits(s, c) ==
    /\ Actual(s, OfProject(s.project)) + EstimateOf[c] <= Ceiling[s.project]
    /\ Actual(s, s.stamped) + EstimateOf[c] <= SeriesCeiling
    /\ ProviderOf[c] = "asknews" =>
          Actual(s, s.stamped \cap OfNews) + EstimateOf[c] <= NewsCeiling

\* The three ceilings, each read in the reserving transaction.
Fits(s, c) ==
    /\ Used(s, OfProject(s.project)) + EstimateOf[c] <= Ceiling[s.project]
    /\ Used(s, s.stamped) + EstimateOf[c] <= SeriesCeiling
    /\ ProviderOf[c] = "asknews" =>
          Used(s, s.stamped \cap OfNews) + EstimateOf[c] <= NewsCeiling

\* require_spending_clear.
SpendingClear(s, p) == s.held \cap OfProject(p) = {}

\* check_storage: each file has its row and each row its two files.
Whole == /\ store.ops \cup guard \subseteq store.witness
         /\ store.witness \subseteq store.ops \cap guard

\* An identifier nobody has used.
Fresh(c) == {r \in Reservations :
               /\ CallOf(r) = c
               /\ r \notin minted
               /\ \A n \in 1 .. (r[2] - 1) : <<c, n>> \in minted}

-----------------------------------------------------------------------------
(* The frame of a poll.                                                    *)

Free == pc = "idle"

Step(from, to) ==
    /\ pc = from
    /\ pc' = to

\* The locals of a call that ended.
Drop == cur' = None /\ reply' = None

\* follow: a newer project of the series is bound while the series has room.
Rebind(p) ==
    /\ Free
    /\ p > store.project
    /\ Used(store, store.stamped) < SeriesCeiling
    /\ store' = [store EXCEPT !.project = p]
    /\ UNCHANGED <<guard, saved, restores, minted, provider, worker, operator>>

\* require_activation checks the storage; a held project ends the poll early.
BeginPoll ==
    /\ Step("idle", "poll")
    /\ Whole
    /\ SpendingClear(store, store.project)
    /\ UNCHANGED <<store, guard, saved, restores, minted, provider, arm, cur, reply, operator>>

\* Each question checks the activation, with the storage, and the hold again.
BeginQuestion ==
    /\ Step("poll", "question")
    /\ Whole
    /\ SpendingClear(store, store.project)
    /\ UNCHANGED <<store, guard, saved, restores, minted, provider, arm, cur, reply, operator>>

\* The question is decided, or failed: the lens and the shadow arm follow it.
BeginSide ==
    /\ pc = "question"
    /\ pc' = "side" /\ arm' = "side"
    /\ UNCHANGED <<store, guard, saved, restores, minted, provider, cur, reply, operator>>

EndQuestion ==
    /\ pc = "side"
    /\ pc' = "poll" /\ arm' = "question"
    /\ UNCHANGED <<store, guard, saved, restores, minted, provider, cur, reply, operator>>

EndPoll ==
    /\ Step("poll", "idle")
    /\ UNCHANGED <<store, guard, saved, restores, minted, provider, arm, cur, reply, operator>>

-----------------------------------------------------------------------------
(* One paid call (PricedClient.invoke; begin_call and complete_call).      *)

\* cost_settled and its marker, once.
Settle(s, r, amount) ==
    IF s.settled[r] = None THEN [s EXCEPT !.settled[r] = amount] ELSE s

\* What a recorded outcome cost: the raw response where it was retained.
KnownCost(s, c) ==
    IF s.response[s.started[c]] # None THEN s.response[s.started[c]] ELSE s.completed[c]

\* A completed call is answered from the journal and settled.
Replay(c) ==
    /\ pc \in Arms
    /\ ProjectOf[c] = store.project
    /\ store.completed[c] # None
    /\ store' = IF KnownCost(store, c) \in Amounts
                THEN Settle(store, store.started[c], KnownCost(store, c))
                ELSE store
    /\ UNCHANGED <<guard, saved, restores, minted, provider, worker, operator>>

\* Mutant of Unasked: only a completed call counts as asked.
XUnasked(c) == store.completed[c] = None

\* A call with an unknown outcome is not repeated.
Unasked(c) == store.completed[c] = None /\ store.started[c] = None

Reserve(c) ==
    /\ pc \in Arms
    /\ ProjectOf[c] = store.project
    /\ Unasked(c)
    /\ SpendingClear(store, store.project)
    /\ Fits(store, c)
    /\ \E r \in Fresh(c) :
          /\ store' = [store EXCEPT !.rows[r] = @ + 1,
                                    !.stamped = @ \cup {r}]
          /\ minted' = minted \cup {r}
          /\ cur' = r
    /\ pc' = "row"
    /\ UNCHANGED <<guard, saved, restores, provider, arm, reply, operator>>

\* The witness, after the transaction: its row, then its two files.
WitnessRow ==
    /\ Step("row", "ops")
    /\ store' = [store EXCEPT !.witness = @ \cup {cur}]
    /\ UNCHANGED <<guard, saved, restores, minted, provider, arm, cur, reply, operator>>

WitnessOps ==
    /\ Step("ops", "guard")
    /\ store' = [store EXCEPT !.ops = @ \cup {cur}]
    /\ UNCHANGED <<guard, saved, restores, minted, provider, arm, cur, reply, operator>>

WitnessGuard ==
    /\ Step("guard", "start")
    /\ guard' = guard \cup {cur}
    /\ UNCHANGED <<store, saved, restores, minted, provider, arm, cur, reply, operator>>

\* model_started or retrieval_started.
Start ==
    /\ Step("start", "send")
    /\ store' = [store EXCEPT !.started[CallOf(cur)] = cur]
    /\ UNCHANGED <<guard, saved, restores, minted, provider, arm, cur, reply, operator>>

Send ==
    /\ Step("send", "wait")
    /\ sent' = sent \cup {cur}
    /\ UNCHANGED <<store, guard, saved, restores, minted, charge, arm, cur, reply, operator>>

\* The provider does the work, whether or not anyone still waits for it.
Charge(r) ==
    /\ r \in sent
    /\ charge[r] = None
    /\ \E a \in 1 .. EstimateOf[CallOf(r)] : charge' = [charge EXCEPT ![r] = a]
    /\ UNCHANGED <<store, guard, saved, restores, minted, sent, worker, operator>>

\* A usable answer, with or without its cost.
Answer ==
    /\ Step("wait", "complete")
    /\ charge[cur] # None
    /\ reply' \in {charge[cur], Unpriced}
    /\ UNCHANGED <<store, guard, saved, restores, minted, provider, arm, cur, operator>>

\* An error or an unusable body: the outcome is unknown and stays held.
NoAnswer ==
    /\ pc = "wait"
    /\ pc' = arm
    /\ Drop
    /\ UNCHANGED <<store, guard, saved, restores, minted, provider, arm, operator>>

\* model_completed or retrieval_completed; a model's raw response follows.
Complete ==
    /\ pc = "complete"
    /\ pc' = IF ProviderOf[CallOf(cur)] = "openrouter" THEN "respond" ELSE "settle"
    /\ store' = [store EXCEPT !.completed[CallOf(cur)] = reply]
    /\ UNCHANGED <<guard, saved, restores, minted, provider, arm, cur, reply, operator>>

Respond ==
    /\ Step("respond", "settle")
    /\ store' = [store EXCEPT !.response[cur] = reply]
    /\ UNCHANGED <<guard, saved, restores, minted, provider, arm, cur, reply, operator>>

SettleCall ==
    /\ pc = "settle"
    /\ pc' = arm
    /\ store' = IF reply \in Amounts THEN Settle(store, cur, reply) ELSE store
    /\ Drop
    /\ UNCHANGED <<guard, saved, restores, minted, provider, arm, operator>>

-----------------------------------------------------------------------------
(* What ends a call early.                                                 *)

\* The phase's wall-clock limit: the question fails and the poll goes on.
\* In the lens and the shadow arm every other failure ends the same way.
Interrupt ==
    /\ pc \in Arms \cup Buying
    /\ pc' = "side" /\ arm' = "side"
    /\ Drop
    /\ UNCHANGED <<store, guard, saved, restores, minted, provider, operator>>

\* The process dies, or a storage failure stops it.
Crash ==
    /\ ~Free
    /\ pc' = "idle" /\ arm' = "question"
    /\ Drop
    /\ UNCHANGED <<store, guard, saved, restores, minted, provider, operator>>

-----------------------------------------------------------------------------
(* `correct-costs`, which does not take the worker lock.                   *)

\* Settled at zero, not yet corrected, and the response says otherwise.
ZeroRows == {<<r, store.response[r]>> :
               r \in {x \in Reservations : /\ store.settled[x] = 0
                                           /\ store.corrected[x] = None
                                           /\ store.response[x] \in Amounts \ {0}}}

\* An AskNews call whose recorded answer states its credits.
CreditRows == {<<r, store.completed[CallOf(r)]>> :
               r \in {x \in OfNews : /\ store.rows[x] > 0
                                     /\ store.settled[x] = None
                                     /\ store.started[CallOf(x)] = x
                                     /\ store.completed[CallOf(x)] \in Amounts}}

ReadZeros ==
    /\ zeros = {} /\ credits = {}
    /\ ZeroRows # {}
    /\ zeros' = ZeroRows
    /\ UNCHANGED <<store, guard, saved, restores, minted, provider, worker, credits>>

\* Mutant of ReadCredits: with nothing to correct the command returns early.
XReadCredits ==
    /\ zeros = {} /\ credits = {}
    /\ ZeroRows # {} /\ CreditRows # {}
    /\ credits' = CreditRows
    /\ UNCHANGED <<store, guard, saved, restores, minted, provider, worker, zeros>>

\* The second list is read after the first one's corrections are written; a
\* zero settled since then is left to the next run.
ReadCredits ==
    /\ zeros = {} /\ credits = {}
    /\ CreditRows # {}
    /\ credits' = CreditRows
    /\ UNCHANGED <<store, guard, saved, restores, minted, provider, worker, zeros>>

\* Mutant of CorrectZero: the marker is read only before the transaction, and
\* the correction replaces the settlement.
XCorrectZero(m) ==
    /\ m \in zeros
    /\ zeros' = zeros \ {m}
    /\ store' = [store EXCEPT !.settled[m[1]] = m[2], !.corrected[m[1]] = m[2]]
    /\ UNCHANGED <<guard, saved, restores, minted, provider, worker, credits>>

CorrectZero(m) ==
    /\ m \in zeros
    /\ zeros' = zeros \ {m}
    /\ store' = IF store.corrected[m[1]] = None
                THEN [store EXCEPT !.corrected[m[1]] = m[2]] ELSE store
    /\ UNCHANGED <<guard, saved, restores, minted, provider, worker, credits>>

CorrectCredits(m) ==
    /\ m \in credits
    /\ credits' = credits \ {m}
    /\ store' = Settle(store, m[1], m[2])
    /\ UNCHANGED <<guard, saved, restores, minted, provider, worker, zeros>>

AbandonCosts ==
    /\ zeros \cup credits # {}
    /\ zeros' = {} /\ credits' = {}
    /\ UNCHANGED <<store, guard, saved, restores, minted, provider, worker>>

-----------------------------------------------------------------------------
(* Backup, restore and `reconcile-restored`.                               *)

\* The service is stopped first; database and artifacts are kept together.
Backup ==
    /\ Free
    /\ restores < MaxRestores
    /\ saved' = store
    /\ UNCHANGED <<store, guard, restores, minted, provider, worker, operator>>

\* The guard directory stays as it is.
Restore ==
    /\ Free
    /\ zeros = {} /\ credits = {}
    /\ saved # None
    /\ restores < MaxRestores
    /\ store' = saved
    /\ saved' = None
    /\ restores' = restores + 1
    /\ UNCHANGED <<guard, minted, provider, worker, operator>>

BeginReconcile ==
    /\ Step("idle", "reconcile")
    /\ guard # {}
    /\ UNCHANGED <<store, guard, saved, restores, minted, provider, arm, cur, reply, operator>>

\* The next guard file whose row the ledger lost.
TakeGuard(r) ==
    /\ Step("reconcile", "hold")
    /\ r \in guard \ store.witness
    /\ cur' = r
    /\ UNCHANGED <<store, guard, saved, restores, minted, provider, arm, reply, operator>>

OutcomeRetained(s, r) ==
    \E c \in Calls : s.started[c] = r /\ s.completed[c] # None

\* Mutant of HoldSpending: the witness is only imported.
ZHoldSpending ==
    /\ Step("hold", "file")
    /\ UNCHANGED <<store, guard, saved, restores, minted, provider, arm, cur, reply, operator>>

\* Mutant of HoldSpending: the reservation is appended at every attempt.
YHoldSpending ==
    /\ Step("hold", "file")
    /\ store' = [store EXCEPT !.rows[cur] = @ + 1, !.held = @ \cup {cur}]
    /\ UNCHANGED <<guard, saved, restores, minted, provider, arm, cur, reply, operator>>

\* One transaction: the reservation comes back, without a series_id, and with
\* no retained outcome the project is held.
HoldSpending ==
    /\ Step("hold", "file")
    /\ store' = [store EXCEPT
                   !.rows[cur] = IF @ = 0 THEN 1 ELSE @,
                   !.held = IF OutcomeRetained(store, cur) THEN @ ELSE @ \cup {cur}]
    /\ UNCHANGED <<guard, saved, restores, minted, provider, arm, cur, reply, operator>>

RestoreFile ==
    /\ Step("file", "import")
    /\ store' = [store EXCEPT !.ops = @ \cup {cur}]
    /\ UNCHANGED <<guard, saved, restores, minted, provider, arm, cur, reply, operator>>

\* Mutant of ImportWitness: the row is not written.
XImportWitness ==
    /\ Step("import", "reconcile")
    /\ Drop
    /\ UNCHANGED <<store, guard, saved, restores, minted, provider, arm, operator>>

ImportWitness ==
    /\ Step("import", "reconcile")
    /\ store' = [store EXCEPT !.witness = @ \cup {cur}]
    /\ Drop
    /\ UNCHANGED <<guard, saved, restores, minted, provider, arm, operator>>

\* Every guard file has its row: the storage is checked and the lock released.
EndReconcile ==
    /\ Step("reconcile", "idle")
    /\ guard \subseteq store.witness
    /\ UNCHANGED <<store, guard, saved, restores, minted, provider, arm, cur, reply, operator>>

-----------------------------------------------------------------------------
BuyStep ==
    \/ \E c \in Calls : Replay(c) \/ Reserve(c)
    \/ WitnessRow \/ WitnessOps \/ WitnessGuard
    \/ Start \/ Send \/ Answer \/ NoAnswer
    \/ Complete \/ Respond \/ SettleCall

PollStep ==
    \/ \E p \in Projects : Rebind(p)
    \/ BeginPoll \/ BeginQuestion \/ BeginSide \/ EndQuestion \/ EndPoll
    \/ Interrupt \/ Crash

CostStep ==
    \/ ReadZeros \/ ReadCredits \/ AbandonCosts
    \/ \E m \in zeros : CorrectZero(m)
    \/ \E m \in credits : CorrectCredits(m)

ReconcileStep ==
    \/ BeginReconcile
    \/ \E r \in Reservations : TakeGuard(r)
    \/ HoldSpending \/ RestoreFile \/ ImportWitness \/ EndReconcile

Next ==
    \/ BuyStep
    \/ PollStep
    \/ CostStep
    \/ Backup \/ Restore
    \/ ReconcileStep
    \/ \E r \in Reservations : Charge(r)

Spec == Init /\ [][Next]_vars

(***************************************************************************)
(* An operator repeats `reconcile-restored` after a restore, and           *)
(* `correct-costs` from time to time; neither dies at the same step every  *)
(* time.  Nothing is assumed of the worker.                                *)
(***************************************************************************)
RestoreFairness ==
    /\ SF_vars(BeginReconcile /\ ~(guard \subseteq store.witness))
    /\ SF_vars(\E r \in Reservations : TakeGuard(r))
    /\ SF_vars(HoldSpending)
    /\ SF_vars(RestoreFile)
    /\ SF_vars(ImportWitness)

CostFairness ==
    /\ SF_vars(ReadZeros)
    /\ SF_vars(ReadCredits)
    /\ SF_vars(\E m \in zeros : CorrectZero(m))
    /\ SF_vars(\E m \in credits : CorrectCredits(m))

FairSpec == Spec /\ RestoreFairness /\ CostFairness

-----------------------------------------------------------------------------
(* Properties.                                                             *)

\* Every request that left the host has its file in the guard directory,
\* which no restore takes back, so it can always be found again
\* (tournament_state.py: witness before Budget.reserve returns).
SentIsGuarded == sent \subseteq guard

\* One paid request is never sent twice, whatever crashed, timed out or was
\* restored in between (priced.py and durable.py: "no repeat purchase").
NoRepeatPurchase ==
    \A r, s \in sent : CallOf(r) = CallOf(s) => r = s

Uncorrected(r) == /\ CallOf(r) \in Understated
                  /\ store.corrected[r] = None

\* Whenever a project may buy, each request it ever sent is counted in its
\* spending exactly once: at its estimate while its cost is unknown, at its
\* real cost after (spending, reconcile_restored, correct_costs).
ChargesAreCounted ==
    Whole => \A r \in sent :
       SpendingClear(store, ProjectOf[CallOf(r)]) =>
          /\ store.rows[r] = 1
          /\ \/ store.settled[r] = None
             \/ Paid(store, r) = charge[r]
             \/ Uncorrected(r)

\* A settlement and a correction, once written, are never rewritten except by
\* a restore, although the worker's replay and `correct-costs` race to write
\* them (settle_microusd, correct_costs).
SettlementStands ==
    [][ restores' = restores =>
          \A r \in Reservations :
             /\ store.settled[r] # None => store'.settled[r] = store.settled[r]
             /\ store.corrected[r] # None => store'.corrected[r] = store.corrected[r]
      ]_vars

Charged(R) == Total([r \in {x \in R : charge[x] # None} |-> charge[r]])

\* What the providers charged in all projects of the series stays within its
\* ceiling and the AskNews share within its sub-cap (Budget.reserve):
\* "`--series-budget-usd` is the ceiling across **every** project the series
\* binds" (docs/RUNBOOK.md:334).
WithinSeriesCeilings ==
    /\ Charged(Reservations) <= SeriesCeiling
    /\ Charged(OfNews) <= NewsCeiling

\* While no ledger is restored this holds across rollovers, crashes and
\* corrections (tournament_state.py:580-618, 944-986).
SeriesCeilingsHold == restores = 0 => WithinSeriesCeilings

\* A ledger that was rolled back is brought forward to every guard file, if
\* the operator repeats `reconcile-restored` (restore.py).
RestoreEnds == ~(guard \subseteq store.witness) ~> guard \subseteq store.witness

\* An AskNews answer that states its credits is settled in the end, though
\* the worker died before it could, if the operator repeats `correct-costs`;
\* unless a restore takes the answer back.
CreditsAreSettled ==
    \A r \in OfNews :
       (store.started[CallOf(r)] = r /\ store.completed[CallOf(r)] \in Amounts)
          ~> store.settled[r] # None \/ store.started[CallOf(r)] # r
=============================================================================
