----------------------------- MODULE Submission -----------------------------
(***************************************************************************)
(* The live submission of one question's forecast: how a forecast record   *)
(* (one version of the forecast) becomes at most one forecast on the       *)
(* platform although `submit`, the worker, `verify-submission`,            *)
(* `reconcile-submission` and `release-key` run as separate processes over *)
(* one SQLite ledger, any of them may die between two steps, and a POST    *)
(* may be answered, refused, lost, or land after everyone stopped waiting. *)
(*                                                                         *)
(* Sources: submission_live.py (post_approved_forecast, the gateway,       *)
(* verify_uncertain_attempt), submission_policy.py (before_post),          *)
(* submission.py (keys), submission_reconcile.py, lifecycle.py (the        *)
(* submission events), tournament.py (reconcile_forecast), cli.py          *)
(* (release-key) and the triggers of migrations 010, 012 and 016.          *)
(*                                                                         *)
(* Simplifications.                                                        *)
(*  - One question in one project; the ledger keeps questions apart.       *)
(*  - A key is a function of (tournament, question, version, payload) and  *)
(*    an approved record has one authorized payload, so a record stands    *)
(*    for its key; its nth reservation is <<record, n>>.                   *)
(*  - Each SQLite transaction is one step; reads made outside one are      *)
(*    steps of their own wherever another process can act in between.      *)
(*  - Payloads of different versions differ, so a refetch can tell them    *)
(*    apart. The restored-question hold is left to a restore model.        *)
(***************************************************************************)
EXTENDS Integers, FiniteSets

CONSTANTS
    Records,          \* forecast versions of the question
    Procs,            \* processes that can run a command
    None,             \* no forecast on the platform, no record in hand
    Hand,             \* a forecast made by hand on the website
    HandEntries,      \* may a person forecast by hand?
    ReleaseRule,      \* what an operator checks before `release-key`
    MaxReservations   \* bound on reservations of one key

ASSUME NamesDistinct ==
    /\ None \notin Records
    /\ Hand \notin Records
    /\ Hand # None

(***************************************************************************)
(* "never": release-key is not used.                                       *)
(* "settled": the holder is dead, its POST is no longer under way and the  *)
(*   platform shows nothing: the assertion release-key asks for is true.   *)
(* "looked": the holder is dead and the platform shows nothing yet.        *)
(***************************************************************************)
ASSUME RulesKnown == ReleaseRule \in {"never", "settled", "looked"}
ASSUME HandKnown == HandEntries \in BOOLEAN
ASSUME BoundKnown == MaxReservations \in Nat

VARIABLES
    status,       \* lifecycle status of each record
    seq,          \* reservation_seq of each key's latest reservation
    released,     \* reservations with a submission_key_releases row
    attempt,      \* the event recorded with the key's submission_attempts row
    reconciled,   \* records with a submission_reconciliations row
    intent,       \* records with a forecast_intent journal row
    confirmed,    \* records with a forecast_confirmed journal row
    active,       \* is an activation in force?
    torn,         \* a witness row lost one of its two files for good
    posted,       \* reservations under which a POST was sent
    landed,       \* those the platform stored
    lost,         \* those that will never be stored
    top,          \* the account's latest forecast, as the platform shows it
    pc, rec, res, \* each process: next step, record, reservation
    obs           \* each process: what its platform read established

ledger == <<status, seq, released, attempt, reconciled>>
journal == <<intent, confirmed, active, torn>>
platform == <<posted, landed, lost, top>>
locals == <<pc, rec, res, obs>>
vars == <<status, seq, released, attempt, reconciled,
          intent, confirmed, active, torn,
          posted, landed, lost, top, pc, rec, res, obs>>

-----------------------------------------------------------------------------
Statuses == {"validated", "approved", "submitted", "failed"}
\* The event an attempt row is written with; "post_refused" is a
\* submission_failed whose stored answer is a 4xx the platform does not retry.
AttemptEvents == {"submitted", "submission_uncertain", "submission_failed",
                  "post_refused"}
VerificationEvents == {"submission_confirmed", "submission_disconfirmed"}

\* Where a process of `submit` holds a reservation, in program order.
Claiming == {"baseline", "before", "row", "ops", "guard", "intent", "post",
             "posted", "record", "release"}
Steps == {"idle", "policy", "derive", "reserve", "verify", "reconcile"}
            \cup Claiming

\* A key's reservations are numbered from 1; 0 is a key never reserved.
Numbers == 0 .. MaxReservations

TypeOK ==
    /\ status \in [Records -> Statuses]
    /\ seq \in [Records -> Numbers]
    /\ released \in SUBSET (Records \X Numbers)
    /\ attempt \in [Records -> AttemptEvents \cup {"none"}]
    /\ reconciled \in SUBSET Records
    /\ intent \in SUBSET Records
    /\ confirmed \in SUBSET Records
    /\ active \in BOOLEAN
    /\ torn \in BOOLEAN
    /\ posted \in SUBSET (Records \X Numbers)
    /\ landed \in SUBSET (Records \X Numbers)
    /\ lost \in SUBSET (Records \X Numbers)
    /\ top \in Records \cup {None, Hand}
    /\ pc \in [Procs -> Steps]
    /\ rec \in [Procs -> Records \cup {None}]
    /\ res \in [Procs -> Numbers]
    /\ obs \in [Procs -> AttemptEvents \cup VerificationEvents \cup {"none"}]

Init ==
    /\ status = [r \in Records |-> "validated"]
    /\ seq = [r \in Records |-> 0]
    /\ released = {}
    /\ attempt = [r \in Records |-> "none"]
    /\ reconciled = {}
    /\ intent = {} /\ confirmed = {}
    /\ active = TRUE /\ torn = FALSE
    /\ posted = {} /\ landed = {} /\ lost = {}
    /\ top = None
    /\ pc = [p \in Procs |-> "idle"]
    /\ rec = [p \in Procs |-> None]
    /\ res = [p \in Procs |-> 0]
    /\ obs = [p \in Procs |-> "none"]

-----------------------------------------------------------------------------
(* What the ledger says of a key.                                          *)

Reservations(r) == {r} \X (1..seq[r])
Unreleased(r) == Reservations(r) \ released

\* A reservation still standing: unreleased and spent by nothing.
Standing(r) == /\ Unreleased(r) # {}
               /\ attempt[r] = "none"
               /\ r \notin reconciled

\* An uncertain attempt blocks its record until a refetch resolves it.
Unresolved(r) == status[r] = "approved" /\ attempt[r] = "submission_uncertain"

\* Mutant of KeyFree: an earlier reservation need not be released.
XKeyFree(r) == attempt[r] = "none" /\ r \notin reconciled

\* The key may be claimed: never spent, every earlier reservation released.
KeyFree(r) == /\ attempt[r] = "none"
              /\ r \notin reconciled
              /\ Unreleased(r) = {}

\* Mutant of QuestionFree: without migration 012's trigger.
XQuestionFree(r) == TRUE

\* No other version of the question was attempted or is claimed.
QuestionFree(r) == \A q \in Records \ {r} :
                      attempt[q] = "none" /\ Unreleased(q) = {}

\* Every witness row has both of its files, and every file its row.
StorageWhole == ~torn /\ \A p \in Procs : pc[p] \notin {"ops", "guard"}

Activated == active /\ StorageWhole

\* The status an event moves an approved record to.
Destination(event) ==
    CASE event \in {"submitted", "submission_confirmed"} -> "submitted"
      [] event \in {"submission_failed", "post_refused",
                    "submission_disconfirmed"} -> "failed"
      [] OTHER -> "approved"

\* What one refetch of the question says of record r.
Classify(r) == CASE top = None -> "absent"
                 [] top = r -> "confirmed"
                 [] OTHER -> "mismatched"

\* Mutant of Partition: the POST's own answer is believed.
XPartition(answer, outcome) ==
    CASE answer = "ok" -> "submitted"
      [] answer = "error" /\ outcome = "absent" -> "submission_failed"
      [] answer = "refused" /\ outcome = "absent" -> "post_refused"
      [] OTHER -> "submission_uncertain"

\* The event an attempt is recorded with: success needs both the POST's own
\* answer and the refetch, failure needs an error and an observed absence.
Partition(answer, outcome) ==
    CASE answer = "ok" /\ outcome = "confirmed" -> "submitted"
      [] answer = "error" /\ outcome = "absent" -> "submission_failed"
      [] answer = "refused" /\ outcome = "absent" -> "post_refused"
      [] OTHER -> "submission_uncertain"

Goto(p, from, to) == pc[p] = from /\ pc' = [pc EXCEPT ![p] = to]

\* The command ends, and what it held in memory with it.
End(p) == /\ pc' = [pc EXCEPT ![p] = "idle"]
          /\ rec' = [rec EXCEPT ![p] = None]
          /\ res' = [res EXCEPT ![p] = 0]
          /\ obs' = [obs EXCEPT ![p] = "none"]

-----------------------------------------------------------------------------
(* `submit`, and the worker's call of it.                                  *)

Approve(r) ==
    /\ status[r] = "validated"
    /\ status' = [status EXCEPT ![r] = "approved"]
    /\ UNCHANGED <<seq, released, attempt, reconciled, journal, platform, locals>>

\* The blind-retry gate: no uncertainty of this record may be open.
BeginPost(p, r) ==
    /\ ~Unresolved(r)
    /\ Goto(p, "idle", "policy")
    /\ rec' = [rec EXCEPT ![p] = r]
    /\ UNCHANGED <<ledger, journal, platform, res, obs>>

\* prepare_live_policy: no earlier intent for the question, activation in force.
Policy(p) ==
    /\ Goto(p, "policy", "derive")
    /\ intent = {}
    /\ Activated
    /\ UNCHANGED <<ledger, journal, platform, rec, res, obs>>

\* A key is derived only while the record is approved.
Derive(p) ==
    /\ Goto(p, "derive", "reserve")
    /\ status[rec[p]] = "approved"
    /\ UNCHANGED <<ledger, journal, platform, rec, res, obs>>

\* A gate in front of the reservation refuses.
Refuse(p) ==
    /\ pc[p] \in {"policy", "derive", "reserve"}
    /\ End(p)
    /\ UNCHANGED <<ledger, journal, platform>>

Reserve(p) ==
    LET r == rec[p] IN
    /\ Goto(p, "reserve", "baseline")
    /\ KeyFree(r)
    /\ QuestionFree(r)
    /\ seq[r] < MaxReservations
    /\ seq' = [seq EXCEPT ![r] = @ + 1]
    /\ res' = [res EXCEPT ![p] = seq[r] + 1]
    /\ UNCHANGED <<status, released, attempt, reconciled, journal, platform, rec, obs>>

\* The account must have no forecast on the question yet.
Baseline(p) ==
    /\ Goto(p, "baseline", "before")
    /\ top = None
    /\ UNCHANGED <<ledger, journal, platform, rec, res, obs>>

\* before_post: the activation is asked for again.
BeforePost(p) ==
    /\ Goto(p, "before", "row")
    /\ Activated
    /\ UNCHANGED <<ledger, journal, platform, rec, res, obs>>

\* witness: one committed row, then the operations file, then the guard file.
WitnessRow(p) ==
    /\ Goto(p, "row", "ops")
    /\ UNCHANGED <<ledger, journal, platform, rec, res, obs>>

WitnessFiles(p) ==
    /\ \/ Goto(p, "ops", "guard")
       \/ Goto(p, "guard", "intent")
    /\ UNCHANGED <<ledger, journal, platform, rec, res, obs>>

WriteIntent(p) ==
    /\ Goto(p, "intent", "post")
    /\ intent' = intent \cup {rec[p]}
    /\ UNCHANGED <<ledger, confirmed, active, torn, platform, rec, res, obs>>

Post(p) ==
    /\ Goto(p, "post", "posted")
    /\ posted' = posted \cup {<<rec[p], res[p]>>}
    /\ UNCHANGED <<ledger, journal, landed, lost, top, rec, res, obs>>

\* The POST's answer, whatever it was, becomes a receipt after a refetch.
\* The platform never stores what it refused.
Refetch(p) ==
    LET mine == <<rec[p], res[p]>> IN
    \E answer \in {"ok", "refused", "error"}, outcome \in {Classify(rec[p]), "unreadable"} :
        /\ Goto(p, "posted", "record")
        /\ obs' = [obs EXCEPT ![p] = Partition(answer, outcome)]
        /\ answer = "refused" => mine \notin landed
        /\ lost' = IF answer = "refused" THEN lost \cup {mine} ELSE lost
        /\ UNCHANGED <<ledger, journal, posted, landed, top, rec, res>>

\* One transaction: the attempt row and its lifecycle event.
RecordReceipt(p) ==
    LET r == rec[p] IN
    /\ pc[p] = "record"
    /\ attempt[r] = "none"
    /\ r \notin reconciled
    /\ status[r] = "approved"
    /\ attempt' = [attempt EXCEPT ![r] = obs[p]]
    /\ status' = [status EXCEPT ![r] = Destination(obs[p])]
    /\ End(p)
    /\ UNCHANGED <<seq, released, reconciled, journal, platform>>

\* "A live post was made and the ledger refused to record it."
ReceiptRefused(p) ==
    /\ pc[p] = "record"
    /\ End(p)
    /\ UNCHANGED <<ledger, journal, platform>>

\* Mutant of FailBeforePost: a lost answer counts as a failure before the POST.
XFailBeforePost(p) ==
    /\ \E s \in {"baseline", "before", "row", "ops", "guard", "intent", "post", "posted"} :
          /\ Goto(p, s, "release")
          /\ torn' = (torn \/ s \in {"ops", "guard"})
    /\ UNCHANGED <<ledger, intent, confirmed, active, platform, rec, res, obs>>

\* Any failure in front of the POST: an exception with post_attempted unset.
FailBeforePost(p) ==
    /\ \E s \in {"baseline", "before", "row", "ops", "guard", "intent", "post"} :
          /\ Goto(p, s, "release")
          /\ torn' = (torn \/ s \in {"ops", "guard"})
    /\ UNCHANGED <<ledger, intent, confirmed, active, platform, rec, res, obs>>

\* _release_unspent: the program proved nothing was posted; a release the
\* ledger refuses is swallowed.
ReleaseUnspent(p) ==
    LET r == rec[p] IN
    /\ pc[p] = "release"
    /\ released' = IF Standing(r) THEN released \cup {<<r, res[p]>>} ELSE released
    /\ End(p)
    /\ UNCHANGED <<status, seq, attempt, reconciled, journal, platform>>

\* The process dies: between the witness row and its files, for good.
Crash(p) ==
    /\ pc[p] # "idle"
    /\ End(p)
    /\ torn' = (torn \/ pc[p] \in {"ops", "guard"})
    /\ UNCHANGED <<ledger, intent, confirmed, active, platform>>

-----------------------------------------------------------------------------
(* `verify-submission`: resolve an uncertain attempt by a later refetch.   *)

BeginVerify(p, r) ==
    /\ Unresolved(r)
    /\ Classify(r) \in {"confirmed", "absent"}
    /\ Goto(p, "idle", "verify")
    /\ rec' = [rec EXCEPT ![p] = r]
    /\ obs' = [obs EXCEPT ![p] = IF Classify(r) = "confirmed"
                                 THEN "submission_confirmed"
                                 ELSE "submission_disconfirmed"]
    /\ UNCHANGED <<ledger, journal, platform, res>>

RecordVerification(p) ==
    LET r == rec[p] IN
    /\ pc[p] = "verify"
    /\ status' = IF Unresolved(r)
                 THEN [status EXCEPT ![r] = Destination(obs[p])]
                 ELSE status
    /\ End(p)
    /\ UNCHANGED <<seq, released, attempt, reconciled, journal, platform>>

(* `reconcile-submission`: record a post the ledger missed.                *)

\* Mutant of UnrecordedPost: an intent the journal already confirmed is taken
\* for one that needs no reconciliation.
XUnrecordedPost(r) ==
    /\ status[r] = "approved"
    /\ ~Unresolved(r)
    /\ Standing(r)
    /\ r \in intent \ confirmed

\* The local evidence of a post nobody recorded.
UnrecordedPost(r) ==
    /\ status[r] = "approved"
    /\ ~Unresolved(r)
    /\ Standing(r)
    /\ r \in intent

BeginReconcile(p, r) ==
    /\ UnrecordedPost(r)
    /\ Classify(r) = "confirmed"
    /\ Goto(p, "idle", "reconcile")
    /\ rec' = [rec EXCEPT ![p] = r]
    /\ res' = [res EXCEPT ![p] = seq[r]]
    /\ UNCHANGED <<ledger, journal, platform, obs>>

\* In one transaction the evidence is read again and must be the same.
RecordReconciliation(p) ==
    LET r == rec[p]
        same == UnrecordedPost(r) /\ <<r, res[p]>> \in Unreleased(r) IN
    /\ pc[p] = "reconcile"
    /\ reconciled' = IF same THEN reconciled \cup {r} ELSE reconciled
    /\ status' = IF same THEN [status EXCEPT ![r] = "submitted"] ELSE status
    /\ End(p)
    /\ UNCHANGED <<seq, released, attempt, journal, platform>>

(* `release-key`: a person asserts that nothing was posted.                *)

HolderGone(r) == \A p \in Procs : pc[p] \in Claiming => rec[p] # r
InFlight(r) == \E m \in posted \ (landed \cup lost) : m[1] = r

AssertNothingPosted(r) ==
    /\ ReleaseRule \in {"settled", "looked"}
    /\ top = None
    /\ HolderGone(r)
    /\ ReleaseRule = "settled" => ~InFlight(r)

OperatorRelease(r) ==
    /\ AssertNothingPosted(r)
    /\ Standing(r)
    /\ released' = released \cup Unreleased(r)
    /\ UNCHANGED <<status, seq, attempt, reconciled, journal, platform, locals>>

-----------------------------------------------------------------------------
(* The worker's recovery loop, the activation, and the platform.           *)

\* Mutant of Confirm: every failed attempt is left alone, not the refused only.
XConfirm(r) ==
    /\ r \in intent \ confirmed
    /\ attempt[r] \notin {"submission_failed", "post_refused"}
    /\ Activated
    /\ Classify(r) = "confirmed"
    /\ confirmed' = confirmed \cup {r}
    /\ UNCHANGED <<ledger, intent, active, torn, platform, locals>>

\* reconcile_forecast: the journal confirms an intent whose payload a refetch
\* matched; a post the platform refused is left alone.
Confirm(r) ==
    /\ r \in intent \ confirmed
    /\ attempt[r] # "post_refused"
    /\ Activated
    /\ Classify(r) = "confirmed"
    /\ confirmed' = confirmed \cup {r}
    /\ UNCHANGED <<ledger, intent, active, torn, platform, locals>>

Enable ==
    /\ ~active /\ StorageWhole
    /\ active' = TRUE
    /\ UNCHANGED <<ledger, intent, confirmed, torn, platform, locals>>

Disable ==
    /\ active
    /\ active' = FALSE
    /\ UNCHANGED <<ledger, intent, confirmed, torn, platform, locals>>

Land(m) ==
    /\ m \in posted \ (landed \cup lost)
    /\ landed' = landed \cup {m}
    /\ top' = m[1]
    /\ UNCHANGED <<ledger, journal, posted, lost, locals>>

Lose(m) ==
    /\ m \in posted \ (landed \cup lost)
    /\ lost' = lost \cup {m}
    /\ UNCHANGED <<ledger, journal, posted, landed, top, locals>>

ForecastByHand ==
    /\ HandEntries
    /\ top' = Hand
    /\ UNCHANGED <<ledger, journal, posted, landed, lost, locals>>

-----------------------------------------------------------------------------
SubmitStep(p) ==
    \/ Policy(p) \/ Derive(p) \/ Refuse(p) \/ Reserve(p) \/ Baseline(p)
    \/ BeforePost(p) \/ WitnessRow(p) \/ WitnessFiles(p) \/ WriteIntent(p)
    \/ Post(p) \/ Refetch(p) \/ RecordReceipt(p) \/ ReceiptRefused(p)
    \/ FailBeforePost(p) \/ ReleaseUnspent(p)

OperatorStep(p) ==
    \/ RecordVerification(p)
    \/ RecordReconciliation(p)
    \/ \E r \in Records : BeginVerify(p, r) \/ BeginReconcile(p, r)

Next ==
    \/ \E p \in Procs : SubmitStep(p) \/ OperatorStep(p) \/ Crash(p)
    \/ \E p \in Procs, r \in Records : BeginPost(p, r)
    \/ \E r \in Records : Approve(r) \/ OperatorRelease(r) \/ Confirm(r)
    \/ Enable \/ Disable \/ ForecastByHand
    \/ \E m \in posted : Land(m) \/ Lose(m)

Spec == Init /\ [][Next]_vars

-----------------------------------------------------------------------------
(* Safety.                                                                 *)

\* At most one POST that the platform stored or may still store exists for
\* the question, over every version, process, crash and released key: the
\* promise of post_approved_forecast and of migrations 010 and 012.
OneLivePost == \A m, n \in posted \ lost : m = n

\* Without release-key not even a second request leaves the program.
OnePost == \A m, n \in posted : m = n

\* A POST is never sent without its durable traces: the intent that recovery
\* and reconcile-submission start from, and a reservation that still stands
\* until the POST is known to be lost.
PostLeavesTraces ==
    \A m \in posted :
        /\ m[1] \in intent
        /\ m \in Reservations(m[1])
        /\ m \in released => m \in lost

\* What the lifecycle ledger calls submitted was stored by the platform,
\* whichever of the three writers said so and however old its read was.
SubmittedIsLive ==
    \A r \in Records :
        status[r] = "submitted" => \E m \in landed : m[1] = r

\* The commands never leave a post behind that no command can settle: once
\* the holder is gone, a stored post that the ledger does not call submitted
\* and no one failed is either an open uncertainty (verify-submission) or
\* reconcile-submission's case.
LandedIsRecoverable ==
    \A m \in landed :
        LET r == m[1] IN
        \/ status[r] \in {"submitted", "failed"}
        \/ ~HolderGone(r)
        \/ Unresolved(r)
        \/ UnrecordedPost(r)

(* What a step may never do.                                               *)

\* No POST leaves while any version of the question has a recorded attempt
\* or reconciliation, or another POST may still land: no blind retry.
NoBlindRetry ==
    [][posted' # posted =>
          /\ \A r \in Records : attempt[r] = "none" /\ r \notin reconciled
          /\ posted \subseteq lost]_vars

-----------------------------------------------------------------------------
(* Liveness.                                                               *)

\* Code runs on until it ends or dies; the timer polls again and again; the
\* platform decides about every request; and the operator repeats the
\* commands of RUNBOOK L2 and L4 for as long as they apply.
Fairness ==
    /\ \A p \in Procs : WF_vars(SubmitStep(p))
    /\ \A r \in Records : SF_vars(Confirm(r))
    /\ WF_vars(\E m \in posted : Land(m) \/ Lose(m))
    /\ \A r \in Records :
          /\ SF_vars(OperatorRelease(r))
          /\ SF_vars(\E p \in Procs : BeginReconcile(p, r))
          /\ SF_vars(\E p \in Procs : rec[p] = r /\ RecordReconciliation(p))

FairSpec == Spec /\ Fairness

\* While the activation is in force again and again, a stored forecast is
\* sooner or later known to one of the two logs: submitted in the lifecycle
\* ledger or confirmed in the journal, whatever became of its command.
LandedIsReported ==
    \A r \in Records :
        []<>Activated =>
            ((\E m \in landed : m[1] = r) ~> (status[r] = "submitted" \/ r \in confirmed))

\* A claimed key is never wedged: the attempt is recorded, the program or the
\* operator releases the key, or the post is reconciled.
ClaimIsSettled == \A r \in Records : Standing(r) ~> ~Standing(r)

-----------------------------------------------------------------------------
(* What the documents say and the code does not do.                        *)

\* docs/backlog M2-716: after a release for a post that landed, "the
\* forecast_intent guard and 012's whole-question trigger are what stop a
\* repeat post".
ReleasedPostNotRepeated ==
    [][posted' # posted => landed \cap released = {}]_vars
=============================================================================
