# Whiskeyjack in TLA+

whiskeyjack-bot forecasts Metaculus questions without supervision: a timer
starts a worker every five minutes, the worker buys evidence and a model's
reply, posts the forecast and a private comment, and everything it did is kept
in an append-only SQLite ledger. It may spend at most what its owner allowed
and must forecast each question at most once, although processes die, requests
get lost or land late, commands run side by side and the ledger may be restored
from a backup.

This directory models those promises, checks them with TLC on small instances
and proves the safety ones with TLAPS for every value of the constants. Source
paths below are under `src/src/whiskeyjack_bot/`; `PROJECT.json` maps every
definition to its lines.

## Running it

    tlc -workers 2 -config Submission_never.cfg MCSubmission.tla
    tlapm SubmissionProofs.tla

| cfg | module |
|---|---|
| `Submission_*` | `MCSubmission` |
| `Spending_*` | `MCSpending` |
| `Worker_restore` | `WorkerRefinement` |
| `Worker_fair`, `Worker_exhausted` | `Worker` |
| `Attempt_three` | `Attempt` |
| `Evidence_rebuilt` | `MCEvidence` |
| `Desk_posted` | `MCDesk` |
| `Alarm_late` | `Alarm` |
| `Resolution_fair` | `MCResolution` |

The longest runs take about two minutes and the longest proofs about four.

## Inventory

### What runs

* **The worker** (`tournament.py`, `tournament run-once`): one poll at a time,
  under a file lock, each phase under a wall-clock alarm (`timeouts.py`).
* **Batches and replays** (`pipeline_live.py`, `pipeline.py`): `run-live` attempts
  question after question; `run-replay` stores again the forecast a filed reply
  gave. Neither takes the worker's lock.
* **Manual commands** (`cli.py`): `approve`, `submit`, `verify-submission`,
  `reconcile-submission`, `release-key`, `correct-costs`, `tournament enable`,
  `disable`, `reconcile-restored`. Only `reconcile-restored` takes the worker's
  lock; all others may run beside it.
* **The watchdog** (`deploy/wj-watchdog`) and the **resolution timer**, separate
  processes that read the ledger or append observations to it.

They meet in one SQLite ledger (`ledger.py`, the migrations' triggers), in the
artifact directory and in the guard directory, which no restore takes back.

### Components, their state and what makes them correct

| Component | State | Operations | Correct when | Hard because |
|---|---|---|---|---|
| Submission boundary (`submission*.py`) | keys, reservations, releases, attempts, `forecast_intent` rows | submit, verify, reconcile, release | one live POST per question; every stored post can be settled; no blind retry | several processes, late landings, death between any two steps |
| Lifecycle log (`lifecycle.py`, `approval.py`) | one append-only chain per record | approve, attempt, verification, resolution, scores | a record called submitted is on the platform | written by three commands from reads of different age |
| Operation journal (`tournament_state.py`) | events, witness rows and their two files | append, witness, check | what left the host is on disk before it leaves | one row and two files written in three steps |
| Round budget (`Budget`, `forecast/priced.py`, `research/durable.py`) | reservations, settlements, corrections | reserve, settle, correct | real charges stay within the ceilings; nothing is bought twice | unknown outcomes, races with `correct-costs`, rollovers |
| Restore (`restore.py`) | holds | import what the guard knows | nothing the backup forgot is done again | dies part way, is repeated |
| Series (`follow.py`) | newest activation | rebind to the next project | one ceiling over all projects | decides outside the transaction |
| Worker (`tournament.py`) | checkpoints, waits, verdicts, records, comment rows | poll | every question is forecast once, commented once, or given a verdict; failures cost a bounded amount | edits, deaths, activations and restores between polls |
| Retrieval (`research/orchestrate.py`, `asknews.py`, `exa.py`, `persist.py`) | runs, documents, raw responses | primary, fallback, complete | what a record names was found and stored; the report adds up | one of several paid calls or writes fails |
| Evidence (`research/dedup.py`, `store.py`, `quality.py`, `sufficiency.py`, `packet.py`) | rows, checkpoints | collapse, checkpoint, gate, rebuild | a packet can be built again at the post | order of answers, ageing, a changed setting |
| Lens and shadow (`research/lens*.py`, `overlap.py`, `forecast/shadow.py`) | lens checkpoints, shadow forecasts | follow, report, shadow | a shadow differs from its control by the lens alone | joined by question and instant only, while batches write checkpoints too |
| Generation (`forecast/generate.py`, `parse.py`, `attribution.py`) | tries, the accepted reply | preflight, call, repair once | nothing is bought that no reply can satisfy | bounds and sums at their edges |
| Records and replay (`forecast/store.py`, `persist.py`, `replay.py`, `pipeline*.py`) | records, their first event, gap rows, reply files | file, append, replay | a record can be traced and replayed | four writes, any of which fails |
| Conversion (`forecast/cdf.py`, `numeric.py`, `multiple_choice.py`) | none | percentiles to CDF, options to probabilities | what is recorded can be posted | rules of generation and of the wire differ |
| Approval (`approval.py`, `submission_payload.py`) | decisions, payload digests | approve, reject, derive | what leaves is what was approved | configuration and files change in between |
| Alarms (`timeouts.py`, `notify._push_deadline`, `cdf._bounded`) | one timer, one handler | phase, push, conversion | a phase ends at its limit, not before or never | each borrows what the other set |
| Resolution and scoring (`resolution*.py`, `scor*.py`, `platform_scores.py`) | observations, score events | ingest, score | a score belongs to the resolution it was computed from | annulled and re-resolved questions |
| Notifications (`notify.py`), watchdog | stamps per window | claim, push | no flood, nothing withheld unsaid | a failed push keeps its stamp |
| Questions, platform client, configuration, exports, reports | none of their own | translate, fetch, read | | pure translation or read-only |

`PROJECT.json` has the status of each part and, under `hazards`, the places
where each difficulty bites with the properties that watch it.

## Modules

### Submission: one question's forecast reaches the platform at most once

| Module | Contents |
|---|---|
| `PostOnce` | what the boundary promises: a version is claimed, its forecast sent once, and in the end confirmed or not |
| `Submission` | the commands step by step, over one ledger, with the platform |
| `SubmissionRefinement` | `Submission` as an instance of `PostOnce` |
| `SubmissionInvariant` | the inductive invariant |
| `SubmissionProofs` | its theorems |
| `MCSubmission` | the model-checking module |

A process `p` has a step `pc[p]`, the record and reservation in its hands and
what its last read of the platform established. `submit` goes through
`Policy`, `Derive`, `Reserve`, `Baseline`, `BeforePost`, `WitnessRow`,
`WitnessFiles`, `WriteIntent`, `Post`, `Refetch` and `RecordReceipt`, in the
order of `post_approved_forecast` and the gateway; any of them may end in
`Refuse`, `FailBeforePost` or `Crash`. A transaction is one step; a read made
outside one is a step of its own. `verify-submission` and
`reconcile-submission` are a read of the platform and a transaction, with
anything in between. The platform stores a request (`Land`), never does
(`Lose`), or a person forecasts by hand.

`ReleaseRule` says what an operator makes sure of before `release-key`, whose
prompt asks for an assertion the program cannot check (`cli.py:1066`): never
used, used when the assertion is true, or used when the platform shows nothing
*yet*.

### Spending: every paid request is counted and none is bought twice

| Module | Contents |
|---|---|
| `Totals` | the sum of a bill, as the number of units on it |
| `Purse` | what the budget promises: exposure within each project's ceiling |
| `Spending` | reservations, witness, calls, settlements, corrections, rollover, backup, restore |
| `SpendingRefinement` | `Spending` as an instance of `Purse` |
| `SpendingInvariant` | the inductive invariant |
| `SpendingProofs` | its theorems |
| `MCSpending` | three calls over two projects, their estimates and ceilings |

A call is one request digest; `<<call, n>>` is its nth reservation. `store` is
what a backup copies (the ledger and the artifact directory), `guard` what it
does not. The steps of a purchase are those of `PricedClient.invoke` and
`durable.begin_call`/`complete_call`; the phase alarm may fire between any two
(`Interrupt`) and the process may die (`Crash`). The lens and the shadow arm,
which catch every exception and go on, are the `side` arm. `correct-costs`
reads the settlements at zero (`ReadZeros`) and corrects them row by row, then
reads the unsettled AskNews calls (`ReadCredits`) and settles them, checking
the marker again in each transaction. `reconcile-restored` goes guard file by guard
file through `HoldSpending`, `RestoreFile` and `ImportWitness`.

Sums of money are `Total`s: the cardinality of the set of units on a bill. TLC
counts them as well as it adds, and the provers know what sets have.

### Worker: a poll

| Module | Contents |
|---|---|
| `Errand` | what the worker promises of a question: intended and asked for once, a true note of what became of it, a comment under that note |
| `Worker` | polls over several questions, with edits, closing, activations, deaths and restores |
| `WorkerRefinement` | `Worker` as an instance of `Errand` |
| `WorkerInvariant` | the inductive invariant |
| `WorkerProofs` | its theorems |

A poll first recovers every intent it has not finished (`Recover`), then
fetches the questions (`BeginQuestions`) and takes them in the order they
close through the gates of `run_once`: closed, held or blocked, exhausted,
waiting, already posted, no room. An attempt opens a checkpoint window or
reuses the current one, and ends in a record, a paced failure, a verdict or a
free failure. A record is posted (`Intend`, `Send`), read back (`Verify`) and
commented (`IntendComment`, `Publish`, `FindComment`).

In `Errand` the intents are the guard's, which no restore takes back, and the
notes are the ledger's, which a restore may make older but not untrue.

### Resolution: what becomes of a posted forecast

| Module | Contents |
|---|---|
| `Scoreboard` | what the two commands promise of a record: observations that say something new, marks given once and to the newest |
| `Resolution` | ingestion and scoring, transaction by transaction, with the platform |
| `ResolutionRefinement` | `Resolution` as an instance of `Scoreboard` |
| `ResolutionInvariant` | the inductive invariant |
| `ResolutionProofs` | its theorems |
| `MCResolution` | the model-checking module |

`Resolution` has `ingest-resolutions` and `score` as runs that may overlap: the
timer's unit, which scores after a clean ingestion, and operators' commands. A
run of ingestion lists the posted records (`BeginIngest`), and for each post
reads the platform (`Fetch`), then the clock (`Stamp`), then appends, skips or
refuses an observation for each record of the post, one transaction each. It
ends with the push of what stands withheld (`EndIngest`). A run of scoring
takes each record with an observation (`BeginScore`, `TakeRecord`) and appends
its local and its platform scores in two transactions, each with a clock read
before it (`Restamp`). `Kill` may end a run between any two steps.

`rows[r]` and `scores[r]` are the rows of `resolution_events` and
`score_events`; a row keeps what was shown and when it was observed, and for
the properties since which change the platform showed it. `Scoreboard` has no
runs, no clock and no statuses: one step is one transaction, whatever the run
read before it, and a record's status must be `Label`, the word for its rows.

### Attempt: from evidence to a stored forecast

| Module | Contents |
|---|---|
| `Retrieval` | buying evidence: primary and fallback, run by run, with the failures of calls, files and rows |
| `Attempt` | extends it: reuse or buy, judge, generate, file, record, replay, as batches, polls and replays side by side |
| `AttemptInvariant` | the inductive invariant |
| `AttemptProofs` | its theorems |

`pass[p]` is what a process holds during `retrieve_for_question`, `job[p]` what
it holds of `_attempt_question` or `run_replay`, `pc[p]` the step it is at. A
run is opened (`_insert_run`) before its first call, its raw responses are
filed after the last, and `complete_run` commits it with its documents; each
write may fail (`Fault`), and what follows is the code's: an open run left
behind, a run without its file, or an exception that a batch turns into the
question's outcome and a poll does not survive. `Checkpoint`, `Reuse` and `Buy`
are `_research`; `GoOn`, `NoEvidence` and `NothingUsable` the gates around
`evidence_poor_reason`; `ModelCall` one turn of `_run_attempts`, `FileReply`
`write_raw_model_output`, and `Record` the one transaction of version, first
event and gap rows. A batch keeps one clock reading for all its questions, a
poll that of its checkpoint window; `Readings` lets the clock move on whenever
it is read. `run-replay` rebuilds the request from *all* completed runs of the
question (`Rebuilt`), whoever bought them.

Documents are sets, the tests of `quality.py` are the sets `Usable`, `Stale`
and `Official`: how they are decided is the business of `Evidence`.

### Evidence: what a packet is, and whether it can be built again

| Module | Contents |
|---|---|
| `Evidence` | rows, packets, gates, the policy's rebuilding, the lens and the shadow arm |
| `EvidenceProofs` | its inductive invariant and theorems |
| `MCEvidence` | the documents |

`answered[r]` is what a provider said, in its order, `stored[r]` the rows after
`deduplicate`. `checkpoints` and `lenses` are the two kinds of journal event;
checkpoints are a sequence, because `_research` looks at the last one and the
lens at the last one of an instant. A batch and a poll of the worker
(`arms["batch"]`, `arms["poll"]`) hold no lock against each other. Each keeps
the instant and the setting it began with: a batch that of its start
(`cli.py:1477`), a poll that of its window (`opened`), in which a later poll
goes on if it is no older than `Reuse` (`tournament.py:1184`). `Look` takes the
last checkpoint if it is neither too old, nor ahead of the instant, nor empty,
or goes to buy; `Checkpoint` appends, whatever others have appended since.

`BatchAttempt` and `PollAttempt` make records from a packet under the two
gates; `Reproduces` is `require_research_artifacts`, which tries a checkpoint's
packet whole, filtered to what was usable at the record's instant, or without
what came later. However its attempt ended, a poll goes on to `Follow`: a run of
the lens beside the research *bought* under its instant (`tournament.py:767`),
and from there to `Shadow`, which pairs the record of this poll with this lens.
Nothing compares what the two were made from; they are joined by the clock only.

`Clusters` is the union-find of `overlap.py`, `Report` the lens report. The two
algorithms, `Deduplicate` and `Parents`, are recursive functions over their
input, and the properties are their reference definitions: the maxima of an
order, and the connected components of a graph.

### Desk: what a reply, a record and a payload say

| Module | Contents |
|---|---|
| `Desk` | one question from the preflight through reply, conversion, approval and post to the refetch |
| `DeskProofs` | its inductive invariant and theorems |
| `MCDesk` | questions, configurations, replies, curves and files |

`Preflight` is `question_refusal`, `Answer` a turn of `_run_attempts` with
`parse`, `validate` and the conversion, `Approve` and `Reject` the decisions,
`Post` the plan from the payload and the key for its digest, `Refetch` and
`Verify` the classification of what the platform shows. `config` is what is
deployed and may change at any step; `used` is what the generating run loaded.
Probabilities are whole units out of `Whole`, so that sums, bounds and
tolerances meet at their edges. The SDK's conversion is external: any of
`Curves[question]`, the same for the same reply and setting, or a refusal. Sums
are `Total`s, of any order alike, as those of `fsum` are (`multiple_choice.py:256`);
`InOrder` puts a payload's options in the order of `sort_keys`. A label's length,
which a payload bounds too, is left out.

### Alarm: one timer for three purposes

| Module | Contents |
|---|---|
| `Alarm` | the phase limit, the push's deadline and the conversion's bound, call by call |
| `AlarmInvariant` | the inductive invariant |
| `AlarmProofs` | its theorems |

Every call of `signal`, `setitimer` and `monotonic` is a step, `due` is a
delivered signal that is handled before the next step, and `Tick` may pass
between any two (`late`). `saved` is what the borrower found: handler,
remaining time, and the time it has measured since.

### How the modules meet

`Worker` treats `submit` as the worker's own steps and a restore with its
`reconcile-restored` as one; `Submission` and `Spending` have the detail. These
are models of one system at several cuts:

* what `Worker` calls `Intend` and `Send` is `Submission`'s `Policy` to
  `Refetch` for one process; which payload that is, and what the refetch says
  of it, is `Desk`'s `Post` and `Refetch`;
* what `Worker` calls an attempt is a poll of `Attempt`, and in money
  `Spending`'s `BeginQuestion` to `BeginSide`; a paid call of `Attempt` is
  `Spending`'s `Reserve` to `Settle`, and its lost outcome ends the poll here
  as there;
* `Attempt` extends `Retrieval` and shares its variables. Its sets of documents
  are `Evidence`'s packets, its accepted reply one that `Desk` keeps;
* `Evidence`'s `Reproduces` is the part of `Submission`'s `Policy` that reads
  the packet;
* `Alarm` is how `Spending`'s `Interrupt` comes about, and `Desk`'s `GiveUp`
  of a conversion that takes too long;
* `Resolution` begins where `Submission` ends: its `Submit` is a record's
  arrival at `submitted`.

## What the runs check

| Run | Instance | Shows |
|---|---|---|
| `submission_never` | 3 processes, 2 versions, 2 reservations each, forecasts by hand | only one request leaves; submitted means stored; every stored post can be settled; refines `PostOnce` |
| `submission_settled` | 2 processes, 1 version, 3 reservations, `release-key` when its assertion holds, fairness | no blind retry; a stored forecast reaches a log; no key stays wedged |
| `spending_restore` | 3 calls, 2 projects, up to 2 restores | nothing bought twice; all that was sent stays counted; refines `Purse` |
| `spending_fair` | a call settled at zero by an earlier version, a rollover, a restore, fairness | settlements stand; charges stay within the series' ceilings; operator commands, repeated, finish |
| `worker_restore` | 1 question, 2 activations, 2 attempts, a death, a restore | refines `Errand`: one forecast, true notes, one comment and at most one more for the restore; verdicts stand |
| `worker_fair` | 1 question, 2 versions, 2 edits, no deaths, fairness | failures bounded across edits; questions are decided; stored forecasts get their comment request |
| `worker_exhausted` | 1 question, 3 attempts | a disagreement, below |
| `attempt_three` | a batch, a poll and a replay, 2 attempts, 2 documents, a fault, 2 instants | records can be traced to complete runs and true files; replays answer the request they repeat; no hindsight; empty evidence is marked truly; reports add up |
| `evidence_rebuilt` | a batch and a poll over three instants, deaths, windows gone on with, documents that age or are dated ahead, three claims to one document | the strongest claim survives; recorded packets can be built again; shadows add the lens only, unless a batch came between; reports are components |
| `desk_posted` | 12 questions of 4 types, 4 configurations, files, renamed options, 2 decisions | the preflight is exact; what is recorded can be posted; what is posted was approved; verdicts are true |
| `alarm_late` | 2 phases, any number of pushes and conversions in them, up to 2 late ticks each | a phase keeps its alarm and is not cut short |
| `resolution_fair` | 1 record, timer and one operator's command, 2 changes of the platform, a release, a failed fetch or a killed run, fairness | refines `Scoreboard`; no score but of a resolution that was seen, none written for one that is gone; ledger, scores and alerts catch up |

Every property of these runs has a mutant in `PROJECT.json`: a small change of
one definition, of the kind a careless edit of the code would be, under which
the run must report that property violated. Mutants are the operators named
`X...`, and `Y...` or `Z...` where one definition has several.

### Why the bounds are enough

* *Submission.* Three processes let one command hold a reservation while two
  others read around it. Two versions are the least for the whole-question
  trigger. A second reservation of a key needs a release, a third a second
  release; after that the states repeat with another number. That run has two
  processes and one version because liveness is checked there; the theorems
  hold for any number.
* *Spending.* Two projects make the series ceiling differ from the projects'.
  Each call can be reserved again after a death between the reservation and
  its witness. Estimates are such that the calls together do not fit.
* *Worker.* `MaxAttempts` is 3 in the code (`tournament.py:97`) and a constant
  here: two attempts reach every way of counting, and the theorems hold for any
  number. One question at a time: what two share is the poll's room and its
  order (`NoRoom` in `EndPoll`), for which the theorems stand; two questions
  with one attempt each are 100,000 states, in which `OneForecast` holds too.
  With `Window = 1` a checkpoint is fresh, aged but current, or
  expired; with 0 current or expired, which is all that the safety runs tell
  apart. The finding runs with the code's own 3.
* *Attempt.* Two attempts are the least in which one meets what another left:
  a poll a batch's checkpoint, a replay the runs that came after the reply.
  A fault may be any write, any read or a death. One usable document that only
  the fallback finds and one stale one that only the primary finds make every
  gate go both ways. Two instants with `Window = 0` tell a current checkpoint
  from an older and from a later one. The invariant was also checked, as an
  invariant of a run, before it was proved.
* *Evidence.* Three claims to one document, each of them in each place and each
  two in both orders, are the least for an order that is not just a swap; titles
  that are alike in a chain, offered end, end, middle, the least on which linking
  items instead of roots goes wrong. Three instants with `Reuse = 1` give a
  checkpoint that is reused and one that has expired, a window gone on with
  after a death, and a batch that is older than the poll it meets; documents
  are fresh, stale, undated or dated ahead at some record. The least that a
  shadow and its control need is one record of the poll, and one of a batch
  beside it. The run has 1.27 million states.
* *Desk.* Twelve units with a tolerance of two are chosen so that no split of
  four options, only the nearest split of two and every split of three fit the
  narrow range; grids of two to five points sit on both edges of the permitted
  ones and of the cap on a step. Two decisions give a rejection before an
  approval, two entries a forecast by hand beside the posted one.
* *Alarm.* The limit is longer than a push and a conversion together and the
  age bound twice the limit: alarms can be borrowed several times, in both
  orders, and run past the limit if they were lost. The theorems hold for any.
* *Resolution.* Two changes of the platform are a resolution and its
  withdrawal, or a contradictory payload in between, and an answer in flight
  can be older than both. One command beside the timer's run is the least that
  overlaps; two instants tell a late stamp from an early one. Records meet only
  in the order of the posts, in a post's common payload, and in the failure
  that keeps the unit from scoring; one record per run keeps liveness within
  reach. The questions and types that one record cannot show (numeric, an
  option not priced, several questions of a group post) are parameters of the
  module and not of this run; the theorems hold for all of them.
* Every cap is a constant: `MaxReservations`, `MaxRestores`, `MaxActs`,
  `MaxEdits`, `MaxDeaths`, `MaxChanges`, `MaxVersions`, `MaxClock`,
  `MaxCommands`, `MaxFaults`, `MaxAttempts` of `Attempt`, `MaxNow`,
  `MaxRecords`, `MaxDecisions`, `MaxPhases`, `MaxAge`, `MaxLate`. `Spending` and
  `Submission` cap no deaths. Deadlock is checked in the submission, worker and
  resolution runs. The others say `CHECK_DEADLOCK FALSE`: spending may stop
  once the money is spent and a lost witness file bars every poll
  (`tournament_state.py:200`); an attempt, a comparison, a question at the desk
  and a phase end, and these modules bound how many there are.

### Fairness

* *Submission* (`FairSpec`). A process that does not die runs on (`WF` of its
  steps; `Crash` may always come first). The timer's recovery loop confirms an
  intent if it can again and again (`SF`): the unit polls every five minutes.
  The platform decides about every request. The operator repeats the commands
  of runbook sections L2 and L4 while they apply. Nothing makes an operator
  enable anything: `LandedIsReported` is stated for activations in force again
  and again.
* *Spending.* Nothing is assumed of the worker. `reconcile-restored` and
  `correct-costs` are repeated by the operator and do not die at the same step
  each time.
* *Worker.* Polls start and steps end (`WF`): `OnUnitActiveSec` of the timer,
  and phase limits of 240 and 480 seconds on every wait. Opening a window,
  reading a stored forecast back and asking for a comment succeed in the end if
  possible again and again (`SF`): without it the platform could be unreadable
  at every poll. That run has no deaths; a worker that dies in every poll
  decides nothing.

* *Resolution.* The timer fires every six hours and its runs go on; the
  operator's commands need not end. Fetches fail and runs are killed a bounded
  number of times, the platform settles after a bounded number of changes: the
  properties say what is then caught up.

* *Attempt, Evidence, Desk, Alarm* have safety properties only; an attempt that
  never goes on is the business of `Worker` and `Spending`.

### Where the documents and the code disagree

`worker_exhausted`, `RecordedIsNotExhausted`. The attempts gate
(`tournament.py:1110`) is asked before the look for a stored record (1140): a
forecast recorded by the last attempt and not posted at once is blocked as
exhausted and never posted under that activation.

Six more properties are stated in the modules, are not listed in a run, and do
not hold of the code. To see one fail, make the changes given to the cfg named
and check the property alone (the first is a PROPERTY, the others invariants):

| Property | Start from | What happens |
|---|---|---|
| `Submission.ReleasedPostNotRepeated` | `Submission_settled` with `SPECIFICATION Spec`, `ReleaseRule = "looked"`, 2 records | M2-716 says the intent guard stops a repeat after a release of a key whose post landed after all. The guard is read once (`submission_policy.py:119`), before the reservation; a command that was past it when the first one wrote its intent posts again. The proofs therefore assume that `release-key`'s assertion is true. |
| `Spending.WithinSeriesCeilings` | `Spending_restore` with `Ceiling <- Wide`, `SeriesCeiling = 3`, `MaxRestores = 1` | `restore.py:91` brings a reservation back without its series, so a later project of the series does not see it. `ChargesAreCounted` holds for each project all the same. |
| `Resolution.AppendedInOrder` | `Resolution_fair` with `SPECIFICATION Spec` | Migration 014 says observations are appended in the order they were made. The clock is read after the fetch (`resolution_ingest.py:128`), so of two overlapping runs the one with the older answer may have the later stamp, and its row comes after the newer one. `LedgerCatchesUp` holds: the next ingestion appends the newer answer again. |
| `Attempt.NothingAbortsTheBatch` | `Attempt_three` | `_attempt_question` says it never raises (`pipeline_live.py:547`). Reading a current checkpoint's packet (446) is outside its `try` blocks: if that read fails the rest of the batch is not attempted. |
| `Evidence.ShadowsShareTheirControl` | `Evidence_rebuilt` | A shadow's control is "the control recorded in the same poll, for the same question, from the research the lens followed" (`020_shadow_forecasts.sql:17`), and the shadow rests on "the baseline runs the control's research checkpoint names" (`forecast/shadow.py:31`). The code joins them by instant. A batch starts at 1; a poll opens its window at 2, checkpoints, and dies; the batch checkpoints, at 1. The next poll goes on at 2: its control is made from the last checkpoint, the batch's (`pipeline_live.py:442`), its lens follows the one at 2 (`tournament.py:767`). `ShadowsAddTheLens` holds and is proved: this is the only way. |
| `Alarm.AlarmIsNeverLost` | `Alarm_late` | `notify.py` restores a live timer and never disarms it (277), unless the push's alarm comes inside its `finally` (273-281): the exception then skips the re-arming and the phase has no alarm. The same window exists in `cdf._bounded`. Both alarm properties except a phase in which it was hit. |

Seen while modelling and claimed by no run:

* A death between a witness row and its files stops every activation for good
  (`tournament_state.py:200`), which the models have as `torn` and `~Whole`.
* The lens and shadow arms go on after a storage failure (`tournament.py:795`,
  `881`).
* A comment whose intent a restore lost may be requested again, so `OneComment`
  and `Errand` allow one request more for each restore.
* Re-enabling after a verdict opens as many windows as a fresh activation, where
  `tournament.py:1097` says one re-purchase.
* With room for one question a poll, a recorded forecast that is withheld at
  every poll keeps the questions behind it waiting until it closes
  (`tournament.py:1157`). `QuestionsAreDecided` is therefore claimed for one
  question: `Worker_fair` with `Questions = {1, 2}`, `MaxAttempts = 1` and
  `Window = 0` finds the second one waiting for ever.
* A question edited after its forecast was recorded and before it was posted is
  decided by what was recorded (`tournament.py:1269`).
* An intent whose POST was never sent makes the policy refuse the question as a
  repeat until a person settles it (`submission_policy.py:201`).
* A score that the platform publishes after the resolution is not stored while
  the observation stays the same (`lifecycle.py:1858`; `RUNBOOK.md:709` says so).
* A failed push keeps its window's stamp, so that alert is silent for the rest
  of the window (`notify.py:402`).
* The two evidence gates judge an update differently: a document that was
  updated before it was published is usable by `quality.py` and may be stale by
  `sufficiency.py`. A poll then pays for a model call and stores a record that
  failed its gate.
* `max_adjacent_pmf` below what a curve needs to reach from end to end is
  accepted by the configuration and not refused by the preflight; hence the
  premise `Spans` of `RefusalIsExact`.
* A multiple-choice question of more than 64 options is recorded and cannot be
  posted, as `multiple_choice.py:39` says.
* A rejected record stays `validated`, and a later approval of it counts.

## What is proved

All theorems are for any constants that satisfy the modules' assumptions; TLC
evaluates these assumptions in every run.

`SubmissionProofs`, for any set of processes and versions and any bound on
reservations:

| Theorem | Assuming | Says |
|---|---|---|
| `InductiveHolds`, `TypeHolds` | `release-key`'s assertion true, or unused | the inductive invariant |
| `OneLivePostHolds` | the same | at most one POST landed or may land |
| `PostLeavesTracesHolds`, `SubmittedIsLiveHolds`, `LandedIsRecoverableHolds`, `NoBlindRetryHolds` | the same | the safety properties of the runs |
| `OnePostHolds` | `release-key` unused | at most one request leaves |
| `SubmissionImplementsPostOnce` | `release-key` unused | the refinement |

A safety property such as `OneLivePost` is not inductive: it says nothing of
the command about to post. `Inductive` adds where a reservation is while its
holder lives, that a holder's reservation is the key's latest and unreleased,
that at most one version is claimed at a time, and what a process in hand of a
platform read may still write. Each action is shown to keep each part; the
parts it does not touch are dealt with once.

`SpendingProofs`, for any finite set of calls, any projects, providers,
estimates and ceilings, and any bounds on reservations and restores:

| Theorem | Assuming | Says |
|---|---|---|
| `InductiveHolds`, `TypeHolds` | | the inductive invariant |
| `NoRepeatPurchaseHolds` | | no call leaves the host twice |
| `ChargesAreCountedHolds` | | a project that may buy counts each request it sent, once |
| `SettlementStandsHolds` | | nothing but a restore rewrites what was settled |
| `PricedCeilingsHold` | | without a restore, charges stay within both ceilings, but for the calls that an earlier version settled at zero |
| `SeriesCeilingsHoldHolds`, `ImplementsPurseHolds` | `Understated = {}` | without that exception; and the refinement of `Purse` |

`Understated` are calls that were already bought and settled at zero before the
first step (`tournament_state.py:700`): the budget does not see them until
`correct-costs` runs, so with one of them a ceiling can be passed and `Purse`
does not start empty. `NoRepeatPurchase` and `ChargesAreCounted` allow them.

What is counted and what was charged are in different places, and a restore
takes one of them back. `Inductive` says of a ledger only what is as true of an
old backup (`StoreSound`); that a request which left is in the guard, and known,
started or held, to any ledger that has its witness (`SentIsKnown`); that while a
poll runs the ledger is not behind the guard (`Ahead`); and that the reservation
in hand fits beside all that may still be charged (`HandFits`). The ceilings of
a series need `Unrestored` on top: without a restore every row counts.

`WorkerProofs`, for any questions, versions, limits and numbers of activations,
edits, deaths and restores: `InductiveHolds`, `TypeHolds`, `OneForecastHolds`,
`OneCommentHolds`, `CommentFollowsForecastHolds`, `WindowsAreBoundedHolds`,
`VerdictsStandHolds`, `FailuresAreBoundedHolds`, `NotedHolds`,
`ImplementsErrandHolds`. The heart of `OneForecast` is
that a POST leaves a trace in the guard and the guard's trace is an intent or a
hold in every ledger a restore can produce; of the bounds, that the backup
satisfies them too. `FailuresAreBounded` needs a second invariant, `Paced`: each
failure paid for ended a window of its version, no two the same one, and the
windows opened since are of no earlier activation, so that at most one failed
window was inherited.

`ImplementsErrandHolds` is the refinement. Two more invariants carry it.
`NotedHolds`: what a ledger says became of a forecast is what became of it, in the
backup too, and no answer that comes late takes it back. `Requested`: the requests
made or about to be made for a comment are at most the restores and the intent on
file, so that a second one needs a restore that lost the first one's intent.
`OneCommentHolds` follows: one request, and one for each restore.

`ResolutionProofs`, for any records, questions, posts, answers and runs, and
any bounds on changes, versions, clock, commands and faults: `InductiveHolds`,
`TypeHolds`, `StatusFollowsRowsHolds`, `HistoryIsChangesHolds`,
`ScoresBelongHolds`, `NothingStaleIsScoredHolds`, `ImplementsScoreboardHolds`.
The three invariants are inductive together with the types, because every
transaction reads again what it decides by; the types need one more part,
`Listing`: a run asks only for the posts of records it has listed. In the
refinement of `Scoreboard` each transaction is a step whose guard speaks of the
rows alone, so that how runs overlap cannot be seen in the ledger
(`AnswerObserves`, `ScoreMarks`). That two commands keep the status in step with
rows they write in separate transactions is `StatusFollowsRows`, from which
`StatusIsLabel`.

`AttemptProofs`, for any processes, questions, documents and settings, any
number of attempts and faults: `InductiveHolds`, `RecordsAreAttributableHolds`,
`ReplaysAreFaithfulHolds`, `NoHindsightHolds`, `EmptyEvidenceIsMarkedHolds`,
`ReportsAddUpHolds`. None of the properties is inductive: each speaks of records,
and a record is written from what a process has held in memory since other
processes moved. `Inductive` says what may be believed of it at each step
(`Backed`, `Explained`, `InFile`, `AnswersTo`), and that this stays true because a
completed run never changes and a run is of one attempt, which one process makes.
`ReportsAddUp` is about the moment a batch moves on; `Balanced` follows each paid
call until then, from the run at hand to the retrieval's account, or the model's
tries, to the report.

`AlarmProofs`, for any limits, any number of borrowings and any lateness:
`InductiveHolds`, `PhaseKeepsItsAlarmHolds`, `PhaseIsNotCutShortHolds`. The
invariant is an equation with an error: what was saved, less what has been
measured since, is what is left of the phase, up to the ticks that passed
between two calls.

`EvidenceProofs`, for any runs, answers of any length, settings, instants and any
number of records:

* `InductiveHolds`, `PacketsAreReproducibleHolds`. Checkpoints name completed
  runs, whose rows stand; every record was made from one, whole or filtered at its
  own instant, so the policy's filtering at that instant gives it again.
* `StoredIsStrongestHolds` and `ReportsAreComponentsHolds` are about what
  `Deduplicate`, `Find` and `Parents` compute. These are recursive functions, and
  induction over their input is not available; but the first place at which what
  they compute would be wrong is, by the well-founded order of the naturals
  (`LeastOf`), and at that place the step before it was right. What each step keeps
  is a lemma: `CollapseKeeps`, that a survivor is the strongest of its key so far;
  `JoinedGroups`, that near duplicates already met have one root and that a root
  gathers nothing beyond what near duplication links. The assumption `IsOffer` says
  that two documents of a run with one rendering are one document, which is what
  `_sort_key` is total over.
* `ShadowsAddTheLensHolds`. The control and its lens each come from a checkpoint,
  and nothing relates the two but their places in the journal. `Researching` says
  what may stand between those places: a poll's research is bought under the window
  that was open (`PollsWindow`), windows follow one another in time
  (`WindowsInOrder`), and what a poll judges was last when it looked
  (`JudgesTheLatest`). So if they are two checkpoints, one that is no earlier than
  the lens's is a batch's under an instant no later than the poll's (`ComesBetween`);
  if they are one, the packets agree (`ControlIsUsable`, `LensFollows`).

`DeskProofs`, for any questions, replies, conversions, configurations and files:

* `InductiveHolds`, `PostedIsApprovedHolds`. At most one decision approves; its
  payload is what the record gives under some configuration; only that is posted.
* `KnownHolds`, `RecordedIsPostableHolds`, `RefusedHasNoAnswerHolds`. What is
  recorded was parsed and converted under `used`. That it can be posted under
  `used` is then a fact about two sets of rules, and needs that the payload's
  order is a permutation (`InOrderSorts`) and a sum the same in any order
  (`TotalInOrder`).
* `AdmitsIsExact`, for any number of options: the preflight's test of the bounds
  holds if and only if some split between them sums to the whole. One way each
  sum lies between the sums of the bounds; the other, sums change by one unit at
  a time, so none is left out (`SplitsReach`).
* `VerdictIsTrueHolds`. What was posted names each option once, the platform lists
  the same options in some order, and the entries are forecasts over that list.

* `RefusalIsExactHolds`: a question of a supported type is refused if and only if no
  reply to it could be recorded. A refused question has no answer whatever the
  replies and conversions are. That an admitted one has an answer needs that the
  replies and conversions the constants list are rich enough: `ModelMayAnswer`,
  that a model may give any permitted probability, any permitted split that sums to
  the whole, or values in order inside the bounds, once everything else about its
  reply is in order; `SdkMayConvert`, that where the grid allows it the library may
  return one curve that climbs evenly from end to end. `AskedIsAnswerable` then
  builds the reply: for options, the split whose existence `AdmitsIsExact` derives
  from the bounds; for numbers, a curve whose steps are within a cap that `Spans`.

The other assumptions on the constants say what the validators of the configuration
and the canonical questions accept (`IsConfig`, `IsQuestion`), and that no two options
have one label. TLC evaluates all of them on the inputs of `desk_posted`.

Only model-checked:

* liveness, which is out of the prover's reach: `LandedIsReported`,
  `ClaimIsSettled`, `RestoreEnds`, `CreditsAreSettled`, `QuestionsAreDecided`,
  `ForecastsAreCommented`, `LedgerCatchesUp`, `ScoresCatchUp`, `WithheldIsPushed`;
* the properties of the disagreements.

## Not modelled

* The watchdog: it reads the ledger and pages, nothing depends on its steps.
* Exports, reports, `show` and other read-only commands; formatting, logging and
  redaction; development scripts.
* The translation of the platform's payloads into questions and back, the
  parsing of a provider's body and of a reply's JSON, the reading of the
  configuration: each is pure, and stands in the models as a set of possible
  results.
* The text of prompts, evidence and comments; URL canonicalisation and hashes,
  taken as injective; the arithmetic of the SDK and of the scoring rules.
* Construction of network clients.
* SQLite's transactions are taken as atomic and durable (`synchronous=FULL`),
  files as written once or not at all.
* The operator is assumed to keep the guard directory through a restore, as
  `docs/TOURNAMENT-OPERATIONS.md` asks.

## Plan

Done, in order of what can go wrong worst: submission, spending, worker,
resolution and scoring, attempts with their retrieval, alarms, evidence, the
desk; the proofs of the safety properties of all of them; and the refinements of
`PostOnce`, `Purse`, `Errand` and `Scoreboard`, each proved.

Next:

1. `Evidence` and `Attempt` composed, so that `Usable` is the gate and not a
   parameter.
2. The steps of `restore.py` that `Worker` takes in one, as steps, so that a restore
   that dies part way meets a poll.
