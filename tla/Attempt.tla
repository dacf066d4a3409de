------------------------------- MODULE Attempt -------------------------------
(***************************************************************************)
(* One attempt at one question, from evidence to a stored forecast: reuse  *)
(* or buy evidence, judge it, ask the model at most MaxTries times, file   *)
(* the replies, append the record and its first event in one transaction,  *)
(* or the event that says why there is none.  A batch (run-live) attempts  *)
(* question after question with one clock reading; the worker's polls make *)
(* single attempts under a budget; run-replay stores the forecast a filed  *)
(* reply already gave.  They run side by side and may die at any step.     *)
(*                                                                         *)
(* Sources: pipeline_live.py, pipeline.py, forecast/generate.py,           *)
(* forecast/persist.py, forecast/store.py, forecast/replay.py,             *)
(* lifecycle.py.                                                           *)
(*                                                                         *)
(* Simplifications.                                                        *)
(*  - A request is the set of documents it shows; the question, the model, *)
(*    the prompt and the settings do not change.                           *)
(*  - An accepted reply is the attempt it answered, since replies differ.  *)
(*  - Prompt and model settings agree at every replay.                     *)
(*  - One checkpoint fingerprint per question.                             *)
(***************************************************************************)
EXTENDS Retrieval

CONSTANTS
    Batches,       \* processes that run run-live
    Replays,       \* processes that run run-replay
    Window,        \* ticks a checkpoint may be reused for, 30 minutes
    Budget,        \* run_limits.max_cost_usd, in calls
    MaxTries,      \* model.allowed_tries
    FailOnStale,   \* forecast.fail_on_stale_research
    MaxAttempts    \* bound on attempts

ASSUME AttemptBounds ==
    /\ Window \in Nat
    /\ Budget \in Nat
    /\ MaxTries \in {1, 2}
    /\ MaxAttempts \in Nat
ASSUME AttemptNames ==
    /\ Procs = Polls \cup Batches \cup Replays
    /\ Polls \cap Batches = {}
    /\ Replays \cap (Polls \cup Batches) = {}
    /\ FailOnStale \in BOOLEAN

Attempts == 1 .. MaxAttempts

VARIABLES
    checkpoints,   \* the newest research_checkpoint of each question
    events,        \* pipeline_failure_events
    records,       \* forecast_records with their lifecycle and gap rows
    outputs,       \* raw model output artifacts
    pc,            \* where each process is
    job,           \* what it holds in memory
    clock,         \* the host's clock, as last read
    minted         \* attempt ids minted so far

ledger == <<checkpoints, events, records>>
counts == <<clock, minted>>
vars == <<retrieval, spent, faults, ledger, outputs, pc, job, counts>>

-----------------------------------------------------------------------------
EventType ==
    [attempt : Attempts, question : Questions,
     type    : {"research_failed", "generation_failed"}]

RecordType ==
    [attempt : Attempts, question : Questions, at : 0 .. MaxClock,
     runs    : SUBSET RunIds,           \* the runs of its packet
     docs    : SUBSET Docs,             \* the documents of its packet
     reply   : Attempts,                \* the forecast
     path    : BOOLEAN,                 \* raw_output_path is set
     event   : {"validated", "validation_failed"},
     gaps    : SUBSET {"named_source_absent", "no_documents",
                       "provider_failed_exhausted"},
     replay  : BOOLEAN]

OutputType ==
    [attempt : Attempts, question : Questions, asked : SUBSET Docs,
     reply   : 0 .. MaxAttempts]        \* 0 if no reply was acceptable

JobType ==
    [todo     : SUBSET Questions,     \* questions of the batch still to come
     question : Questions \cup {None},
     attempt  : Nat,
     now      : 0 .. MaxClock,
     ids      : SUBSET RunIds,        \* the runs of the packet
     troubled : BOOLEAN,
     docs     : SUBSET Docs,          \* the documents of the packet
     poor     : {"no", "no_documents", "provider_failed_exhausted"},
     absent   : BOOLEAN,              \* no usable document of a named source
     tries    : Nat,                  \* model calls, and those with a cost
     priced   : Nat,
     reply    : Nat,                  \* the accepted one
     filed    : {"off", "written", "failed"},
     known    : Nat,                  \* the report of the batch
     unpriced : Nat]

Idle == [todo |-> {}, question |-> None, attempt |-> 0, now |-> 0,
         ids |-> {}, troubled |-> FALSE, docs |-> {}, poor |-> "no",
         absent |-> FALSE, tries |-> 0, priced |-> 0, reply |-> 0,
         filed |-> "off", known |-> 0, unpriced |-> 0]

TypeOK ==
    /\ DOMAIN runs \subseteq RunIds
    /\ \A i \in DOMAIN runs : runs[i] \in RunType
    /\ papers \subseteq RunIds
    /\ pass \in [Procs -> PassType]
    /\ spent \in [Procs -> Nat]
    /\ faults \in 0 .. MaxFaults
    /\ checkpoints \in [Questions -> [at : 0 .. MaxClock,
                                  ids : SUBSET RunIds]]
    /\ events \subseteq EventType
    /\ records \subseteq RecordType
    /\ outputs \subseteq OutputType
    /\ pc \in [Procs -> {"idle", "next", "research", "retrieve", "evidence",
                         "model", "reply", "filed", "aborted"}]
    /\ job \in [Procs -> JobType]
    /\ clock \in 0 .. MaxClock
    /\ minted \in 0 .. MaxAttempts

Init ==
    /\ InitRetrieval
    /\ checkpoints = [q \in Questions |-> [at |-> 0, ids |-> {}]]
    /\ events = {}
    /\ records = {}
    /\ outputs = {}
    /\ pc = [p \in Procs |-> "idle"]
    /\ job = [p \in Procs |-> Idle]
    /\ clock = 0
    /\ minted = 0

-----------------------------------------------------------------------------
(* Ends of an attempt                                                      *)

\* A poll or a replay is over; a batch goes on with what it will report.
Rest(p, known, unpriced) ==
    /\ pass' = [pass EXCEPT ![p] = Off]
    /\ IF p \in Batches
         THEN /\ pc' = [pc EXCEPT ![p] = "next"]
              /\ job' = [job EXCEPT
                           ![p] = [Idle EXCEPT
                                     !.todo = job[p].todo, !.now = job[p].now,
                                     !.attempt = job[p].attempt,
                                     !.known = job[p].known + known,
                                     !.unpriced = job[p].unpriced + unpriced]]
              /\ UNCHANGED spent
         ELSE /\ pc' = [pc EXCEPT ![p] = "idle"]
              /\ job' = [job EXCEPT ![p] = Idle]
              /\ spent' = [spent EXCEPT ![p] = 0]

\* The process ends or dies.
Gone(p) ==
    /\ pc' = [pc EXCEPT ![p] = "idle"]
    /\ job' = [job EXCEPT ![p] = Idle]
    /\ pass' = [pass EXCEPT ![p] = Off]
    /\ spent' = [spent EXCEPT ![p] = 0]

\* An exception ends its poll or its batch.
Aborted(p) ==
    /\ pc' = [pc EXCEPT ![p] = IF p \in Batches THEN "aborted" ELSE "idle"]
    /\ job' = [job EXCEPT ![p] = Idle]
    /\ pass' = [pass EXCEPT ![p] = Off]
    /\ spent' = [spent EXCEPT ![p] = 0]

\* The failure event, in a transaction of its own; if that fails the outcome
\* says so and nothing else does.
FailureEvent(p, type) ==
    \/ /\ events' = events \cup {[attempt |-> job[p].attempt,
                                  question |-> job[p].question,
                                  type |-> type]}
       /\ UNCHANGED faults
    \/ Fault /\ UNCHANGED events

\* The cost of the model's calls is known when all of them told it.
ModelCost(p) == IF job[p].priced = job[p].tries THEN job[p].priced ELSE 0
ModelUnpriced(p) == IF job[p].priced = job[p].tries THEN 0 ELSE job[p].tries

-----------------------------------------------------------------------------
(* Batches and polls                                                       *)

\* The clock moves on when it is read; the first reading is the first instant.
Readings ==
    IF minted = 0 /\ \A p \in Procs : pc[p] = "idle" THEN {clock}
                                                    ELSE clock .. MaxClock

StartBatch(p) ==
    /\ p \in Batches
    /\ pc[p] \in {"idle", "aborted"}
    /\ minted < MaxAttempts
    /\ \E todo \in (SUBSET Questions) \ {{}}, t \in Readings :
          /\ clock' = t
          /\ job' = [job EXCEPT ![p] = [Idle EXCEPT !.todo = todo, !.now = t]]
    /\ pc' = [pc EXCEPT ![p] = "next"]
    /\ spent' = [spent EXCEPT ![p] = 0]
    /\ UNCHANGED <<retrieval, faults, ledger, outputs, minted>>

\* Before each question but the first.
CostReached(p) == job[p].attempt # 0 /\ job[p].known >= Budget

TakeQuestion(p) ==
    /\ pc[p] = "next"
    /\ job[p].todo # {}
    /\ ~CostReached(p)
    /\ minted < MaxAttempts
    /\ minted' = minted + 1
    /\ \E question \in job[p].todo :
          /\ \A other \in job[p].todo : question <= other
          /\ job' = [job EXCEPT ![p].question = question,
                                ![p].todo = @ \ {question},
                                ![p].attempt = minted + 1]
    /\ pc' = [pc EXCEPT ![p] = "research"]
    /\ UNCHANGED <<retrieval, spent, faults, ledger, outputs, clock>>

\* The report is printed.
EndBatch(p) ==
    /\ pc[p] = "next"
    /\ job[p].todo = {} \/ CostReached(p)
    /\ Gone(p)
    /\ UNCHANGED <<runs, papers, faults, ledger, outputs, counts>>

\* Inside a checkpoint window of the worker the clock reading is the window's.
StartPoll(p) ==
    /\ p \in Polls
    /\ pc[p] = "idle"
    /\ minted < MaxAttempts
    /\ minted' = minted + 1
    /\ clock' \in Readings
    /\ \E q \in Questions, now \in {t \in 0 .. clock' : clock' - t <= Window} :
          job' = [job EXCEPT ![p] = [Idle EXCEPT !.question = q, !.now = now,
                                                 !.attempt = minted + 1]]
    /\ pc' = [pc EXCEPT ![p] = "research"]
    /\ UNCHANGED <<retrieval, spent, faults, ledger, outputs>>

-----------------------------------------------------------------------------
(* Research                                                                *)

\* No reply could answer the question as the process is configured: nothing is
\* bought.
RefuseQuestion(p) ==
    /\ pc[p] = "research"
    /\ FailureEvent(p, "research_failed")
    /\ Rest(p, 0, 0)
    /\ UNCHANGED <<runs, papers, checkpoints, records, outputs, counts>>

\* Mutant of Current: only the age limit is checked.
XCurrent(p) ==
    /\ checkpoints[job[p].question].ids # {}
    /\ job[p].now - checkpoints[job[p].question].at <= Window

\* The newest checkpoint is of the last 30 minutes, as this attempt tells time.
Current(p) ==
    /\ checkpoints[job[p].question].ids # {}
    /\ job[p].now - checkpoints[job[p].question].at \in 0 .. Window

Reusable(p) == Current(p) /\ Evidence(checkpoints[job[p].question].ids) # {}

Reuse(p) ==
    LET ids == checkpoints[job[p].question].ids IN
    /\ pc[p] = "research"
    /\ Reusable(p)
    /\ job' = [job EXCEPT ![p].ids = ids, ![p].docs = Evidence(ids)]
    /\ pc' = [pc EXCEPT ![p] = "evidence"]
    /\ UNCHANGED <<retrieval, spent, faults, ledger, outputs, counts>>

\* The packet of a current checkpoint cannot be read: nobody catches that.
ReuseFails(p) ==
    /\ pc[p] = "research"
    /\ Current(p)
    /\ Fault
    /\ Aborted(p)
    /\ UNCHANGED <<runs, papers, ledger, outputs, counts>>

\* There is no checkpoint to reuse, or the batch was told to refresh.
Buy(p) ==
    /\ pc[p] = "research"
    /\ ~Reusable(p) \/ p \in Batches
    /\ pass' = [pass EXCEPT ![p] = Begun(job[p].attempt, job[p].question,
                                       job[p].now)]
    /\ pc' = [pc EXCEPT ![p] = "retrieve"]
    /\ UNCHANGED <<runs, papers, spent, faults, ledger, outputs, job, counts>>

BuyStep(p) ==
    /\ pc[p] = "retrieve"
    /\ Retrieve(p)
    /\ UNCHANGED <<ledger, outputs, pc, job, counts>>

\* The retrieval never started, or storage failed after a paid call; under a
\* budget the latter stops the poll.
ResearchFails(p) ==
    /\ pc[p] = "retrieve"
    /\ \/ /\ pass[p].stage = "refused"
          /\ FailureEvent(p, "research_failed")
          /\ Rest(p, 0, 0)
       \/ /\ pass[p].stage = "paid"
          /\ p \notin Polls
          /\ FailureEvent(p, "research_failed")
          /\ Rest(p, pass[p].known, pass[p].unpriced)
    /\ UNCHANGED <<runs, papers, checkpoints, records, outputs, counts>>

\* An error of the budget or of storage ends the poll.
PollStops(p) ==
    /\ p \in Polls
    /\ \/ pc[p] = "retrieve" /\ pass[p].stage \in {"paid", "stopped"}
       \/ pc[p] = "retrieve" /\ pass[p].stage = "packet" /\ pass[p].lost
       \/ pc[p] = "evidence"       \* less than five minutes remain
       \/ pc[p] = "model"          \* a priced call's outcome is unknown
    /\ Aborted(p)
    /\ UNCHANGED <<runs, papers, faults, ledger, outputs, counts>>

\* any_provider_failed.
Troubled(ids) == \E i \in ids : runs[i].failed

Checkpoint(p) ==
    /\ pc[p] = "retrieve"
    /\ pass[p].stage = "packet"
    /\ ~(p \in Polls /\ pass[p].lost)
    /\ checkpoints' = [checkpoints EXCEPT
                          ![job[p].question] = [at |-> job[p].now,
                                                ids |-> pass[p].ids]]
    /\ job' = [job EXCEPT ![p].ids = pass[p].ids,
                          ![p].troubled = Troubled(pass[p].ids),
                          ![p].docs = Evidence(pass[p].ids)]
    /\ pass' = [pass EXCEPT ![p] = [Off EXCEPT !.known = pass[p].known,
                                              !.unpriced = pass[p].unpriced]]
    /\ pc' = [pc EXCEPT ![p] = "evidence"]
    /\ UNCHANGED <<runs, papers, spent, faults, events, records, outputs, counts>>

CheckpointFails(p) ==
    /\ pc[p] = "retrieve"
    /\ pass[p].stage = "packet"
    /\ Fault
    /\ Aborted(p)
    /\ UNCHANGED <<runs, papers, ledger, outputs, counts>>

-----------------------------------------------------------------------------
(* Judging the evidence                                                    *)

\* Mutant of Poor: an empty packet is forgiven whatever the providers did.
XPoor(p, final) == IF p \in Polls THEN "no_documents" ELSE "no"

\* evidence_poor_reason of an empty packet: a poll may forecast from a base
\* rate when no provider failed, or at the last attempt.
Poor(p, final) ==
    CASE p \notin Polls                  -> "no"
      [] p \in Polls /\ ~job[p].troubled -> "no_documents"
      [] p \in Polls /\ job[p].troubled  ->
            IF final THEN "provider_failed_exhausted" ELSE "no"

\* There is something to go on; an empty packet is read back.  Under a budget
\* only usable documents reach the model, and a named source without one is
\* noted.
GoOn(p) ==
    LET docs == IF p \in Polls THEN job[p].docs \cap Usable ELSE job[p].docs IN
    /\ pc[p] = "evidence"
    /\ \E final \in BOOLEAN :
       LET poor == IF job[p].docs = {} THEN Poor(p, final) ELSE "no" IN
       /\ docs # {} \/ poor # "no"
       /\ job' = [job EXCEPT ![p].poor = poor,
                             ![p].docs = docs,
                             ![p].absent = /\ p \in Polls
                                           /\ job[p].question \in Naming
                                           /\ docs \cap Official = {}]
    /\ pc' = [pc EXCEPT ![p] = "model"]
    /\ UNCHANGED <<retrieval, spent, faults, ledger, outputs, counts>>

\* There is none, or the empty packet cannot be read back.
NoEvidence(p) ==
    /\ pc[p] = "evidence"
    /\ job[p].docs = {}
    /\ \E final \in BOOLEAN :
          \/ Poor(p, final) = "no" /\ FailureEvent(p, "research_failed")
          \/ /\ Poor(p, final) # "no"
             /\ Fault
             /\ events' = events \cup {[attempt |-> job[p].attempt,
                                        question |-> job[p].question,
                                        type |-> "research_failed"]}
    /\ Rest(p, pass[p].known, pass[p].unpriced)
    /\ UNCHANGED <<runs, papers, checkpoints, records, outputs, counts>>

NothingUsable(p) ==
    /\ pc[p] = "evidence"
    /\ p \in Polls
    /\ job[p].docs # {}
    /\ job[p].docs \cap Usable = {}
    /\ FailureEvent(p, "research_failed")
    /\ Rest(p, 0, 0)
    /\ UNCHANGED <<runs, papers, checkpoints, records, outputs, counts>>

-----------------------------------------------------------------------------
(* The model                                                               *)

\* generate_forecast refuses its arguments.
GenerationRefused(p) ==
    /\ pc[p] = "model"
    /\ job[p].tries = 0
    /\ FailureEvent(p, "generation_failed")
    /\ Rest(p, pass[p].known, pass[p].unpriced)
    /\ UNCHANGED <<runs, papers, checkpoints, records, outputs, counts>>

\* The call fails or times out, its reply is not acceptable, its CDF takes too
\* long, or it is a forecast.  Only a reply that is not acceptable is asked
\* again.
ModelCall(p) ==
    /\ pc[p] = "model"
    /\ \E end \in {"accepted", "malformed_response", "timeout", "no_answer"} :
       \E priced \in IF p \in Polls \/ end = "no_answer" THEN {0} ELSE Prices :
          /\ job' = [job EXCEPT
                       ![p].tries = @ + 1,
                       ![p].priced = @ + priced,
                       ![p].reply = IF end = "accepted" THEN job[p].attempt
                                                        ELSE 0]
          /\ pc' = [pc EXCEPT
                      ![p] = IF /\ end = "malformed_response"
                                /\ job[p].tries + 1 < MaxTries
                               THEN "model" ELSE "reply"]
    /\ Paid(p)
    /\ UNCHANGED <<retrieval, faults, ledger, outputs, counts>>

-----------------------------------------------------------------------------
(* Filing and recording                                                    *)

\* The raw output artifact comes first, for a failed generation too.
FileReply(p) ==
    /\ pc[p] = "reply"
    /\ outputs' = IF Retain
                    THEN outputs \cup {[attempt |-> job[p].attempt,
                                        question |-> job[p].question,
                                        asked |-> job[p].docs,
                                        reply |-> job[p].reply]}
                    ELSE outputs
    /\ job' = [job EXCEPT ![p].filed = IF Retain THEN "written" ELSE "off"]
    /\ pc' = [pc EXCEPT ![p] = "filed"]
    /\ UNCHANGED <<retrieval, spent, faults, ledger, counts>>

FileReplyFails(p) ==
    /\ pc[p] = "reply"
    /\ Retain
    /\ Fault
    /\ job' = [job EXCEPT ![p].filed = "failed"]
    /\ pc' = [pc EXCEPT ![p] = "filed"]
    /\ UNCHANGED <<retrieval, spent, ledger, outputs, counts>>

GenerationFailed(p) ==
    /\ pc[p] = "filed"
    /\ job[p].reply = 0
    /\ FailureEvent(p, "generation_failed")
    /\ Rest(p, pass[p].known + ModelCost(p), pass[p].unpriced + ModelUnpriced(p))
    /\ UNCHANGED <<runs, papers, checkpoints, records, outputs, counts>>

\* assess_sufficiency of what the model saw.
Insufficient(docs) == docs \subseteq Stale

\* The gate a record fails: an empty packet that was forgiven is not held
\* against it.
GateFails(p) ==
    /\ FailOnStale
    /\ Insufficient(job[p].docs)
    /\ job[p].poor = "no"

FirstEvent(p) == IF GateFails(p) THEN "validation_failed" ELSE "validated"

\* A row for a named source that is absent, one for an empty packet.
Gaps(p) ==
    (IF job[p].absent THEN {"named_source_absent"} ELSE {})
    \cup ({job[p].poor} \ {"no"})

\* Mutant of NewRecord: the row names its artifact whatever became of it.
XNewRecord(p) ==
    [attempt |-> job[p].attempt, question |-> job[p].question,
     at |-> job[p].now, runs |-> job[p].ids, docs |-> job[p].docs,
     reply |-> job[p].reply, path |-> Retain,
     event |-> FirstEvent(p), gaps |-> Gaps(p),
     replay |-> p \in Replays]

NewRecord(p) ==
    [attempt |-> job[p].attempt, question |-> job[p].question,
     at |-> job[p].now, runs |-> job[p].ids, docs |-> job[p].docs,
     reply |-> job[p].reply, path |-> job[p].filed = "written",
     event |-> FirstEvent(p), gaps |-> Gaps(p),
     replay |-> p \in Replays]

\* One transaction: the next version, its first event, its gaps.
AppendVersion(p) ==
    /\ pc[p] = "filed"
    /\ job[p].reply # 0
    /\ records' = records \cup {NewRecord(p)}
    /\ Rest(p, pass[p].known + ModelCost(p), pass[p].unpriced + ModelUnpriced(p))
    /\ UNCHANGED <<runs, papers, faults, checkpoints, events, outputs, counts>>

Record(p) == p \notin Replays /\ AppendVersion(p)

\* not_recorded: the transaction is rolled back, the artifact stays.
NotRecorded(p) ==
    /\ pc[p] = "filed"
    /\ job[p].reply # 0
    /\ \/ Fault
       \/ p \in Replays /\ job[p].filed # "written" /\ UNCHANGED faults
    /\ Rest(p, pass[p].known + ModelCost(p), pass[p].unpriced + ModelUnpriced(p))
    /\ UNCHANGED <<runs, papers, ledger, outputs, counts>>

-----------------------------------------------------------------------------
(* run-replay                                                              *)

\* Mutant of Rebuilt: the rebuilt request is not compared.
XRebuilt(output) == output.reply # 0 /\ Completed(output.question) # {}

\* A filed reply, unless it failed, to the very request that all completed
\* runs of its question give again.
Rebuilt(output) ==
    /\ output.reply # 0
    /\ Completed(output.question) # {}
    /\ Evidence(Completed(output.question)) = output.asked

\* What an attempt at a question left behind.
ReadOutput(question, attempt) ==
    {output \in outputs : output.question = question /\ output.attempt = attempt}

StartReplay(p) ==
    /\ p \in Replays
    /\ pc[p] = "idle"
    /\ Retain
    /\ minted < MaxAttempts
    /\ minted' = minted + 1
    /\ clock' \in Readings
    /\ \E question \in Questions, attempt \in 1 .. minted :
       \E output \in ReadOutput(question, attempt) :
          /\ Rebuilt(output)
          /\ job' = [job EXCEPT
                       ![p] = [Idle EXCEPT
                                 !.question = output.question, !.now = clock',
                                 !.attempt = minted + 1,
                                 !.ids = Completed(output.question),
                                 !.docs = Evidence(Completed(output.question)),
                                 !.reply = output.reply]]
    /\ pc' = [pc EXCEPT ![p] = "reply"]
    /\ UNCHANGED <<retrieval, spent, faults, ledger, outputs>>

\* What was acceptable is no longer.
ReplyRejected(p) ==
    /\ p \in Replays
    /\ pc[p] = "reply"
    /\ FailureEvent(p, "generation_failed")
    /\ Rest(p, 0, 0)
    /\ UNCHANGED <<runs, papers, checkpoints, records, outputs, counts>>

\* A replay is recorded only with its own artifact, and with its gate's event.
RecordReplay(p) ==
    /\ p \in Replays
    /\ job[p].filed = "written"
    /\ AppendVersion(p)

-----------------------------------------------------------------------------
Crash(p) ==
    /\ pc[p] \notin {"idle", "aborted"}
    /\ Fault
    /\ Gone(p)
    /\ UNCHANGED <<runs, papers, ledger, outputs, clock, minted>>

Start(p) ==
    StartBatch(p) \/ TakeQuestion(p) \/ EndBatch(p) \/ StartPoll(p)
    \/ StartReplay(p)

Research(p) ==
    \/ RefuseQuestion(p) \/ Reuse(p) \/ ReuseFails(p) \/ Buy(p) \/ BuyStep(p)
    \/ ResearchFails(p) \/ PollStops(p) \/ Checkpoint(p) \/ CheckpointFails(p)

Judge(p) == GoOn(p) \/ NoEvidence(p) \/ NothingUsable(p)

Generate(p) ==
    \/ GenerationRefused(p) \/ ModelCall(p)
    \/ FileReply(p) \/ FileReplyFails(p) \/ GenerationFailed(p)
    \/ Record(p) \/ NotRecorded(p) \/ ReplyRejected(p) \/ RecordReplay(p)

Next ==
    \E p \in Procs :
        Start(p) \/ Research(p) \/ Judge(p) \/ Generate(p) \/ Crash(p)

Spec == Init /\ [][Next]_vars

-----------------------------------------------------------------------------
(* Properties                                                              *)

Live(r) == ~r.replay

\* A stored forecast can be traced to what it was given: every run it names is
\* complete and of its question, what it saw was found by them, and where its
\* row names a raw output file that file holds that very request and reply.
\* append_forecast_version, write_raw_model_output and complete_run, one before
\* the other.
RecordsAreAttributable ==
    \A r \in records :
       /\ r.runs \subseteq Completed(r.question)
       /\ r.docs \subseteq Evidence(r.runs)
       /\ r.path => \E o \in outputs : /\ o.attempt = r.attempt
                                      /\ o.asked = r.docs
                                      /\ o.reply = r.reply

\* A replay attaches a reply to the request it answered, and the record it
\* appends can be replayed again.  pipeline.py, _rebuilt_input and the artifact
\* it insists on.
ReplaysAreFaithful ==
    \A r \in records :
       r.replay => /\ r.path
                   /\ \E o \in outputs : /\ o.attempt = r.reply
                                         /\ o.asked = r.docs

\* No forecast uses evidence from after the instant it claims to be made at,
\* nor a live one evidence older than a checkpoint may be: of a batch that
\* keeps its first clock reading and a poll that keeps its own, the slower one
\* does not take up what the other found later.  pipeline_live.py, _research.
NoHindsight ==
    \A r \in records :
       \A i \in r.runs : /\ runs[i].at <= r.at
                         /\ Live(r) => r.at - runs[i].at <= Window

\* A live forecast from no document at all says so in a gap row, and the row
\* says it truly: of a provider that failed it does not say that every provider
\* answered with nothing.  evidence_poor_reason and the two writers of gaps.
EmptyEvidenceIsMarked ==
    \A r \in records :
       r.docs = {} /\ Live(r) =>
             IF Troubled(r.runs) THEN "provider_failed_exhausted" \in r.gaps
                                ELSE "no_documents" \in r.gaps

\* What a batch reports accounts for every call it paid for, as cost or as a
\* call whose cost is unknown, whichever way each of its questions ended.
ReportsAddUp ==
    \A p \in Batches :
       pc[p] = "next" => job[p].known + job[p].unpriced = spent[p]

\* Every failure of a question becomes that question's outcome
\* (_attempt_question, "Never raises"): no exception ends a batch.
NothingAbortsTheBatch == \A p \in Batches : pc[p] # "aborted"
=============================================================================
