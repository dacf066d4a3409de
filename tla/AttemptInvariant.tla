-------------------------- MODULE AttemptInvariant --------------------------
(***************************************************************************)
(* An inductive strengthening of the safety properties of Attempt.  It     *)
(* rests on two facts: a completed run never changes, and a run is of one  *)
(* attempt, which one process makes.  Balanced strengthens ReportsAddUp.   *)
(***************************************************************************)
EXTENDS Attempt

Types ==
    /\ \A i \in DOMAIN runs : i \in RunIds /\ runs[i] \in RunType
    /\ pass \in [Procs -> PassType]
    /\ job \in [Procs -> JobType]
    /\ pc \in [Procs -> {"idle", "next", "research", "retrieve", "evidence", "model",
                         "reply", "filed", "aborted"}]
    /\ checkpoints \in [Questions -> [at : 0 .. MaxClock, ids : SUBSET RunIds]]
    /\ clock \in 0 .. MaxClock
    /\ minted \in Nat

-----------------------------------------------------------------------------
(* What is known of evidence, of a reply, of a file.                       *)

\* The runs are complete and of the question, the documents are theirs, and they
\* are not from the future of now, nor for a live attempt too old.
Backed(ids, docs, question, now, live) ==
    /\ ids \subseteq Completed(question)
    /\ docs \subseteq Evidence(ids)
    /\ \A i \in ids : runs[i].at <= now /\ (live => now - runs[i].at <= Window)

Explained(ids, docs, marks) ==
    docs = {} => IF Troubled(ids) THEN "provider_failed_exhausted" \in marks
                                  ELSE "no_documents" \in marks

InFile(attempt, docs, reply) ==
    \E o \in outputs : o.attempt = attempt /\ o.asked = docs /\ o.reply = reply

AnswersTo(reply, docs) == \E o \in outputs : o.attempt = reply /\ o.asked = docs

-----------------------------------------------------------------------------
(* What is known of a process at a step, from what it holds.               *)

Active == {"research", "retrieve", "evidence", "model", "reply", "filed"}

Judging == {"evidence", "model", "reply", "filed"}

Numbered(at, j) ==
    /\ j.attempt <= minted /\ j.now <= clock
    /\ at \in Active => j.attempt # 0 /\ j.question \in Questions

\* A retrieval holds an open run of its own, and the runs it has completed are
\* of its question and its instant.
Retrieving(at, s, j) ==
    /\ at = "research" => \A i \in DOMAIN runs : i[1] # j.attempt
    /\ at = "retrieve" =>
        /\ s.attempt = j.attempt /\ s.question = j.question /\ s.now = j.now
        /\ s.ids \subseteq Completed(s.question)
        /\ \A i \in s.ids : runs[i].at = s.now
        /\ LET run == <<s.attempt, s.provider>> IN
           /\ s.stage = "open" => run \notin DOMAIN runs
           /\ s.stage \in {"call", "store"} =>
                /\ run \in DOMAIN runs /\ ~runs[run].complete
                /\ runs[run].question = s.question /\ runs[run].at = s.now
        /\ s.provider = "asknews" /\ s.stage \in {"open", "call", "store"} =>
             <<s.attempt, "exa">> \notin DOMAIN runs

\* What an attempt judges is what its runs found; with no document it knows
\* why it goes on; what it filed is in the file.
Judged(p, at, j) ==
    /\ at \in Judging => Backed(j.ids, j.docs, j.question, j.now, p \notin Replays)
    /\ at = "evidence" => /\ j.docs = Evidence(j.ids)
                          /\ j.docs = {} => j.troubled = Troubled(j.ids)
    /\ at \in {"model", "reply", "filed"} /\ p \notin Replays =>
        Explained(j.ids, j.docs, {j.poor})
    /\ at = "filed" /\ j.filed = "written" => InFile(j.attempt, j.docs, j.reply)
    /\ at \in {"reply", "filed"} =>
        IF p \in Replays THEN j.reply # 0 /\ AnswersTo(j.reply, j.docs)
                         ELSE j.reply \in {0, j.attempt}
    /\ p \in Replays => at \in {"idle", "reply", "filed"}

ProcessKnows(p) ==
    /\ Numbered(pc[p], job[p])
    /\ Retrieving(pc[p], pass[p], job[p])
    /\ Judged(p, pc[p], job[p])

AttemptsAreOwn ==
    \A p, q \in Procs : p # q /\ job[p].attempt # 0 => job[p].attempt # job[q].attempt

-----------------------------------------------------------------------------
(* What is known of what is stored.                                        *)

RunsAreDated == \A i \in DOMAIN runs : runs[i].at <= clock /\ i[1] <= minted

CheckpointsNameTheirRuns ==
    \A q \in Questions :
        /\ checkpoints[q].ids \subseteq Completed(q)
        /\ \A i \in checkpoints[q].ids : runs[i].at = checkpoints[q].at

OutputsHaveTheirOrigin ==
    \A o \in outputs : o.reply \in Nat /\ (o.reply # 0 => AnswersTo(o.reply, o.asked))

RecordIsSound(r) ==
    /\ Backed(r.runs, r.docs, r.question, r.at, ~r.replay)
    /\ r.path => InFile(r.attempt, r.docs, r.reply)
    /\ IF r.replay THEN r.path /\ AnswersTo(r.reply, r.docs)
                   ELSE Explained(r.runs, r.docs, r.gaps)

Inductive ==
    /\ Types
    /\ \A p \in Procs : ProcessKnows(p)
    /\ AttemptsAreOwn
    /\ RunsAreDated
    /\ CheckpointsNameTheirRuns
    /\ OutputsHaveTheirOrigin
    /\ \A r \in records : RecordIsSound(r)

-----------------------------------------------------------------------------
(* What a batch has paid for.                                              *)

\* Calls of the run at hand that are not billed yet.
Unbilled(s) == IF s.stage \in {"open", "call", "store"} THEN s.calls ELSE 0

\* What the account of a retrieval comes to.
Owed(s) == (s.known + s.unpriced) + Unbilled(s)

\* Each call is in the report so far, on the retrieval's account, of the run at
\* hand or one of the model's.
Balances(at, s, j, paid) ==
    /\ (j.known + j.unpriced) + Owed(s) + j.tries = paid
    /\ at \notin {"model", "reply", "filed"} => j.tries = 0
    /\ at \in {"idle", "next", "research", "aborted"} => s.known = 0 /\ s.unpriced = 0
    /\ at # "retrieve" => s.stage = "off"
    /\ s.stage = "open" => s.calls = 0
    /\ s.provider = "asknews" /\ s.stage \in {"open", "call", "store", "refused"} =>
         s.known = 0 /\ s.unpriced = 0
    /\ s.stage = "refused" => s.provider = "asknews"

Balanced ==
    /\ spent \in [Procs -> Nat]
    /\ \A p \in Batches : Balances(pc[p], pass[p], job[p], spent[p])
=============================================================================
