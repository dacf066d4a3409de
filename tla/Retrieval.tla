------------------------------ MODULE Retrieval ------------------------------
(***************************************************************************)
(* Buying evidence for one question: the primary provider is asked, then   *)
(* the fallback if the answer does not do, each under a run that is opened *)
(* before its first call and completed, with its documents, in one         *)
(* transaction after its raw responses are filed.  Several processes do so *)
(* side by side on one ledger.                                             *)
(*                                                                         *)
(* Sources: research/orchestrate.py, asknews.py, exa.py, persist.py,       *)
(* store.py, quality.py, durable.py.                                       *)
(*                                                                         *)
(* Simplifications.                                                        *)
(*  - A document is known by its dedup key, so that what two calls or two  *)
(*    runs both return is one document; dropped results are not returned.  *)
(*  - Usable, Stale and Official stand for the tests of quality.py, taken  *)
(*    to give the same answer throughout a run of the model.               *)
(*  - A call costs one unit, whether or not the provider says so.          *)
(*  - What a reservation holds and a recovered call costs are Spending's.  *)
(***************************************************************************)
EXTENDS Integers, FiniteSets

CONSTANTS
    Questions,     \* question ids
    Naming,        \* those that name the sources that will resolve them
    Docs,          \* documents
    NewsDocs,      \* what the primary may return
    WebDocs,       \* what the fallback may return
    Usable,        \* contemporary documents on the subject
    Stale,         \* documents that are not contemporary
    Official,      \* documents from a named source
    Procs,         \* processes
    Polls,         \* those that run under a budget: the worker's polls
    Strategies,    \* calls of a primary run, 2 in the code
    Queries,       \* calls of a fallback run, 2 in the code
    WebClient,     \* the fallback has its credential
    Prices,        \* what an answered call may tell of its cost, in {0, 1}
    Retain,        \* raw responses and replies are filed
    MaxClock,      \* bound on the clock
    MaxFaults,     \* bound on reads and writes that fail, and on crashes
    None           \* no question in hand

ASSUME DocsAreClassified ==
    /\ NewsDocs \cup WebDocs \cup Usable \cup Stale \cup Official \subseteq Docs
    /\ Usable \cap Stale = {}
ASSUME CallsAreNumbers == Strategies \in Nat \ {0} /\ Queries \in Nat \ {0}
ASSUME RetrievalBounds == MaxClock \in Nat /\ MaxFaults \in Nat
ASSUME RetrievalSwitches ==
    /\ WebClient \in BOOLEAN
    /\ Retain \in BOOLEAN
    /\ Prices \in (SUBSET {0, 1}) \ {{}}
ASSUME RetrievalNames ==
    /\ Naming \subseteq Questions
    /\ Polls \subseteq Procs
    /\ None \notin Questions

Providers == {"asknews", "exa"}

\* An attempt opens at most one run of each provider; their ids are minted.
RunIds == Nat \X Providers

VARIABLES
    runs,      \* research_runs and their documents, by run id
    papers,    \* runs whose raw responses are in the artifact directory
    pass,      \* what each process holds while it retrieves
    spent,     \* calls each process really made, but for the polls
    faults     \* reads and writes that failed, and crashes, so far

retrieval == <<runs, papers, pass>>

RunType ==
    [question : Questions, at : 0 .. MaxClock,
     complete : BOOLEAN,       \* completed_at_utc is set
     docs     : SUBSET Docs,
     failed   : BOOLEAN,       \* a call of it did not answer
     paper    : BOOLEAN]       \* raw_response_path is set

PassType ==
    [stage    : {"off", "open", "call", "store", "packet", "refused",
                 "paid", "stopped"},
     question : Questions \cup {None},
     now      : 0 .. MaxClock,
     provider : Providers,
     attempt  : Nat,           \* the attempt it is for
     calls    : Nat,           \* its calls, and those that told their cost
     priced   : Nat,
     docs     : SUBSET Docs,   \* what they returned
     failed   : BOOLEAN,       \* one of them did not answer
     ids      : SUBSET RunIds, \* completed runs of this retrieval
     lost     : BOOLEAN,       \* an artifact of one was not written
     known    : Nat,           \* cost known so far
     unpriced : Nat]           \* calls without a known cost

Off == [stage |-> "off", question |-> None, now |-> 0, provider |-> "asknews",
        attempt |-> 0, calls |-> 0, priced |-> 0, docs |-> {}, failed |-> FALSE,
        ids |-> {}, lost |-> FALSE, known |-> 0, unpriced |-> 0]

-----------------------------------------------------------------------------
Fault == faults < MaxFaults /\ faults' = faults + 1

\* The runs of q that a replay may read.
Completed(q) == {i \in DOMAIN runs : runs[i].question = q /\ runs[i].complete}

Evidence(ids) == UNION {runs[i].docs : i \in ids}

\* The run that p's retrieval is about.
Run(p) == <<pass[p].attempt, pass[p].provider>>

\* decide_fallback, with what retrieve_for_question tells it.
NeedsFallback(q, failed, docs) ==
    failed \/ docs = {} \/ q \in Naming \/ docs \cap Usable = {}

\* The cost of a run is known when every call of it told its own; the primary
\* never tells.
Cost(p) ==
    CASE p.provider = "asknews" -> IF p.calls = 0 THEN 0 ELSE None
      [] p.provider = "exa"     ->
            IF p.priced > 0 /\ p.priced = p.calls THEN p.priced ELSE None

\* Mutant of Billed: the calls of a run that failed are forgotten.
XBilled(p) ==
    CASE p \in Polls \/ pass[p].failed -> pass[p]
      [] p \notin Polls /\ ~pass[p].failed ->
            IF Cost(pass[p]) # None
              THEN [pass[p] EXCEPT !.known = @ + Cost(pass[p])]
              ELSE [pass[p] EXCEPT !.unpriced = @ + pass[p].calls]

\* The finished calls of a run enter the account of the retrieval.  What polls
\* pay is the budget's, see Spending.
Billed(p) ==
    CASE p \in Polls -> pass[p]
      [] p \notin Polls /\ Cost(pass[p]) # None ->
            [pass[p] EXCEPT !.known = @ + Cost(pass[p])]
      [] p \notin Polls /\ Cost(pass[p]) = None ->
            [pass[p] EXCEPT !.unpriced = @ + pass[p].calls]

Paid(p) == spent' = [spent EXCEPT ![p] = IF p \in Polls THEN 0 ELSE @ + 1]

\* A retrieval for question q begins.
Begun(attempt, q, now) ==
    [Off EXCEPT !.stage = "open", !.attempt = attempt, !.question = q,
                !.now = now]

-----------------------------------------------------------------------------
InitRetrieval ==
    /\ runs = [i \in {} |-> {}]
    /\ papers = {}
    /\ pass = [p \in Procs |-> Off]
    /\ spent = [p \in Procs |-> 0]
    /\ faults = 0

OpenRun(p) ==
    /\ pass[p].stage = "open"
    /\ runs' = [i \in DOMAIN runs \cup {Run(p)} |->
                  IF i = Run(p) THEN [question |-> pass[p].question,
                                      at |-> pass[p].now, complete |-> FALSE,
                                      docs |-> {}, failed |-> FALSE,
                                      paper |-> FALSE]
                                ELSE runs[i]]
    /\ pass' = [pass EXCEPT ![p].stage = "call"]
    /\ UNCHANGED <<papers, spent, faults>>

\* Nothing has been bought yet, or the primary has.
OpenRunFails(p) ==
    /\ pass[p].stage = "open"
    /\ Fault
    /\ pass' = [pass EXCEPT ![p].stage =
                  IF pass[p].provider = "asknews" THEN "refused" ELSE "paid"]
    /\ UNCHANGED <<runs, papers, spent>>

CallLimit(p) ==
    IF pass[p].provider = "asknews" THEN Strategies ELSE Queries

Returns(p) == IF pass[p].provider = "asknews" THEN NewsDocs ELSE WebDocs

\* What a call may tell of its cost: only the fallback's do.
Told(p, answered) ==
    CASE p \in Polls \/ pass[p].provider = "asknews"    -> {0}
      [] p \notin Polls /\ pass[p].provider = "exa" ->
            IF answered THEN Prices ELSE Prices \cup {0}

Answered(p) ==
    /\ pass[p].stage = "call"
    /\ \E docs \in SUBSET Returns(p) :
       \E priced \in Told(p, TRUE) :
          pass' = [pass EXCEPT
                     ![p].calls = @ + 1,
                     ![p].priced = @ + priced,
                     ![p].docs = @ \cup docs,
                     ![p].stage = IF pass[p].calls + 1 = CallLimit(p)
                                    THEN "store" ELSE "call"]
    /\ Paid(p)
    /\ UNCHANGED <<runs, papers, faults>>

\* An error, a redirect or a body of the wrong shape, which may still tell its
\* cost, ends the run's calls.
CallFails(p) ==
    /\ pass[p].stage = "call"
    /\ \E priced \in Told(p, FALSE) :
          pass' = [pass EXCEPT ![p].calls = @ + 1, ![p].priced = @ + priced,
                               ![p].failed = TRUE, ![p].stage = "store"]
    /\ Paid(p)
    /\ UNCHANGED <<runs, papers, faults>>

\* The series has used up its credits: what has been found must do.
CapReached(p) ==
    /\ pass[p].stage = "call"
    /\ p \in Polls
    /\ pass[p].provider = "asknews"
    /\ pass' = [pass EXCEPT ![p].stage = "store"]
    /\ UNCHANGED <<runs, papers, spent, faults>>

\* A ceiling is reached, or an earlier call's outcome is unknown.
BudgetStops(p) ==
    /\ pass[p].stage = "call"
    /\ p \in Polls
    /\ pass' = [pass EXCEPT ![p].stage = "stopped"]
    /\ UNCHANGED <<runs, papers, spent, faults>>

\* The fallback refuses the question's domains: its run stays open, and the
\* retrieval makes do with the primary's.
WebRefused(p) ==
    /\ pass[p].stage = "call"
    /\ pass[p].provider = "exa"
    /\ pass[p].calls = 0
    /\ pass[p].question \in Naming
    /\ pass' = [pass EXCEPT ![p].stage = "packet"]
    /\ UNCHANGED <<runs, papers, spent, faults>>

\* Raw responses are filed if they are retained; an artifact that cannot be
\* written does not keep the run from its row.
Filed(p) == {Retain} \cup (IF faults < MaxFaults THEN {FALSE} ELSE {})

WantsFallback(p) ==
    /\ pass[p].provider = "asknews"
    /\ NeedsFallback(pass[p].question, pass[p].failed, pass[p].docs)

\* persist_paid_run: the artifact, then in one transaction the open row is
\* completed and its documents are added.  Then the fallback, if it is needed
\* and has a client.
PersistRun(p) ==
    /\ pass[p].stage = "store"
    /\ \E paper \in Filed(p) :
          /\ papers' = IF paper THEN papers \cup {Run(p)} ELSE papers
          /\ runs' = [runs EXCEPT ![Run(p)].complete = TRUE,
                                  ![Run(p)].docs = pass[p].docs,
                                  ![Run(p)].failed = pass[p].failed,
                                  ![Run(p)].paper = paper]
          /\ pass' = [pass EXCEPT
                        ![p] = [Billed(p) EXCEPT
                                  !.ids = @ \cup {Run(p)},
                                  !.lost = @ \/ (Retain /\ ~paper),
                                  !.provider = "exa",
                                  !.calls = 0, !.priced = 0,
                                  !.docs = {}, !.failed = FALSE,
                                  !.stage = IF WebClient /\ WantsFallback(p)
                                              THEN "open" ELSE "packet"]]
          /\ faults' = IF paper = Retain THEN faults ELSE faults + 1
    /\ UNCHANGED spent

\* The row stays open, and its artifact without a row that names it.
PersistRunFails(p) ==
    /\ pass[p].stage = "store"
    /\ Fault
    /\ papers' = IF Retain THEN papers \cup {Run(p)} ELSE papers
    /\ pass' = [pass EXCEPT ![p] = [Billed(p) EXCEPT !.stage = "paid"]]
    /\ UNCHANGED <<runs, spent>>

\* What was recorded is read back, if it holds a document.
LoadPacketFails(p) ==
    /\ pass[p].stage = "packet"
    /\ Evidence(pass[p].ids) # {}
    /\ Fault
    /\ pass' = [pass EXCEPT ![p].stage = "paid"]
    /\ UNCHANGED <<runs, papers, spent>>

Retrieve(p) ==
    \/ OpenRun(p) \/ OpenRunFails(p)
    \/ Answered(p) \/ CallFails(p)
    \/ CapReached(p) \/ BudgetStops(p) \/ WebRefused(p)
    \/ PersistRun(p) \/ PersistRunFails(p) \/ LoadPacketFails(p)
=============================================================================
