------------------------------- MODULE Evidence -------------------------------
(***************************************************************************)
(* From what the providers answer to the packet a forecast rests on, and   *)
(* back: documents are collapsed, stored and checkpointed; an attempt      *)
(* reads a packet, drops what is not usable and passes two gates; before a *)
(* forecast is posted the packet is built again and compared.  Beside it,  *)
(* the local sources' documents are compared with the baseline's, and a    *)
(* shadow forecast is made from both.  A batch and a poll of the worker    *)
(* hold no lock against each other: each keeps its own instant, and they   *)
(* meet each other's checkpoints in the journal.                           *)
(*                                                                         *)
(* Sources: research/ dedup.py, store.py, packet.py, quality.py,           *)
(* freshness.py, sufficiency.py, overlap.py, lens.py, lens_report.py;      *)
(* submission_policy.py, pipeline_live.py, tournament.py,                  *)
(* forecast/shadow.py.                                                     *)
(*                                                                         *)
(* Simplifications.                                                        *)
(*  - One question, not edited.  A packet is the set of its runs and       *)
(*    documents: it is hashed with both in the order of their keys, and    *)
(*    keys are distinct.                                                   *)
(*  - A title is the set of its words; a document's text only says whether *)
(*    it is there and is about the question; `json' ranks its rendering.   *)
(*  - Instants, freshness settings and the reuse window have one unit;     *)
(*    publications no further apart than a wire window have the same date. *)
(*  - Whether a poll gets as far as research is Worker's: here it may.     *)
(*    One batch runs at a time, as one poll does.                          *)
(***************************************************************************)
EXTENDS Integers, Sequences, FiniteSets

CONSTANTS
    Baseline,    \* runs of the primary provider and its fallback
    Retrievals,  \* the runs one retrieval may return
    Reuse,       \* for how long a window and a checkpoint are used again
    Lens,        \* runs of the local-source lens
    Offers,      \* what a run's provider may answer: sequences of documents
    Settings,    \* of retrieval.freshness_days_default
    MaxNow,      \* bound on the clock
    MaxRecords   \* bound on the forecasts recorded

Runs == Baseline \cup Lens

NoDate == -1

Fields == {"url", "hash", "reported", "json", "published", "updated", "text",
           "relevant", "words", "publisher"}

Members(s) == {s[i] : i \in DOMAIN s}

\* What the store accepts of a document.
IsDocument(doc) ==
    /\ DOMAIN doc = Fields
    /\ {doc.published, doc.updated} \subseteq Nat \cup {NoDate}
    /\ doc.reported \in BOOLEAN
    /\ doc.json \in Nat

\* A rendering is of the whole document.
IsOffer(offer) ==
    /\ offer \in Seq(Members(offer))
    /\ \A doc \in Members(offer) : IsDocument(doc)
    /\ \A a, b \in Members(offer) :
          <<a.url, a.hash, a.reported, a.json>> = <<b.url, b.hash, b.reported, b.json>>
             => a = b

ASSUME EvidenceInputs ==
    /\ \A r \in Runs : \A offer \in Offers[r] : IsOffer(offer)
    /\ Settings \subseteq Nat /\ Settings # {}
    /\ Baseline \cap Lens = {}
    /\ Retrievals \subseteq SUBSET Baseline /\ {} \notin Retrievals
    /\ {Reuse, MaxNow, MaxRecords} \subseteq Nat

VARIABLES
    now,          \* the clock
    completed,    \* research_runs with completed_at_utc
    answered,     \* what each run's provider answered
    stored,       \* research_documents: each run's rows
    checkpoints,  \* the research_checkpoint events, in the order of the journal
    opened,       \* when the last question_started opened its window
    arms,         \* how far a batch and a poll are, their instant and their research
    control,      \* the record the poll has made, if it has
    followed,     \* the lens checkpoint the poll has written, if it has
    lenses,       \* local_lens_checkpoint events: the run, and what it followed
    records,      \* forecast records
    shadows       \* shadow_forecasts: the lens's evidence beside a record's

ledger == <<completed, answered, stored>>
journal == <<checkpoints, opened, lenses>>
forecasts == <<records, shadows>>
poll == <<control, followed>>
vars == <<now, ledger, journal, arms, poll, forecasts>>

Processes == {"batch", "poll"}

\* A process that is not at this question.
Idle == [step |-> "idle", at |-> 0, window |-> 0, bought |-> {}, research |-> 0]

Init ==
    /\ now = 1
    /\ completed = {}
    /\ answered = [r \in Runs |-> <<>>]
    /\ stored = [r \in Runs |-> <<>>]
    /\ checkpoints = <<>>
    /\ opened = NoDate
    /\ arms = [p \in Processes |-> Idle]
    /\ control = {} /\ followed = {}
    /\ lenses = {}
    /\ records = {}
    /\ shadows = {}

\* A process goes on to its next step.
Goes(p, step) == arms' = [arms EXCEPT ![p].step = step]

\* With the checkpoint it forecasts from.
Judges(p, i) == arms' = [arms EXCEPT ![p].step = "judge", ![p].bought = {}, ![p].research = i]

-----------------------------------------------------------------------------
(* One row for each key: dedup.py, store.py                                *)

DedupKey(doc) == <<doc.run, doc.url, doc.hash>>

\* _sort_key: the stronger claim, the earlier retrieval, the lesser rendering.
Stronger(a, b) ==
    LET rank(doc) == IF doc.reported THEN 1 ELSE 0 IN
    \/ rank(a) < rank(b)
    \/ rank(a) = rank(b) /\ a.retrieved < b.retrieved
    \/ rank(a) = rank(b) /\ a.retrieved = b.retrieved /\ a.json < b.json

\* Mutant of Prefer: of equal claims the later one wins.
XPrefer(current, candidate) ==
    IF candidate.reported /\ ~current.reported THEN current ELSE candidate

Prefer(current, candidate) == IF Stronger(candidate, current) THEN candidate ELSE current

\* The survivors so far and one document more, in first-seen order.
Collapse(survivors, doc) ==
    LET same == {i \in DOMAIN survivors : DedupKey(survivors[i]) = DedupKey(doc)} IN
    IF same = {}
      THEN Append(survivors, doc)
      ELSE [i \in DOMAIN survivors |->
              IF i \in same THEN Prefer(survivors[i], doc) ELSE survivors[i]]

Deduplicate(docs) ==
    LET upto[n \in 0 .. Len(docs)] ==
          IF n = 0 THEN <<>> ELSE Collapse(upto[n - 1], docs[n])
    IN  upto[Len(docs)]

\* A document as a run returns it, under its process's instant.
Returned(doc, r, at) ==
    [f \in Fields \cup {"run", "retrieved"} |->
       CASE f = "run" -> r
         [] f = "retrieved" -> at
         [] f \in Fields -> doc[f]]

\* A run is opened, its provider answers, and the run is completed with its rows.
Answered(r, at) ==
    /\ completed' = completed \cup {r}
    /\ \E offer \in Offers[r] :
        LET docs == [i \in DOMAIN offer |-> Returned(offer[i], r, at)] IN
        /\ answered' = [answered EXCEPT ![r] = docs]
        /\ stored' = [stored EXCEPT ![r] = Deduplicate(docs)]

Complete(p, r) ==
    /\ arms[p].step = "buy"
    /\ r \notin completed
    /\ Answered(r, arms[p].at)
    /\ arms' = [arms EXCEPT ![p].bought = @ \cup {r}]
    /\ UNCHANGED <<now, journal, poll, forecasts>>

-----------------------------------------------------------------------------
(* Packets: packet.py, store.load_packet                                   *)

Packet(runs) == [runs |-> runs, documents |-> UNION {Members(stored[r]) : r \in runs}]

Keep(packet, kept) == [packet EXCEPT !.documents = kept]

-----------------------------------------------------------------------------
(* Research, bought or used again: tournament.run_once, pipeline_live      *)

Last == checkpoints[Len(checkpoints)]

Checkpointed == {checkpoints[i].runs : i \in DOMAIN checkpoints}

\* Under the setting of the configuration it was started with.
Begin(p, at) ==
    /\ arms[p].step = "idle"
    /\ \E window \in Settings :
        arms' = [arms EXCEPT ![p] = [Idle EXCEPT !.step = "look", !.at = at, !.window = window]]
    /\ UNCHANGED <<now, ledger, checkpoints, lenses, poll, forecasts>>

\* A batch keeps the instant it was started at.
BeginBatch == Begin("batch", now) /\ UNCHANGED opened

\* Where nothing was recorded, a poll opens a window, or goes on in the last one
\* under its instant.
BeginPoll ==
    LET at == IF opened # NoDate /\ now - opened <= Reuse THEN opened ELSE now IN
    /\ records = {}
    /\ opened' = at
    /\ Begin("poll", at)

\* The last checkpoint, if it is neither too old, nor ahead, nor empty.
Reusable(at) ==
    /\ checkpoints # <<>>
    /\ at - Last.at \in 0 .. Reuse
    /\ Packet(Last.runs).documents # {}

\* A batch may be asked to pay for its research again.
Look(p) ==
    /\ arms[p].step = "look"
    /\ \/ Reusable(arms[p].at) /\ Judges(p, Len(checkpoints))
       \/ (~Reusable(arms[p].at) \/ p = "batch") /\ Goes(p, "buy")
    /\ UNCHANGED <<now, ledger, journal, poll, forecasts>>

\* What was bought is checkpointed, whatever was written since the look.
Checkpoint(p) ==
    /\ arms[p].step = "buy"
    /\ arms[p].bought \in Retrievals
    /\ checkpoints' = Append(checkpoints, [runs |-> arms[p].bought, at |-> arms[p].at, by |-> p])
    /\ Judges(p, Len(checkpoints) + 1)
    /\ UNCHANGED <<now, ledger, opened, lenses, poll, forecasts>>

\* What the process forecasts from.
Researched(p) == Packet(checkpoints[arms[p].research].runs)

\* A process is through with this question.
Leaves(p) ==
    /\ arms' = [arms EXCEPT ![p] = Idle]
    /\ IF p = "poll" THEN control' = {} /\ followed' = {} ELSE UNCHANGED poll

\* It may stop or be killed at any step.
Stop(p) ==
    /\ arms[p].step # "idle"
    /\ Leaves(p)
    /\ UNCHANGED <<now, ledger, journal, forecasts>>

-----------------------------------------------------------------------------
(* Gates: quality.py, freshness.py, sufficiency.py                         *)

Dates(doc) == {doc.published, doc.updated} \ {NoDate}

Contemporary(doc, at, window) ==
    /\ Dates(doc) # {}
    /\ \A d \in Dates(doc) : d <= at
    /\ \E d \in Dates(doc) : d >= at - window
    /\ doc.retrieved <= at
    /\ doc.text

Usable(doc, at, window) == Contemporary(doc, at, window) /\ doc.relevant

UsablePacket(packet, at, window) ==
    Keep(packet, {doc \in packet.documents : Usable(doc, at, window)})

WithoutFuture(packet, at) ==
    Keep(packet, {doc \in packet.documents :
                    \A t \in Dates(doc) \cup {doc.retrieved} : t <= at})

\* Judged on the packet before it is filtered, so that it can tell no evidence
\* from evidence that aged.
QualityProblem(packet, at, window) ==
    IF \E doc \in packet.documents : Usable(doc, at, window) THEN "none"
    ELSE IF \E doc \in packet.documents : Contemporary(doc, at, window) THEN "no_evidence"
    ELSE IF packet.documents = {} THEN "no_evidence"
    ELSE "stale_evidence"

\* What was updated counts from then, even if that is before it was published.
Stale(doc, cutoff) ==
    LET effective == IF doc.updated # NoDate THEN doc.updated ELSE doc.published IN
    effective = NoDate \/ effective < cutoff

Sufficiency(packet, cutoff) ==
    IF packet.documents = {} THEN "no_evidence"
    ELSE IF \A doc \in packet.documents : Stale(doc, cutoff) THEN "stale_evidence"
    ELSE "sufficient"

Record(p, packet) ==
    LET record == [packet |-> packet, at |-> arms[p].at, window |-> arms[p].window, by |-> p,
                   research |-> arms[p].research] IN
    /\ Cardinality(records) < MaxRecords
    /\ records' = records \cup {record}
    /\ control' = IF p = "poll" THEN {record} ELSE control

Refuse == UNCHANGED <<control, records>>

\* However its attempt ended, a poll goes on to the lens.
EndsAttempt ==
    arms' = [arms EXCEPT !["poll"].step = "follow", !["poll"].bought = {},
                         !["poll"].research = 0]

\* With forecast.fail_on_stale_research, as deployed.
\*
\* A batch forecasts from all a checkpoint's runs returned, and is done.
BatchAttempt ==
    LET b == arms["batch"]
        packet == Researched("batch") IN
    /\ b.step = "judge"
    /\ packet.documents # {}
    /\ IF Sufficiency(packet, b.at - b.window) = "sufficient"
         THEN Record("batch", packet)
         ELSE Refuse
    /\ arms' = [arms EXCEPT !["batch"] = Idle]
    /\ UNCHANGED <<now, ledger, journal, followed, shadows>>

\* A poll forecasts from what is usable of it.  If nothing was returned, it may
\* be told to forecast without evidence.
PollAttempt(withoutEvidence) ==
    LET a == arms["poll"]
        whole == Researched("poll")
        packet == UsablePacket(whole, a.at, a.window)
        problem == QualityProblem(whole, a.at, a.window)
        poor == withoutEvidence /\ whole.documents = {} IN
    /\ a.step = "judge"
    /\ IF poor \/ (problem = "none" /\ Sufficiency(packet, a.at - a.window) = "sufficient")
         THEN Record("poll", packet)
         ELSE Refuse
    /\ EndsAttempt
    /\ UNCHANGED <<now, ledger, journal, followed, shadows>>

\* Retrieval or the model fails.
FailAttempt ==
    /\ arms["poll"].step \in {"look", "buy", "judge"}
    /\ EndsAttempt
    /\ UNCHANGED <<now, ledger, journal, poll, forecasts>>

-----------------------------------------------------------------------------
(* The policy's check: submission_policy.require_research_artifacts        *)

\* Mutant of Reproduces: what is usable is judged at the time of posting.
XReproduces(record, window) ==
    \E runs \in Checkpointed :
        \/ record.packet = Packet(runs)
        \/ record.packet = UsablePacket(Packet(runs), now, window)
        \/ record.packet = WithoutFuture(Packet(runs), now)

\* Some checkpoint of the question gives the packet whose hash was recorded, by
\* the setting of the process that posts.
Reproduces(record, window) ==
    \E runs \in Checkpointed :
        \/ record.packet = Packet(runs)
        \/ record.packet = UsablePacket(Packet(runs), record.at, window)
        \/ record.packet = WithoutFuture(Packet(runs), record.at)

-----------------------------------------------------------------------------
(* The lens: overlap.py, lens_report.py                                    *)

\* Jaccard's ratio of two titles, with at least tenths tenths.
Alike(a, b, tenths) ==
    /\ a.words # {} /\ b.words # {}
    /\ 10 * Cardinality(a.words \cap b.words) >=
        tenths * Cardinality(a.words \cup b.words)

NearDuplicate(a, b) ==
    \/ a.url = b.url
    \/ a.hash = b.hash
    \/ Alike(a, b, 6)
    \/ /\ Alike(a, b, 3)
       /\ a.publisher = b.publisher /\ a.publisher # "none"
       /\ a.published = b.published /\ a.published # NoDate

Classify(doc, base) ==
    IF \E b \in base : b.url = doc.url THEN "same_url"
    ELSE IF \E b \in base : b.hash = doc.hash THEN "same_content"
    ELSE IF \E b \in base : NearDuplicate(doc, b) THEN "republication"
    ELSE IF doc.words = {} THEN "unassessed"
    ELSE "novel"

\* The root of an item; a parent is never greater than its child.
Find(parent, item) ==
    LET root[i \in DOMAIN parent] == IF parent[i] = i THEN i ELSE root[parent[i]]
    IN  root[item]

\* Mutant of Union: the items are linked, not their roots.
XUnion(parent, i, j) == [parent EXCEPT ![j] = i]

\* The greater root becomes a child of the lesser.
Union(parent, i, j) ==
    LET a == Find(parent, i)
        b == Find(parent, j) IN
    IF a < b THEN [parent EXCEPT ![b] = a]
    ELSE [parent EXCEPT ![a] = b]

\* The k-th pair of items is looked at.
Joined(items, parent, k) ==
    LET i == ((k - 1) \div Len(items)) + 1
        j == ((k - 1) % Len(items)) + 1 IN
    IF i < j /\ NearDuplicate(items[i], items[j]) THEN Union(parent, i, j) ELSE parent

\* Each pair once, in order.
Parents(items) ==
    LET n == Len(items)
        after[k \in 0 .. n * n] ==
          IF k = 0 THEN [i \in 1 .. n |-> i] ELSE Joined(items, after[k - 1], k)
    IN  after[n * n]

Clusters(items) ==
    LET parent == Parents(items)
        group(root) == {items[i] : i \in {k \in DOMAIN items : Find(parent, k) = root}} IN
    {group(Find(parent, i)) : i \in DOMAIN items}

IndependentReports(base, items) ==
    {group \in Clusters(items) :
        /\ \E doc \in group : Classify(doc, base) = "novel"
        /\ \A doc \in group : Classify(doc, base) \in {"novel", "unassessed"}}

\* Mutant of Bought: the poll's lens follows whatever was checkpointed last.
XBought(at) == {i \in DOMAIN checkpoints : i = Len(checkpoints)}

\* The research bought under an instant, as the checkpoints' places.
Bought(at) == {i \in DOMAIN checkpoints : checkpoints[i].at = at}

\* Once for the research bought under the poll's instant, a run of the lens
\* follows the last of it.  Whatever becomes of the run the checkpoint names it,
\* and may itself not be written.
Follow(r, i) ==
    LET at == arms["poll"].at
        lens == [run |-> r, base |-> checkpoints[i].runs, follows |-> i, at |-> at] IN
    /\ arms["poll"].step = "follow"
    /\ i \in Bought(at) /\ \A j \in Bought(at) : j <= i
    /\ \A l \in lenses : l.at # at /\ l.run # r
    /\ r \notin completed
    /\ Answered(r, at) \/ UNCHANGED ledger
    /\ \/ /\ lenses' = lenses \cup {lens}
          /\ followed' = {lens}
          /\ Goes("poll", "shadow")
          /\ UNCHANGED control
       \/ /\ UNCHANGED lenses
          /\ Leaves("poll")
    /\ UNCHANGED <<now, checkpoints, opened, forecasts>>

\* The report on a lens checkpoint reads the runs of both from the ledger.
Report(l) ==
    [clusters |-> Clusters(stored[l.run]),
     independent |-> IndependentReports(Packet(l.base).documents, stored[l.run])]

-----------------------------------------------------------------------------
(* The shadow arm: forecast/shadow.py                                      *)

\* The lens's run beside the runs it followed.
Together(l) ==
    UsablePacket(Packet(l.base \cup {l.run}), arms["poll"].at, arms["poll"].window)

\* The combined packet is forecast from and stored beside its control.
NewShadow(record, l) ==
    /\ \E doc \in Together(l).documents : doc.run = l.run
    /\ shadows' = shadows \cup {[control |-> record, lens |-> l, packet |-> Together(l)]}

\* In the poll that made the record and wrote the lens's checkpoint.  What the
\* record was made from is not looked at.
Shadow(record, l) ==
    /\ arms["poll"].step = "shadow"
    /\ l.run \in completed
    /\ NewShadow(record, l)
    /\ Leaves("poll")
    /\ UNCHANGED <<now, ledger, journal, records>>

-----------------------------------------------------------------------------
(* Specification                                                           *)

Tick ==
    /\ now < MaxNow
    /\ now' = now + 1
    /\ UNCHANGED <<ledger, journal, arms, poll, forecasts>>

Next ==
    \/ BeginBatch \/ BeginPoll
    \/ \E p \in Processes :
        \/ Look(p)
        \/ \E r \in Baseline : Complete(p, r)
        \/ Checkpoint(p)
        \/ Stop(p)
    \/ BatchAttempt
    \/ \E poor \in BOOLEAN : PollAttempt(poor)
    \/ FailAttempt
    \/ \E r \in Lens, i \in DOMAIN checkpoints : Follow(r, i)
    \/ \E record \in control, l \in followed : Shadow(record, l)
    \/ Tick

Spec == Init /\ [][Next]_vars

-----------------------------------------------------------------------------
(* Properties                                                              *)

TypeOK ==
    /\ now \in 0 .. MaxNow
    /\ completed \subseteq Runs
    /\ \A r \in Runs : Members(stored[r]) \subseteq Members(answered[r])
    /\ Checkpointed \subseteq Retrievals
    /\ opened \in {NoDate} \cup 0 .. now
    /\ \A p \in Processes :
          /\ arms[p].step \in {"idle", "look", "buy", "judge", "follow", "shadow"}
          /\ arms[p].at \in 0 .. now
          /\ arms[p].research \in 0 .. Len(checkpoints)
    /\ control \subseteq records /\ followed \subseteq lenses
    /\ \A l \in lenses : l.run \in Lens /\ l.base \in Checkpointed
    /\ Cardinality(records) <= MaxRecords

\* Whatever order a provider answers in, the ledger keeps of each document the
\* strongest claim, once: so a packet's hash does not depend on it (dedup.py,
\* "a min over a total order").
StoredIsStrongest ==
    \A r \in Runs :
        /\ Members(stored[r]) =
             {doc \in Members(answered[r]) :
                \A other \in Members(answered[r]) :
                    DedupKey(other) = DedupKey(doc) => ~Stronger(other, doc)}
        /\ Len(stored[r]) = Cardinality({DedupKey(doc) : doc \in Members(stored[r])})

\* What a forecast was made from can be built again when it is posted, after any
\* later retrievals, checkpoints and time, by a process with the setting it was
\* made under (submission_policy.require_research_artifacts).
PacketsAreReproducible == \A record \in records : Reproduces(record, record.window)

\* A shadow rests on what its control rests on.
SharesItsControl(s) ==
    {doc \in s.packet.documents : doc.run \in Baseline} = s.control.packet.documents

\* A batch under an instant no later than the poll's has checkpointed since the
\* research was bought that the lens followed.
Overtaken(s) ==
    \E i \in DOMAIN checkpoints :
        /\ s.lens.follows <= i
        /\ checkpoints[i].by = "batch" /\ checkpoints[i].at <= s.control.at

\* What a shadow forecast is scored for is the lens alone: it rests on something
\* of the lens and else on what the control rests on, through deaths, windows
\* gone on with and later batches.  The rows are joined by the clock only, so
\* that it fails where an older batch came between (tournament._collect_local_lens,
\* shadow.run_shadow_forecast).
ShadowsAddTheLens ==
    \A s \in shadows :
        /\ SharesItsControl(s) \/ Overtaken(s)
        /\ \E doc \in s.packet.documents : doc.run \in Lens

\* What migration 020 and shadow.py say of every shadow; a batch that comes
\* between refutes it.
ShadowsShareTheirControl == \A s \in shadows : SharesItsControl(s)

\* A set of documents that no near duplicate leads out of, nor divides.
IsComponent(group, docs) ==
    /\ group # {}
    /\ \A a \in group, b \in docs \ group : ~NearDuplicate(a, b)
    /\ \A part \in (SUBSET group) \ {{}, group} :
        \E a \in part, b \in group \ part : NearDuplicate(a, b)

\* The lens's reports are the connected components of its near duplicates; an
\* independent one has a title and no near duplicate in the baseline.
ReportsAreComponents ==
    \A l \in lenses :
        LET report == Report(l)
            docs == Members(stored[l.run]) IN
        /\ report.clusters = {group \in SUBSET docs : IsComponent(group, docs)}
        /\ report.independent =
             {group \in report.clusters :
                /\ \E doc \in group : doc.words # {}
                /\ \A doc \in group, b \in Packet(l.base).documents : ~NearDuplicate(doc, b)}

=============================================================================
