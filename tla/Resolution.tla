----------------------------- MODULE Resolution -----------------------------
(***************************************************************************)
(* What becomes of a posted forecast: ingest-resolutions reads what the    *)
(* platform shows of its question and appends what it saw, score appends   *)
(* the local and the platform's scores against the newest observation.     *)
(* The platform may resolve, annul, withhold, retract and resolve again.   *)
(* The timer runs the two commands one after the other, the operator runs  *)
(* either at any time; runs overlap, and a run may be killed between any   *)
(* two transactions.                                                       *)
(*                                                                         *)
(* Sources: resolution.py, resolution_ingest.py, score_records.py,         *)
(* scoring.py, platform_scores.py, lifecycle.py, the resolution units.     *)
(*                                                                         *)
(* Simplifications.                                                        *)
(*  - A payload is, for each question of its post, the status, the         *)
(*    resolution and whether the account's scores came with it; the two    *)
(*    instants of a resolution are not told apart from its value.          *)
(*  - A family of metrics is one score: its rows are computed together and *)
(*    written in one transaction, or none is.                              *)
(*  - A forecast is the set of outcomes it gives a positive probability.   *)
(*  - The withheld records are read and pushed in one step, within one     *)
(*    window of the throttle; a push claimed is a push made.               *)
(*  - The post and record identities, stored digests and value ranges,     *)
(*    rechecked on every read, are taken to agree.                         *)
(***************************************************************************)
EXTENDS Integers, Sequences, FiniteSets, FiniteSetsExt

CONSTANTS
    Records,       \* the forecast records, numbered in the order they are read
    Questions,     \* the questions they forecast
    Posts,         \* the posts that carry them, numbered
    QuestionOf,    \* the question of each record
    PostOf,        \* the post of each question
    TypeOf,        \* its type
    Admitted,      \* the outcomes its type and options admit
    Priced,        \* the outcomes each record gives a positive probability
    Unposted,      \* the records not yet submitted at the start
    Answers,       \* what the platform may show of a question
    Sessions,      \* runs that may overlap
    Timers,        \* those of the resolution units; the others are operators'
    MaxChanges,    \* bound on the changes of the platform
    MaxVersions,   \* bound on the versions of the local scores
    MaxClock,      \* bound on the clock
    MaxCommands,   \* bound on the commands operators type
    MaxFaults,     \* bound on failed fetches and killed runs
    Null           \* no resolution, no post in hand

ASSUME NumbersOrder == Records \subseteq Nat /\ Posts \subseteq Nat
ASSUME BoundsAreNumbers ==
    /\ MaxChanges \in Nat
    /\ MaxVersions \in Nat \ {0}
    /\ MaxClock \in Nat
    /\ MaxCommands \in Nat
    /\ MaxFaults \in Nat
ASSUME MapsAreFunctions ==
    /\ QuestionOf \in [Records -> Questions]
    /\ PostOf \in [Questions -> Posts]
    /\ TypeOf \in [Questions -> {"binary", "multiple_choice", "numeric",
                                 "discrete"}]
ASSUME AnswersAreFields ==
    \A a \in Answers :
        /\ DOMAIN a = {"status", "resolution", "scores"}
        /\ a.scores \in BOOLEAN
ASSUME TimersAreSessions == Timers \subseteq Sessions

Families == {"local", "platform"}
Shown == [answer : Answers, rev : 0 .. MaxChanges]
Rows == [shown : Shown, observed : 0 .. MaxClock]
Scores == [row : Nat \ {0}, family : Families, version : 1 .. MaxVersions]

VARIABLES
    platform,   \* what it shows of each question, and since which change
    status,     \* the status of each record
    rows,       \* resolution_events of each record
    scores,     \* score_events of each record
    alerted,    \* records pushed as withheld
    pc,         \* where each session is
    run,        \* what it holds in memory
    clock,      \* the host's clock
    version,    \* the version of the local scores that is deployed
    changes,    \* changes on the platform so far
    commands,   \* commands typed by operators so far
    faults      \* failed fetches and killed runs so far

ledger == <<status, rows, scores>>
sessions == <<pc, run, commands>>
world == <<platform, changes, clock, version>>
vars == <<ledger, alerted, sessions, world, faults>>

-----------------------------------------------------------------------------
\* The kind of an observation of question q, or "refused" when the payload
\* contradicts itself or the question's type.
KindOf(q, a) ==
    CASE a.status # "resolved" /\ a.resolution = Null -> "unresolved"
      [] a.status # "resolved" /\ a.resolution # Null -> "refused"
      [] a.status = "resolved" /\ a.resolution = Null -> "withheld"
      [] a.status = "resolved" /\ a.resolution \in {"annulled", "ambiguous"} ->
            a.resolution
      [] a.status = "resolved" /\ a.resolution \in Admitted[q] -> "resolved"
      [] OTHER -> "refused"

Definitive == {"resolved", "annulled", "ambiguous"}

\* What observation_sha256 covers: not the scores that came along.
Digest(a) == <<a.status, a.resolution>>

Latest(r) == rows[r][Len(rows[r])]

Standing(r) ==
    IF rows[r] = <<>> THEN "none"
                      ELSE KindOf(QuestionOf[r], Latest(r).shown.answer)

\* Mutant of Posted: a record that has been resolved is not read again.
XPosted == {r \in Records : status[r] = "submitted"}

\* lifecycle history reached submitted
Posted == {r \in Records : status[r] \in {"submitted", "resolved", "scored"}}

\* Outcome "unchanged" or "nothing_to_retract".
NothingNew(r, a) ==
    \/ rows[r] = <<>> /\ KindOf(QuestionOf[r], a) = "unresolved"
    \/ rows[r] # <<>> /\ Digest(Latest(r).shown.answer) = Digest(a)

\* Mutant of Refuses: the instants are not compared.
XRefuses(r, a, t) == r \notin Posted \/ KindOf(QuestionOf[r], a) = "refused"

\* The payload cannot be classified, or another run has already recorded a
\* later observation.
Refuses(r, a, t) ==
    \/ r \notin Posted
    \/ KindOf(QuestionOf[r], a) = "refused"
    \/ rows[r] # <<>> /\ ~NothingNew(r, a) /\ Latest(r).observed > t

-----------------------------------------------------------------------------
LocallyScored(r) == TypeOf[QuestionOf[r]] \in {"binary", "multiple_choice"}

\* The scores of an outcome the forecast did not price are undefined, and one
\* undefined metric leaves none.
LocalScore(r, shown) == shown.answer.resolution \in Priced[r]

\* The platform's scores are copied from the observation that carries them.
PlatformScore(shown) == shown.answer.scores

HasScore(r, shown, f) ==
    IF f = "local" THEN LocalScore(r, shown) ELSE PlatformScore(shown)

\* Mutant of Scored: only the newest score is looked at.
XScored(r, f, v) ==
    /\ scores[r] # <<>>
    /\ scores[r][Len(scores[r])] =
          [row |-> Len(rows[r]), family |-> f, version |-> v]

Scored(r, f, v) ==
    \E i \in DOMAIN scores[r] :
        scores[r][i] = [row |-> Len(rows[r]), family |-> f, version |-> v]

-----------------------------------------------------------------------------
Idle == [todo |-> {}, post |-> Null, payload |-> <<>>, stamp |-> 0,
         members |-> {}, listed |-> {}, failed |-> FALSE, version |-> 1]

RunType ==
    [todo    : SUBSET Posts,      \* posts still to be fetched
     post    : Posts \cup {Null}, \* the one in hand
     payload : [Questions -> Shown] \cup {<<>>},
     stamp   : 0 .. MaxClock,     \* observed_at, or computed_at
     members : SUBSET Records,    \* records still to be recorded or scored
     listed  : SUBSET Records,    \* records the run read at its start
     failed  : BOOLEAN,
     version : 1 .. MaxVersions]  \* the code the process loaded

TypeOK ==
    /\ platform \in [Questions -> Shown]
    /\ status \in [Records -> {"approved", "submitted", "resolved", "scored"}]
    /\ rows \in [Records -> Seq(Rows)]
    /\ scores \in [Records -> Seq(Scores)]
    /\ alerted \in SUBSET Records
    /\ pc \in [Sessions -> {"idle", "fetch", "stamp", "record", "ingested",
                            "score", "local", "restamp", "platform"}]
    /\ run \in [Sessions -> RunType]
    /\ clock \in 0 .. MaxClock
    /\ version \in 1 .. MaxVersions
    /\ changes \in 0 .. MaxChanges
    /\ commands \in 0 .. MaxCommands
    /\ faults \in 0 .. MaxFaults
    /\ \A s \in Sessions :
          /\ pc[s] \in {"stamp", "record"} => run[s].payload # <<>>
          /\ pc[s] \in {"record", "local", "restamp", "platform"} =>
                run[s].members # {}

Init ==
    /\ platform \in [Questions -> {[answer |-> a, rev |-> 0] : a \in
          {b \in Answers : b.status # "resolved" /\ b.resolution = Null}}]
    /\ status = [r \in Records |-> IF r \in Unposted THEN "approved"
                                                   ELSE "submitted"]
    /\ rows = [r \in Records |-> <<>>]
    /\ scores = [r \in Records |-> <<>>]
    /\ alerted = {}
    /\ pc = [s \in Sessions |-> "idle"]
    /\ run = [s \in Sessions |-> Idle]
    /\ clock = 0
    /\ version = 1
    /\ changes = 0
    /\ commands = 0
    /\ faults = 0

-----------------------------------------------------------------------------
(* The world                                                               *)

\* The forecast of r is confirmed: what leads there is Submission's.
Submit(r) ==
    /\ status[r] = "approved"
    /\ status' = [status EXCEPT ![r] = "submitted"]
    /\ UNCHANGED <<rows, scores, alerted, sessions, world, faults>>

\* The platform resolves, annuls, masks, retracts or scores a question.
Change(q) ==
    /\ changes < MaxChanges
    /\ changes' = changes + 1
    /\ \E a \in Answers \ {platform[q].answer} :
          platform' = [platform EXCEPT
                         ![q] = [answer |-> a, rev |-> changes + 1]]
    /\ UNCHANGED <<ledger, alerted, sessions, clock, version, faults>>

Tick ==
    /\ clock < MaxClock
    /\ clock' = clock + 1
    /\ UNCHANGED <<ledger, alerted, sessions, platform, changes, version, faults>>

\* A release changes how the local scores are computed.
Deploy ==
    /\ version < MaxVersions
    /\ version' = version + 1
    /\ UNCHANGED <<ledger, alerted, sessions, platform, changes, clock, faults>>

-----------------------------------------------------------------------------
(* ingest-resolutions                                                      *)

\* A unit starts by itself, an operator types a command.
Begins(s) ==
    IF s \in Timers THEN UNCHANGED commands
                    ELSE commands < MaxCommands /\ commands' = commands + 1

\* The records are read once.  An operator may name one question.
BeginIngest(s) ==
    /\ Begins(s)
    /\ pc[s] = "idle"
    /\ \E Q \in {Questions}
                \cup (IF s \in Timers THEN {} ELSE {{q} : q \in Questions}) :
          LET listed == {r \in Posted : QuestionOf[r] \in Q}
          IN  run' = [run EXCEPT ![s] =
                        [Idle EXCEPT !.listed = listed,
                           !.todo = {PostOf[QuestionOf[r]] : r \in listed}]]
    /\ pc' = [pc EXCEPT ![s] = "fetch"]
    /\ UNCHANGED <<ledger, alerted, world, faults>>

\* The platform answers for the whole post.
Fetch(s) ==
    /\ pc[s] = "fetch"
    /\ run[s].todo # {}
    /\ run' = [run EXCEPT ![s].post = Min(run[s].todo),
                          ![s].payload = platform]
    /\ pc' = [pc EXCEPT ![s] = "stamp"]
    /\ UNCHANGED <<ledger, alerted, commands, world, faults>>

\* A post that cannot be fetched fails its records; the run goes on.
FetchFails(s) ==
    /\ pc[s] = "fetch"
    /\ run[s].todo # {}
    /\ faults < MaxFaults
    /\ faults' = faults + 1
    /\ run' = [run EXCEPT ![s].todo = @ \ {Min(@)}, ![s].failed = TRUE]
    /\ UNCHANGED <<ledger, alerted, commands, pc, world>>

\* observed_at is read after the answer arrived.
Stamp(s) ==
    /\ pc[s] = "stamp"
    /\ run' = [run EXCEPT ![s].stamp = clock,
                 ![s].members = {r \in run[s].listed :
                                   PostOf[QuestionOf[r]] = run[s].post}]
    /\ pc' = [pc EXCEPT ![s] = "record"]
    /\ UNCHANGED <<ledger, alerted, commands, world, faults>>

InHand(s) == Min(run[s].members)
Seen(s) == run[s].payload[QuestionOf[InHand(s)]]

\* The record in hand is done; after the last one of a post, the next post.
NextMember(s, failing) ==
    LET rest == run[s].members \ {InHand(s)}
    IN  IF rest # {}
          THEN /\ run' = [run EXCEPT ![s].members = rest,
                                     ![s].failed = @ \/ failing]
               /\ UNCHANGED pc
          ELSE /\ run' = [run EXCEPT ![s].members = {},
                                     ![s].failed = @ \/ failing,
                                     ![s].todo = @ \ {run[s].post},
                                     ![s].post = Null,
                                     ![s].payload = <<>>,
                                     ![s].stamp = 0]
               /\ pc' = [pc EXCEPT ![s] = "fetch"]

\* A refused record is reported and skipped.
RefuseAnswer(s) ==
    /\ pc[s] = "record"
    /\ Refuses(InHand(s), Seen(s).answer, run[s].stamp)
    /\ NextMember(s, TRUE)
    /\ UNCHANGED <<ledger, alerted, commands, world, faults>>

SkipAnswer(s) ==
    /\ pc[s] = "record"
    /\ ~Refuses(InHand(s), Seen(s).answer, run[s].stamp)
    /\ NothingNew(InHand(s), Seen(s).answer)
    /\ NextMember(s, FALSE)
    /\ UNCHANGED <<ledger, alerted, commands, world, faults>>

\* One transaction: the row, and the event that moves the record if the
\* observation is definitive and the record has not moved yet.
AppendAnswer(s) ==
    LET r == InHand(s)
        moves == /\ KindOf(QuestionOf[r], Seen(s).answer) \in Definitive
                 /\ status[r] = "submitted"
    IN  /\ pc[s] = "record"
        /\ ~Refuses(r, Seen(s).answer, run[s].stamp)
        /\ ~NothingNew(r, Seen(s).answer)
        /\ rows' = [rows EXCEPT ![r] =
                      Append(@, [shown |-> Seen(s),
                                 observed |-> run[s].stamp])]
        /\ status' = [status EXCEPT ![r] = IF moves THEN "resolved" ELSE @]
        /\ NextMember(s, FALSE)
        /\ UNCHANGED <<scores, alerted, commands, world, faults>>

\* Mutant of Withheld: a record that never left submitted is not looked at.
XWithheld(s) ==
    {r \in run[s].listed : Standing(r) = "withheld" /\ status[r] = "resolved"}

\* The records of the run that now stand on a withheld resolution, whoever
\* recorded it.
Withheld(s) == {r \in run[s].listed : Standing(r) = "withheld"}

\* The exit code: a unit goes on to score only after a clean ingestion.
EndIngest(s) ==
    /\ pc[s] = "fetch"
    /\ run[s].todo = {}
    /\ alerted' = alerted \cup Withheld(s)
    /\ pc' = [pc EXCEPT ![s] = IF s \in Timers /\ ~run[s].failed
                                 THEN "ingested" ELSE "idle"]
    /\ run' = [run EXCEPT ![s] = Idle]
    /\ UNCHANGED <<ledger, commands, world, faults>>

-----------------------------------------------------------------------------
(* score                                                                   *)

\* Mutant of BeginScore: a scored record is not a candidate again.
XBeginScore(s) ==
    /\ Begins(s)
    /\ pc[s] = IF s \in Timers THEN "ingested" ELSE "idle"
    /\ run' = [run EXCEPT ![s] =
                 [Idle EXCEPT !.members = {r \in Records :
                                             status[r] = "resolved"},
                              !.version = version]]
    /\ pc' = [pc EXCEPT ![s] = "score"]
    /\ UNCHANGED <<ledger, alerted, world, faults>>

\* The candidates are the records with an observation, or the one the
\* operator names.
BeginScore(s) ==
    /\ Begins(s)
    /\ pc[s] = IF s \in Timers THEN "ingested" ELSE "idle"
    /\ \E R \in {{r \in Records : rows[r] # <<>>}}
                \cup (IF s \in Timers THEN {} ELSE {{r} : r \in Records}) :
          run' = [run EXCEPT ![s] =
                    [Idle EXCEPT !.members = R, !.version = version]]
    /\ pc' = [pc EXCEPT ![s] = "score"]
    /\ UNCHANGED <<ledger, alerted, world, faults>>

\* computed_at is read before the transaction begins.
TakeRecord(s) ==
    /\ pc[s] = "score"
    /\ run[s].members # {}
    /\ run' = [run EXCEPT ![s].stamp = clock]
    /\ pc' = [pc EXCEPT ![s] = IF LocallyScored(InHand(s))
                                 THEN "local" ELSE "platform"]
    /\ UNCHANGED <<ledger, alerted, commands, world, faults>>

Restamp(s) ==
    /\ pc[s] = "restamp"
    /\ run' = [run EXCEPT ![s].stamp = clock]
    /\ pc' = [pc EXCEPT ![s] = "platform"]
    /\ UNCHANGED <<ledger, alerted, commands, world, faults>>

\* The platform's metrics have one version.
VersionOf(s) == IF pc[s] = "local" THEN run[s].version ELSE 1

Scorable(r) == Standing(r) = "resolved" /\ status[r] \in {"resolved", "scored"}

\* Mutant of Computable: any resolution the record has had will do.
XComputable(r, f) ==
    /\ status[r] \in {"resolved", "scored"}
    /\ \E i \in DOMAIN rows[r] :
          /\ KindOf(QuestionOf[r], rows[r][i].shown.answer) = "resolved"
          /\ HasScore(r, rows[r][i].shown, f)

Computable(r, f) == Scorable(r) /\ HasScore(r, Latest(r).shown, f)

\* The clock read for the score precedes the observation another run has
\* recorded meanwhile.
Late(s) == run[s].stamp < Latest(InHand(s)).observed

\* A family is done: the platform's follows the local one, then the next
\* record.
NextFamily(s) ==
    IF pc[s] = "local"
      THEN pc' = [pc EXCEPT ![s] = "restamp"] /\ UNCHANGED run
      ELSE /\ pc' = [pc EXCEPT ![s] = "score"]
           /\ run' = [run EXCEPT ![s].members = @ \ {InHand(s)},
                                 ![s].stamp = 0]

Missing(s) ==
    /\ Computable(InHand(s), pc[s])
    /\ ~Scored(InHand(s), pc[s], VersionOf(s))

\* Not scorable, nothing missing, or a refusal that leaves nothing behind:
\* no such score, or a score older than its observation.
PassOver(s) ==
    /\ pc[s] \in Families
    /\ ~(Missing(s) /\ ~Late(s))
    /\ NextFamily(s)
    /\ UNCHANGED <<ledger, alerted, commands, world, faults>>

\* One transaction: the rows against the newest observation, and the event
\* for the first of them.
AppendScore(s) ==
    LET r == InHand(s)
    IN  /\ pc[s] \in Families
        /\ Missing(s)
        /\ ~Late(s)
        /\ scores' = [scores EXCEPT ![r] =
                        Append(@, [row |-> Len(rows[r]), family |-> pc[s],
                                   version |-> VersionOf(s)])]
        /\ status' = [status EXCEPT ![r] = "scored"]
        /\ NextFamily(s)
        /\ UNCHANGED <<rows, alerted, commands, world, faults>>

EndScore(s) ==
    /\ pc[s] = "score"
    /\ run[s].members = {}
    /\ pc' = [pc EXCEPT ![s] = "idle"]
    /\ run' = [run EXCEPT ![s] = Idle]
    /\ UNCHANGED <<ledger, alerted, commands, world, faults>>

\* systemd's timeout, a reboot, an operator's interrupt: an open transaction
\* rolls back.
Kill(s) ==
    /\ pc[s] # "idle"
    /\ faults < MaxFaults
    /\ faults' = faults + 1
    /\ pc' = [pc EXCEPT ![s] = "idle"]
    /\ run' = [run EXCEPT ![s] = Idle]
    /\ UNCHANGED <<ledger, alerted, commands, world>>

-----------------------------------------------------------------------------
Ingest(s) ==
    \/ BeginIngest(s)
    \/ Fetch(s)
    \/ Stamp(s)
    \/ RefuseAnswer(s)
    \/ SkipAnswer(s)
    \/ AppendAnswer(s)
    \/ EndIngest(s)

Score(s) ==
    \/ BeginScore(s)
    \/ TakeRecord(s)
    \/ Restamp(s)
    \/ PassOver(s)
    \/ AppendScore(s)
    \/ EndScore(s)

Next ==
    \/ \E r \in Records : Submit(r)
    \/ \E q \in Questions : Change(q)
    \/ Tick
    \/ Deploy
    \/ \E s \in Sessions :
          \/ Ingest(s)
          \/ Score(s)
          \/ FetchFails(s)
          \/ Kill(s)

Spec == Init /\ [][Next]_vars

\* The timer fires every six hours and its run goes on; an operator's need
\* not.  Fetches fail and runs are killed at most MaxFaults times.
FairSpec == Spec /\ \A s \in Timers : WF_vars(Ingest(s) \/ Score(s))

-----------------------------------------------------------------------------
\* Whatever order runs overlap and die in, a record has left submitted exactly
\* when some observation was definitive, and is scored exactly when it has a
\* score (lifecycle.py:1889-1898, 2020-2028): no transaction moves one half.
StatusFollowsRows ==
    \A r \in Records :
        LET kinds == {KindOf(QuestionOf[r], rows[r][i].shown.answer) :
                        i \in DOMAIN rows[r]}
        IN  /\ status[r] = "approved" => rows[r] = <<>>
            /\ status[r] \in {"resolved", "scored"} <=>
                  kinds \cap Definitive # {}
            /\ status[r] = "scored" <=> scores[r] # <<>>

\* Runs that overlap with answers of different age append no repetition of
\* the newest observation, no retraction of nothing, and nothing stamped
\* before it (lifecycle.py:1855-1863).
HistoryIsChanges ==
    \A r \in Records : \A i \in DOMAIN rows[r] :
        IF i = 1
          THEN KindOf(QuestionOf[r], rows[r][1].shown.answer)
                 \notin {"unresolved", "refused"}
          ELSE /\ Digest(rows[r][i].shown.answer)
                    # Digest(rows[r][i-1].shown.answer)
               /\ rows[r][i].observed >= rows[r][i-1].observed

\* A record's scores are against resolutions it was seen to have, each with
\* what was observed with that resolution and no other, and none is written
\* twice by runs that overlap (lifecycle.py:1981-1995, 2132-2151).
ScoresBelong ==
    \A r \in Records :
        /\ \A i \in DOMAIN scores[r] :
              LET score == scores[r][i]
              IN  /\ score.row \in DOMAIN rows[r]
                  /\ KindOf(QuestionOf[r], rows[r][score.row].shown.answer)
                       = "resolved"
                  /\ HasScore(r, rows[r][score.row].shown, score.family)
        /\ \A i, j \in DOMAIN scores[r] :
              scores[r][i] = scores[r][j] => i = j

\* No score is written for a resolution that has since been retracted,
\* annulled or replaced, though it was the newest when the run began
\* (lifecycle.py:1972-1974, 014_resolution_ingestion.sql:208-217).
NothingStaleIsScored ==
    [][\A r \in Records :
          scores'[r] # scores[r] =>
            /\ Standing(r) = "resolved"
            /\ scores'[r][Len(scores'[r])].row = Len(rows'[r])]_vars

\* Said of the rows: "Observations are appended in the order they were made"
\* (014_resolution_ingestion.sql:178).  The instant is taken when the answer
\* has arrived, not when the platform gave it.
AppendedInOrder ==
    \A r \in Records : \A i \in 2 .. Len(rows[r]) :
        rows[r][i].shown.rev >= rows[r][i-1].shown.rev

\* When the platform settles, what every posted record stands on is in the
\* end what the platform shows, whatever older answers were in flight
\* (resolution_ingest.py:84-133).
LedgerCatchesUp ==
    \A r \in Records :
        LET answer == platform[QuestionOf[r]].answer
            kind == KindOf(QuestionOf[r], answer)
        IN  <>[](/\ status[r] # "approved"
                 /\ kind # "refused"
                 => NothingNew(r, answer))

\* When it settles on answers that can be classified, every score that can be
\* computed is in the end there, in the deployed version
\* (whiskeyjack-resolutions.service:25-32).
ScoresCatchUp ==
    <>[](\A q \in Questions : KindOf(q, platform[q].answer) # "refused")
      => \A r \in Records :
           /\ <>[](LocallyScored(r) /\ Computable(r, "local") =>
                      Scored(r, "local", version))
           /\ <>[](Computable(r, "platform") => Scored(r, "platform", 1))

\* A record that goes on standing on a withheld resolution is pushed, though
\* the run that recorded it died before the push
\* (resolution_ingest.py:144-196).
WithheldIsPushed ==
    \A r \in Records :
        Standing(r) = "withheld" ~> r \in alerted \/ Standing(r) # "withheld"
=============================================================================
