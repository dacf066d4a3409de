--------------------------------- MODULE Desk ---------------------------------
(***************************************************************************)
(* One question from the preflight to the post: is it worth a model call,  *)
(* does the reply become a record, what does an approval authorize, is     *)
(* that what is posted, and what does the refetch say of it.               *)
(*                                                                         *)
(* Sources: forecast/ generate.py, parse.py, schema.py, validate.py,       *)
(* attribution.py, binary.py, multiple_choice.py, numeric.py, cdf.py;      *)
(* submission_payload, submission_live, submission_gateway, approval; cli. *)
(*                                                                         *)
(* Simplifications.                                                        *)
(*  - Probabilities are whole units, and sums are exact as those of fsum;  *)
(*    the tolerance of a match is less than one.  A digest is what it is   *)
(*    the digest of, a label has no length.                                *)
(*  - The SDK's conversion is external: it is given for each setting of    *)
(*    the standardization, the same each time, and may run out of time.    *)
(*  - One reservation, one post: Submission has the ledger around it.      *)
(***************************************************************************)
EXTENDS Integers, Sequences, FiniteSets, SequencesExt, Totals

CONSTANTS
    Whole,          \* 1.0
    Floor, Ceiling, \* PROBABILITY_BOUND_FLOOR, PROBABILITY_BOUND_CEILING
    Tolerance,      \* _SUM_TOLERANCE, _CATEGORY_SUM_TOLERANCE
    MaxCategories,  \* _MAX_CATEGORIES
    Points,         \* expected_cdf_points
    MaxPoints,      \* _MAX_DISCRETE_CDF_POINTS
    Levels,         \* DECLARED_PERCENTILE_LEVELS
    Alphabet,       \* option labels as a canonical payload sorts them
    Renamed,        \* a label the platform may give an option
    Questions,      \* canonical questions
    Configs,        \* forecast and numeric_calibration, as they may be deployed
    Sources,        \* what a packet may supply: sets of source ids
    Replies,        \* what the model may answer to a question
    Curves,         \* what the SDK may make of a bounded question's reply
    Files,          \* payloads an operator may bring in a file
    MaxTries,       \* model.allowed_tries
    MaxDecisions    \* bound on the decisions of the operator

MinPoints == 2
NoZeroPoint == -99
Background == "question-background"
Nothing == [question_type |-> "none"]
Refused == <<>>

\* What every response carries.
Said == {"reads", "as_of_utc", "question_id", "priors", "failure_modes", "base_rate",
         "evidence_adjustments", "load_bearing_facts"}

ASSUME DeskNumbers ==
    /\ {Whole, Floor, Ceiling, Tolerance, MaxCategories, Points, MaxPoints} \subseteq Nat
    /\ Floor < Ceiling /\ Ceiling < Whole
    /\ MinPoints <= Points /\ Points <= MaxPoints
    /\ MaxTries \in {1, 2}
    /\ MaxDecisions \in Nat

\* What the configuration's validators accept.
IsConfig(c) ==
    /\ {c.min_probability, c.max_probability} \subseteq Floor .. Ceiling
    /\ c.min_probability < c.max_probability
    /\ c.max_adjacent_pmf \in 1 .. Whole
    /\ c.use_standardization \in BOOLEAN

\* What the questions' validators accept.
IsQuestion(q) ==
    \/ q.qtype = "binary"
    \/ /\ q.qtype = "multiple_choice"
       /\ q.options \in Seq(ToSet(Alphabet)) /\ IsInjective(q.options)
       /\ Len(q.options) >= 2
    \/ /\ q.qtype \in {"numeric", "discrete"}
       /\ {q.lower_bound, q.upper_bound, q.zero_point} \subseteq Int
       /\ q.lower_bound < q.upper_bound
       /\ Curves[q] \subseteq Seq(Int)

ASSUME DeskInputs ==
    /\ Alphabet \in Seq(STRING) /\ IsInjective(Alphabet)
    /\ \A c \in Configs : IsConfig(c)
    /\ \A q \in Questions : IsQuestion(q)

VARIABLES
    question,  \* the question
    supplied,  \* the source ids of its packet
    config,    \* what is deployed
    used,      \* the configuration the run that generates loaded
    stage,     \* fresh, refused, generating, failed, recorded, approved, posted
    tries,     \* model calls left
    reply,     \* the recorded reply
    sdk,       \* how its percentiles convert
    decisions, \* approval_events: each with the payload it binds
    posted,    \* the payload posted
    options,   \* the platform's options, in its order
    entries,   \* the platform's history of the account's forecasts
    verdict,   \* what the last refetch found, and what was there to find
    snapshot   \* what the attempt's row says was expected

desk == <<question, supplied>>
generation == <<used, tries, reply, sdk>>
platform == <<options, entries>>
judgement == <<verdict, snapshot>>
vars == <<desk, config, generation, stage, decisions, posted, platform, judgement>>

IsBounded(q) == q.qtype \in {"numeric", "discrete"}
IsChoice(q) == q.qtype = "multiple_choice"

Init ==
    /\ question \in Questions
    /\ supplied \in Sources
    /\ config \in Configs
    /\ used = config
    /\ stage = "fresh"
    /\ tries = MaxTries
    /\ reply = Nothing
    /\ sdk = Refused
    /\ decisions = {}
    /\ posted = Nothing
    /\ options \in IF IsChoice(question)
                     THEN {question.options, Reverse(question.options)} ELSE {<<>>}
    /\ entries = {}
    /\ verdict = [outcome |-> "none", latest |-> Nothing]
    /\ snapshot = [expected |-> <<>>, labels |-> <<>>]

Distance(a, b) == IF a < b THEN b - a ELSE a - b

SumsToWhole(total) == Distance(total, Whole) <= Tolerance

-----------------------------------------------------------------------------
(* The preflight: generate.question_refusal                                *)

\* Mutant of Admits: an even split must lie between the bounds.
XAdmits(count, cfg) ==
    /\ count * cfg.min_probability <= Whole
    /\ Whole <= count * cfg.max_probability

\* Of all splits between the bounds, the even one or the nearest to it.
Admits(count, cfg) ==
    LET low == count * cfg.min_probability
        high == count * cfg.max_probability IN
    \/ low <= Whole /\ Whole <= high
    \/ low > Whole /\ SumsToWhole(low)
    \/ high < Whole /\ SumsToWhole(high)

ExpectedPoints(q) == IF q.qtype = "discrete" THEN q.cdf_size ELSE Points

ZeroPointFits(q) == q.zero_point # NoZeroPoint => q.zero_point < q.lower_bound

GridIsConvertible(q) ==
    IF q.qtype = "numeric" THEN q.cdf_size = Points
    ELSE MinPoints <= q.cdf_size /\ q.cdf_size <= MaxPoints

IsRefused(q, cfg) ==
    \/ q.qtype \notin cfg.supported_question_types
    \/ IsBounded(q) /\ (~ZeroPointFits(q) \/ ~GridIsConvertible(q))
    \/ IsChoice(q) /\ ~Admits(Len(q.options), cfg)

Preflight ==
    /\ stage = "fresh"
    /\ used' = config
    /\ stage' = IF IsRefused(question, config) THEN "refused" ELSE "generating"
    /\ UNCHANGED <<desk, config, tries, reply, sdk, decisions, posted, platform, judgement>>

-----------------------------------------------------------------------------
(* The reply: parse.py, validate.py, attribution.py                        *)

Cites(cited, known, requireOne) ==
    /\ requireOne => cited # <<>>
    /\ IsInjective(cited)
    /\ ToSet(cited) \subseteq known

\* What a response says of the prediction, by the type of the question.
Prediction ==
    CASE question.qtype = "binary" -> {"probability_yes"}
      [] IsChoice(question) -> {"options"}
      [] IsBounded(question) -> {"levels", "values"}

\* The fields of the response model and no others; priors are for binary questions.
Conforms(r) ==
    /\ DOMAIN r = Said \cup Prediction
    /\ question.qtype = "binary" => r.probability_yes \in 0 .. Whole
    /\ IsChoice(question) =>
         r.options \in Seq([option : STRING, probability : 0 .. Whole])
    /\ question.qtype # "binary" => ~r.priors

Attributed(r, q, sources) ==
    /\ r.question_id = q.question_id
    /\ r.failure_modes
    /\ Cites(r.base_rate, sources, FALSE)
    /\ \A section \in {r.evidence_adjustments, r.load_bearing_facts} :
        /\ sources # {} => section # {}
        /\ \A cited \in section : Cites(cited, sources \cup {Background}, sources # {})

\* Mutant of Within: the upper bound is the whole.
XWithin(p, cfg) == cfg.min_probability <= p /\ p <= Whole

Within(p, cfg) == cfg.min_probability <= p /\ p <= cfg.max_probability

BinaryOutput(r, cfg) == Within(r.probability_yes, cfg) /\ r.priors

\* Every option, no other, none twice.
ChoiceOutput(r, cfg) ==
    LET labels == [i \in DOMAIN r.options |-> r.options[i].option]
        values == [i \in DOMAIN r.options |-> r.options[i].probability] IN
    /\ ToSet(labels) = ToSet(question.options)
    /\ IsInjective(labels)
    /\ \A i \in DOMAIN values : Within(values[i], cfg)
    /\ SumsToWhole(Total(values))

NonDecreasing(s) == \A i \in 1 .. Len(s) - 1 : s[i] <= s[i + 1]

InBounds(v) ==
    /\ question.open_lower_bound \/ question.lower_bound <= v
    /\ question.open_upper_bound \/ v <= question.upper_bound
    /\ question.zero_point # NoZeroPoint => question.zero_point <= v

NumericOutput(r) ==
    /\ r.levels = Levels
    /\ NonDecreasing(r.values)
    /\ \A v \in ToSet(r.values) : InBounds(v)

OutputIsValid(r, cfg) ==
    CASE question.qtype = "binary" -> BinaryOutput(r, cfg)
      [] IsChoice(question) -> ChoiceOutput(r, cfg)
      [] IsBounded(question) -> NumericOutput(r)

Parses(r, cfg) ==
    /\ r.reads /\ Conforms(r) /\ Attributed(r, question, supplied)
    /\ OutputIsValid(r, cfg) /\ r.as_of_utc

\* In order but for the prediction, which takes these fields.
InOrderBut(r, q, sources, fields) ==
    /\ r.reads /\ Attributed(r, q, sources) /\ r.as_of_utc
    /\ DOMAIN r = Said \cup fields
    /\ r.priors = (q.qtype = "binary")

\* The model is free in what it predicts: where some prediction is in order, one
\* such is among the replies.
ASSUME ModelMayAnswer ==
    \A q \in Questions, sources \in Sources, cfg \in Configs :
        LET Says(fields) == {r \in Replies[q] : InOrderBut(r, q, sources, fields)}
            chances == cfg.min_probability .. cfg.max_probability IN
        /\ q.qtype = "binary" =>
             \E r \in Says({"probability_yes"}) : r.probability_yes \in chances
        /\ IsChoice(q) =>
             LET splits == {f \in [DOMAIN q.options -> chances] : SumsToWhole(Total(f))} IN
             splits # {} =>
               \E r \in Says({"options"}), f \in splits :
                 r.options = [i \in DOMAIN q.options |->
                                [option |-> q.options[i], probability |-> f[i]]]
        /\ IsBounded(q) =>
             \E r \in Says({"levels", "values"}) :
               /\ r.levels = Levels
               /\ r.values \in Seq(q.lower_bound .. q.upper_bound) /\ NonDecreasing(r.values)

-----------------------------------------------------------------------------
(* The conversion: cdf.py                                                  *)

\* The cap on a step is scaled to the grid: max_adjacent_pmf holds at Points.
StepFits(curve, i, cfg) ==
    (curve[i + 1] - curve[i]) * (Len(curve) - 1) <= cfg.max_adjacent_pmf * (Points - 1)

ArrayIsValid(curve, cfg) ==
    /\ Len(curve) = ExpectedPoints(question)
    /\ ToSet(curve) \subseteq 0 .. Whole
    /\ NonDecreasing(curve)
    /\ \A i \in 1 .. Len(curve) - 1 : StepFits(curve, i, cfg)
    /\ question.open_lower_bound \/ Head(curve) = 0
    /\ question.open_upper_bound \/ Last(curve) = Whole

\* Percentiles the standardization cannot converge on are refused unconverted.
Outcomes ==
    IF IsBounded(question) THEN [BOOLEAN -> Curves[question] \cup {Refused}] ELSE {Refused}

\* From bound to bound with no step above those of the straight line.
IsGentle(curve, q) ==
    /\ Len(curve) = ExpectedPoints(q)
    /\ ToSet(curve) \subseteq 0 .. Whole
    /\ NonDecreasing(curve)
    /\ \A i \in 1 .. Len(curve) - 1 : (curve[i + 1] - curve[i]) * (Len(curve) - 1) <= Whole
    /\ q.open_lower_bound \/ Head(curve) = 0
    /\ q.open_upper_bound \/ Last(curve) = Whole

\* Percentiles that rise evenly convert to such a curve.
ASSUME SdkMayConvert ==
    \A q \in Questions : IsBounded(q) /\ GridIsConvertible(q) =>
        \E curve \in Curves[q] : IsGentle(curve, q)

Cdf(s, cfg) == s[cfg.use_standardization]

Converts(s, cfg) ==
    IsBounded(question) =>
        /\ ZeroPointFits(question) /\ GridIsConvertible(question)
        /\ Cdf(s, cfg) # Refused
        /\ ArrayIsValid(Cdf(s, cfg), cfg)

-----------------------------------------------------------------------------
(* Generation: generate._run_attempts                                      *)

\* A reply that is refused is repaired once.
Repair ==
    /\ tries' = tries - 1
    /\ stage' = IF tries = 1 THEN "failed" ELSE "generating"
    /\ UNCHANGED <<reply, sdk>>

Keep(r, s) ==
    /\ reply' = r
    /\ sdk' = s
    /\ tries' = tries - 1
    /\ stage' = "recorded"

\* The provider fails or the conversion runs out of time: nothing is repaired.
GiveUp ==
    /\ stage' = "failed"
    /\ tries' = tries - 1
    /\ UNCHANGED <<reply, sdk>>

Answer ==
    /\ stage = "generating"
    /\ \/ GiveUp
       \/ \E r \in Replies[question] :
            IF ~Parses(r, used) THEN Repair
            ELSE \E s \in Outcomes : IF Converts(s, used) THEN Keep(r, s) ELSE Repair
    /\ UNCHANGED <<desk, config, used, decisions, posted, platform, judgement>>

-----------------------------------------------------------------------------
(* The payload: submission_payload.py, submission_live.plan_from_payload   *)

PayloadOf(r, s, cfg) ==
    CASE question.qtype = "binary" ->
           [question_type |-> "binary", probability_yes |-> r.probability_yes]
      [] IsChoice(question) ->
           [question_type |-> "multiple_choice",
            categories |->
              [label \in {r.options[i].option : i \in DOMAIN r.options} |->
                 r.options[CHOOSE i \in DOMAIN r.options :
                             r.options[i].option = label].probability]]
      [] IsBounded(question) ->
           [question_type |-> question.qtype, continuous_cdf |-> Cdf(s, cfg)]

\* Labels as a canonical rendering sorts them: each where as many come no later.
Place(label) == CHOOSE i \in DOMAIN Alphabet : Alphabet[i] = label

InOrder(labels) ==
    [i \in 1 .. Cardinality(labels) |->
       CHOOSE l \in labels : Cardinality({m \in labels : Place(m) <= Place(l)}) = i]

Sorted(categories) ==
    LET labels == InOrder(DOMAIN categories)
    IN  [i \in DOMAIN labels |-> categories[labels[i]]]

AreCategories(categories) ==
    /\ Cardinality(DOMAIN categories) \in 1 .. MaxCategories
    /\ SumsToWhole(Total(Sorted(categories)))

\* A payload carries its type and that type's key, and nothing else.
Plans(payload) ==
    \/ payload \in [question_type : {"binary"}, probability_yes : Floor .. Ceiling]
    \/ /\ \E labels \in SUBSET ToSet(Alphabet) :
            payload \in [question_type : {"multiple_choice"},
                         categories : [labels -> Floor .. Ceiling]]
       /\ AreCategories(payload.categories)
    \/ /\ payload \in [question_type : {"numeric", "discrete"},
                        continuous_cdf : Seq(0 .. Whole)]
       /\ Len(payload.continuous_cdf) = ExpectedPoints(question)
       /\ NonDecreasing(payload.continuous_cdf)

\* What the record authorizes under a configuration.
Derives(cfg) == Converts(sdk, cfg) /\ Plans(PayloadOf(reply, sdk, cfg))
Derived(cfg) == PayloadOf(reply, sdk, cfg)

-----------------------------------------------------------------------------
(* Approval and post: approval.py, submission_live.post_approved_forecast  *)

\* A decision is taken on a validated record; a rejection leaves it validated.
Decide(decision, payload) ==
    /\ stage = "recorded"
    /\ Cardinality(decisions) < MaxDecisions
    /\ decisions' = decisions \cup {[seq |-> Cardinality(decisions) + 1,
                                     decision |-> decision, payload |-> payload]}
    /\ UNCHANGED <<desk, config, generation, posted, platform, judgement>>

Approve ==
    /\ Decide("approved", Derived(config))
    /\ Derives(config)
    /\ stage' = "approved"

Reject ==
    /\ Decide("rejected", Nothing)
    /\ UNCHANGED stage

\* The approval in force is the only one there is.
Effective(d) ==
    /\ d \in decisions /\ d.decision = "approved"
    /\ \A other \in decisions : other.decision = "approved" => other = d

\* Mutant of IsAuthorized: any payload of the record's type will do.
XIsAuthorized(payload) ==
    /\ Plans(payload)
    /\ payload.question_type = question.qtype

\* The plan is drawn from the canonical payload; the key is given for the digest
\* that was approved.
IsAuthorized(payload) ==
    /\ Plans(payload)
    /\ payload.question_type = question.qtype
    /\ \E d \in decisions : Effective(d) /\ payload = d.payload

\* Derived again, or read from a file.
Offered ==
    Files[question] \cup (IF Derives(config) THEN {Derived(config)} ELSE {})

Post ==
    /\ stage = "approved"
    /\ entries = {}
    /\ \E payload \in Offered :
        /\ IsAuthorized(payload)
        /\ posted' = payload
        /\ \/ entries' = {[start_time |-> 1, forecast |-> payload]}
           \/ UNCHANGED entries
    /\ stage' = "posted"
    /\ UNCHANGED <<desk, config, generation, decisions, options, judgement>>

-----------------------------------------------------------------------------
(* The platform, and the refetch: submission_live.classify_refetch         *)

\* The account forecasts by hand.
Elsewhere ==
    /\ stage \in {"approved", "posted"}
    /\ verdict.outcome \notin {"confirmed", "absent"}
    /\ Cardinality(entries) < 2
    /\ \E payload \in Files[question] :
        /\ Plans(payload) /\ payload.question_type = question.qtype
        /\ IsChoice(question) => DOMAIN payload.categories = ToSet(options)
        /\ entries' = entries \cup
             {[start_time |-> Cardinality(entries) + 1, forecast |-> payload]}
    /\ UNCHANGED <<desk, config, generation, stage, decisions, posted, options, judgement>>

Relabel(old, f) ==
    IF f.question_type # "multiple_choice" \/ old \notin DOMAIN f.categories THEN f
    ELSE [f EXCEPT !.categories =
            [label \in (DOMAIN @ \ {old}) \cup {Renamed} |->
               IF label = Renamed THEN @[old] ELSE @[label]]]

\* The platform renames an option.
Rename ==
    /\ stage = "posted" /\ verdict.outcome \notin {"confirmed", "absent"}
    /\ IsChoice(question) /\ Renamed \notin ToSet(options)
    /\ options' = [options EXCEPT ![1] = Renamed]
    /\ entries' = {[e EXCEPT !.forecast = Relabel(options[1], @)] : e \in entries}
    /\ UNCHANGED <<desk, config, generation, stage, decisions, posted, judgement>>

Latest == CHOOSE e \in entries : \A other \in entries : other.start_time <= e.start_time

\* An entry as the platform renders it, in the order of its own options.
ForecastValues(f) ==
    CASE f.question_type = "binary" -> <<Whole - f.probability_yes, f.probability_yes>>
      [] f.question_type = "multiple_choice" ->
           [i \in DOMAIN options |-> f.categories[options[i]]]
      [] f.question_type \in {"numeric", "discrete"} -> f.continuous_cdf

ExpectedValues(f) ==
    CASE f.question_type = "binary" -> <<f.probability_yes>>
      [] f.question_type = "multiple_choice" -> Sorted(f.categories)
      [] f.question_type \in {"numeric", "discrete"} -> f.continuous_cdf

Labels(f) ==
    IF f.question_type # "multiple_choice" THEN <<>>
    ELSE InOrder(DOMAIN f.categories)

\* Mutant of ObservedValues: an option's value is read at its sorted place.
XObservedValues(values, labels) ==
    IF question.qtype = "binary" THEN <<values[2]>> ELSE values

\* By label: the platform's order is not the payload's.
ObservedValues(values, labels) ==
    CASE question.qtype = "binary" -> <<values[2]>>
      [] IsBounded(question) -> values
      [] IsChoice(question) ->
           [i \in DOMAIN labels |-> values[CHOOSE j \in DOMAIN options : options[j] = labels[i]]]

Classified(expected, labels) ==
    IF entries = {} THEN "absent"
    ELSE IF ToSet(options) # ToSet(labels) THEN "unreadable"
    ELSE IF ObservedValues(ForecastValues(Latest.forecast), labels) = expected THEN "confirmed"
    ELSE "mismatched"

Found(outcome) ==
    [outcome |-> outcome,
     latest |-> IF entries = {} THEN Nothing ELSE Latest.forecast]

\* The attempt keeps a snapshot of what was expected.
Refetch ==
    /\ stage = "posted" /\ verdict.outcome = "none"
    /\ LET expected == ExpectedValues(posted)
           labels == Labels(posted) IN
       /\ \E outcome \in {Classified(expected, labels), "unreadable"} :
            verdict' = Found(outcome)
       /\ snapshot' = [expected |-> expected, labels |-> labels]
    /\ UNCHANGED <<desk, config, generation, stage, decisions, posted, platform>>

\* verify-submission judges the snapshot by what the platform holds now; a
\* mismatch is left to a person.
Verify ==
    /\ verdict.outcome \in {"unreadable", "mismatched"}
    /\ LET outcome == Classified(snapshot.expected, snapshot.labels) IN
       /\ outcome \in {"confirmed", "absent"}
       /\ verdict' = Found(outcome)
    /\ UNCHANGED <<desk, config, generation, stage, decisions, posted, platform, snapshot>>

-----------------------------------------------------------------------------
(* Specification                                                           *)

\* Another configuration is deployed: a run that generates keeps its own.
Deploy ==
    /\ config' \in Configs \ {config}
    /\ UNCHANGED <<desk, generation, stage, decisions, posted, platform, judgement>>

Next ==
    \/ Preflight
    \/ Answer
    \/ Approve
    \/ Reject
    \/ Post
    \/ Elsewhere
    \/ Rename
    \/ Refetch
    \/ Verify
    \/ Deploy

Spec == Init /\ [][Next]_vars

-----------------------------------------------------------------------------
(* Properties                                                              *)

TypeOK ==
    /\ question \in Questions /\ supplied \in Sources /\ {config, used} \subseteq Configs
    /\ stage \in {"fresh", "refused", "generating", "failed", "recorded", "approved",
                  "posted"}
    /\ tries \in 0 .. MaxTries
    /\ Cardinality(entries) <= 2
    /\ verdict.outcome \in {"none", "absent", "unreadable", "confirmed", "mismatched"}

IsAnswerable(cfg) ==
    \E r \in Replies[question] :
        /\ Parses(r, cfg)
        /\ \E s \in Outcomes : Converts(s, cfg)

\* The steps a curve may take reach from end to end.
Spans(cfg) == Whole <= cfg.max_adjacent_pmf * (Points - 1)

RefusedHasNoAnswer ==
    stage = "refused" /\ question.qtype \in used.supported_question_types
      => ~IsAnswerable(used)

AskedHasAnswer == stage = "generating" /\ Spans(used) => IsAnswerable(used)

\* A question of a supported type is refused before any evidence is bought for it
\* if and only if no reply to it could be recorded, a cap that no curve can meet
\* apart (generate.question_refusal, multiple_choice.admits_a_distribution).
RefusalIsExact == RefusedHasNoAnswer /\ AskedHasAnswer

\* Whatever is recorded can be approved and posted under the configuration it was
\* generated under, but for more options (or longer labels) than a payload may
\* carry (generate._conversion_problems, submission_payload._require_postable).
RecordedIsPostable ==
    /\ stage \in {"recorded", "approved", "posted"}
    /\ IsChoice(question) => Len(question.options) <= MaxCategories
    => Derives(used)

\* What is posted was shown at the approval and is what the record gives under some
\* configuration, whatever is deployed and whatever file is brought in between
\* (submission.submission_key_for_approved_record).
PostedIsApproved ==
    stage = "posted" =>
        /\ \E d \in decisions : Effective(d) /\ posted = d.payload
        /\ \E cfg \in Configs : Derives(cfg) /\ posted = Derived(cfg)

\* A post is confirmed if and only if what the platform holds last is that post,
\* option for option (submission_live.classify_refetch).
VerdictIsTrue ==
    /\ verdict.outcome = "confirmed" => verdict.latest = posted
    /\ verdict.outcome \in {"absent", "mismatched"} => verdict.latest # posted

=============================================================================
