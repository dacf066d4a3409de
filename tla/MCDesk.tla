-------------------------------- MODULE MCDesk --------------------------------
(***************************************************************************)
(* Questions, configurations and replies for Desk: twelve units make a     *)
(* whole and a sum may be two off, so that no split of four options, the   *)
(* nearest split of two and every split of three fit a narrow range; a     *)
(* grid of four points is converted, and discrete ones of two to five.     *)
(***************************************************************************)
EXTENDS Desk, TLC

MCLevels == <<10, 50, 90>>
MCAlphabet == <<"a", "b", "c", "d", "z">>
MCRenamed == "z"
MCSources == {{}, {"s1"}}

Binary == [qtype |-> "binary", question_id |-> 1]
Choice(labels) == [qtype |-> "multiple_choice", question_id |-> 1, options |-> labels]
Bounded(type, size, openLower, openUpper, zeroPoint) ==
    [qtype |-> type, question_id |-> 1, cdf_size |-> size,
     lower_bound |-> 0, upper_bound |-> 10,
     open_lower_bound |-> openLower, open_upper_bound |-> openUpper,
     zero_point |-> zeroPoint]

Two == Choice(<<"b", "a">>)
Three == Choice(<<"b", "c", "a">>)
Four == Choice(<<"d", "b", "c", "a">>)
Numeric == Bounded("numeric", 4, FALSE, FALSE, NoZeroPoint)
Logarithmic == Bounded("numeric", 4, TRUE, FALSE, -1)

MCQuestions ==
    {Binary, Two, Three, Four, Numeric, Logarithmic,
     Bounded("numeric", 4, FALSE, TRUE, 0),
     Bounded("numeric", 3, FALSE, FALSE, NoZeroPoint),
     Bounded("discrete", 1, FALSE, FALSE, NoZeroPoint),
     Bounded("discrete", 2, FALSE, FALSE, NoZeroPoint),
     Bounded("discrete", 5, TRUE, TRUE, NoZeroPoint),
     Bounded("discrete", 6, FALSE, FALSE, NoZeroPoint)}

AllTypes == {"binary", "multiple_choice", "numeric", "discrete"}

Config(low, high, types, standardize, cap) ==
    [min_probability |-> low, max_probability |-> high,
     supported_question_types |-> types,
     use_standardization |-> standardize, max_adjacent_pmf |-> cap]

MCConfigs ==
    {Config(1, 11, AllTypes, TRUE, 6),
     Config(1, 11, AllTypes, FALSE, 4),
     Config(4, 5, AllTypes, TRUE, 12),
     Config(2, 6, AllTypes \ {"discrete"}, FALSE, 3)}

\* A reply that says what it must, citing what was supplied or nothing.
Reply(sources, priors, prediction) ==
    [reads |-> TRUE, as_of_utc |-> TRUE, question_id |-> 1, priors |-> priors,
     failure_modes |-> TRUE, base_rate |-> <<>>,
     evidence_adjustments |-> sources, load_bearing_facts |-> sources]
    @@ prediction

Well(priors, predictions) ==
    {Reply(sources, priors, p) :
       sources \in {{}, {<<"s1", Background>>}}, p \in predictions}

Even == [probability_yes |-> 6]

Split(labels, f) == [options |->
    [i \in DOMAIN labels |-> [option |-> labels[i], probability |-> f[i]]]]

\* What is wrong with a reply besides its prediction.
Badly ==
    LET good == Reply({<<"s1">>}, TRUE, Even) IN
    {[good EXCEPT !.reads = FALSE], [good EXCEPT !.as_of_utc = FALSE],
     [good EXCEPT !.question_id = 2], [good EXCEPT !.failure_modes = FALSE],
     [good EXCEPT !.base_rate = <<Background>>],
     [good EXCEPT !.load_bearing_facts = {<<>>}],
     [good EXCEPT !.evidence_adjustments = {<<"s1", "s1">>}],
     [good EXCEPT !.evidence_adjustments = {<<"s2">>}],
     [good EXCEPT !.priors = FALSE],
     Reply({<<"s1">>}, TRUE, Split(<<"a">>, <<6>>))}

Splits(labels) == {Split(labels, f) : f \in [1 .. Len(labels) -> {2, 4, 5, 6}]}

\* An option too many, one twice, one missing.
Missplits ==
    {Split(<<"a", "b", "z">>, <<4, 4, 4>>), Split(<<"a", "b", "b">>, <<4, 4, 4>>),
     Split(<<"a">>, <<11>>)}

Percentiles(values) == [levels |-> MCLevels, values |-> values]

MCReplies == [q \in MCQuestions |->
    CASE q.qtype = "binary" ->
           Badly \cup Well(TRUE, {[probability_yes |-> p] : p \in {0, 1, 4, 6, 12}})
      [] q.qtype = "multiple_choice" ->
           Well(FALSE, Splits(q.options) \cup Missplits)
           \cup Well(TRUE, {Split(q.options, [i \in DOMAIN q.options |-> 4])})
      [] q.qtype \in {"numeric", "discrete"} ->
           Well(FALSE, {Percentiles(v) : v \in {<<1, 5, 9>>, <<5, 1, 9>>, <<-1, 5, 9>>,
                                          <<-2, 5, 9>>, <<1, 5, 11>>}}
                \cup {[Percentiles(<<1, 5, 9>>) EXCEPT !.levels = <<10, 90, 50>>]})]

MCCurves == [q \in MCQuestions |->
    IF q.qtype \in {"numeric", "discrete"}
      THEN {<<0, 12>>, <<0, 6, 12>>, <<0, 4, 8, 12>>, <<0, 1, 7, 12>>, <<0, 7, 5, 12>>,
            <<0, 4, 8, 13>>, <<2, 5, 8, 10>>, <<0, 3, 6, 9, 12>>, <<1, 3, 6, 9, 11>>}
      ELSE {}]

MCFiles == [q \in MCQuestions |->
    {[question_type |-> "binary", probability_yes |-> 6]} \cup
    CASE q.qtype = "binary" -> {[question_type |-> "binary", probability_yes |-> 0]}
      [] q.qtype = "multiple_choice" ->
           {[question_type |-> "multiple_choice",
             categories |-> [l \in ToSet(q.options) |-> IF l = "a" THEN 2 ELSE
                IF Len(q.options) = 2 THEN 10 ELSE IF Len(q.options) = 3 THEN 5 ELSE 3]]}
      [] q.qtype \in {"numeric", "discrete"} ->
           {[question_type |-> q.qtype, continuous_cdf |-> c] :
              c \in {<<0, 4, 8, 12>>, <<0, 1, 7, 12>>, <<0, 3, 6, 9, 12>>}}]

=============================================================================
