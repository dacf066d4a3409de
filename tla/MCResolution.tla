---- MODULE MCResolution ----
(***************************************************************************)
(* One binary question.  Withholding stands for every way of taking a      *)
(* resolution back in the run with fairness, annulment and reopening in    *)
(* the other.                                                              *)
(***************************************************************************)
EXTENDS ResolutionRefinement

MCQuestionOf == [r \in Records |-> "b"]
MCPostOf == [q \in Questions |-> 1]
MCTypeOf == [q \in Questions |-> "binary"]
MCAdmitted == [q \in Questions |-> {"yes", "no"}]
MCPriced == [r \in Records |-> {"yes", "no"}]

Answer(s, r, d) == [status |-> s, resolution |-> r, scores |-> d]
Open == Answer("open", Null, FALSE)
Masked == Answer("resolved", Null, FALSE)
Annulled == Answer("resolved", "annulled", FALSE)
Contradiction == Answer("open", "yes", FALSE)
Yes == Answer("resolved", "yes", TRUE)

MaskedAnswers == {Open, Masked, Contradiction, Yes}
AnnulledAnswers == {Open, Annulled, Yes}
====
