----------------------------- MODULE MCSpending -----------------------------
(* A model call and an AskNews call in one project of a series and another *)
(* AskNews call in the next project, for TLC.                              *)
EXTENDS SpendingInvariant, TLC

CONSTANTS model, news, later

MCProjectOf == [c \in Calls |-> IF c = later THEN 2 ELSE 1]
MCProviderOf == [c \in Calls |-> IF c = model THEN "openrouter" ELSE "asknews"]
MCEstimateOf == [c \in Calls |-> IF c = news THEN 2 ELSE 1]

\* The first project cannot pay for both its calls, but for one of them twice.
Tight == 1 :> 2 @@ 2 :> 1
\* Only the series' ceilings refuse a call.
Wide == 1 :> 4 @@ 2 :> 2
=============================================================================
