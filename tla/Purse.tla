------------------------------- MODULE Purse --------------------------------
(***************************************************************************)
(* What the budget promises about real money, whatever happens to the      *)
(* ledger: a paid request is made at most once, and only while everything  *)
(* a project has asked for, at what it cost or may still cost, fits its    *)
(* ceiling with it.                                                        *)
(***************************************************************************)
EXTENDS Totals

CONSTANTS Calls, ProjectOf, EstimateOf, Ceiling

VARIABLES
    asked,   \* calls that were made
    paid     \* what each was charged, 0 for nothing yet

purse == <<asked, paid>>

Init == asked = {} /\ paid = [c \in Calls |-> 0]

Exposure(c) == IF paid[c] = 0 THEN EstimateOf[c] ELSE paid[c]

\* All that the project of a call has at stake.
AtStake(c) ==
    Total([d \in {x \in asked : ProjectOf[x] = ProjectOf[c]} |-> Exposure(d)])

Ask(c) ==
    /\ c \notin asked
    /\ AtStake(c) + EstimateOf[c] <= Ceiling[ProjectOf[c]]
    /\ asked' = asked \cup {c}
    /\ UNCHANGED paid

Pay(c) ==
    /\ c \in asked
    /\ paid[c] = 0
    /\ \E a \in 1 .. EstimateOf[c] : paid' = [paid EXCEPT ![c] = a]
    /\ UNCHANGED asked

Next == \E c \in Calls : Ask(c) \/ Pay(c)

Spec == Init /\ [][Next]_purse
=============================================================================
