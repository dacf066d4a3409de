------------------------- MODULE SpendingRefinement -------------------------
(* The worker's paid calls implement Purse: a call is asked when a request *)
(* for it left the host, and paid when the provider charged.               *)
EXTENDS Spending

askedCalls == {CallOf(r) : r \in sent}

paidCalls ==
    [c \in Calls |->
       LET charged == {r \in sent : CallOf(r) = c /\ charge[r] # None}
       IN  IF charged = {} THEN 0 ELSE charge[CHOOSE r \in charged : TRUE]]

P == INSTANCE Purse WITH asked <- askedCalls, paid <- paidCalls

\* No crash, timeout, restore or race of `correct-costs` makes the worker ask
\* twice or beyond the project's ceiling (Budget.reserve, restore.py).
ImplementsPurse == P!Spec
=============================================================================
