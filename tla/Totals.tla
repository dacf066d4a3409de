------------------------------- MODULE Totals -------------------------------
(***************************************************************************)
(* The total of a bill, a function from what was bought to whole amounts:  *)
(* as many as there are units on it.  Counting them keeps sums within what *)
(* the provers know of finite sets, where a sum by folding is not.         *)
(***************************************************************************)
EXTENDS Integers, FiniteSets

Units(bill) == UNION {{x} \X (1 .. bill[x]) : x \in DOMAIN bill}

Total(bill) == Cardinality(Units(bill))
=============================================================================
