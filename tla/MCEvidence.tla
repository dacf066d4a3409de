------------------------------ MODULE MCEvidence ------------------------------
(***************************************************************************)
(* Documents for Evidence: three claims that collapse into one row, one    *)
(* that ages and one that is dated ahead, and for the lens a chain of      *)
(* titles whose ends are not alike, beside a copy of what the baseline     *)
(* holds and a document without a title.                                   *)
(***************************************************************************)
EXTENDS Evidence, TLC

MCBaseline == {"news", "web"}
MCRetrievals == {{"news"}, {"web"}, {"news", "web"}}
MCLens == {"lens"}

Doc(url, hash, reported, json, published, words) ==
    [url |-> url, hash |-> hash, reported |-> reported, json |-> json,
     published |-> published, updated |-> NoDate, text |-> TRUE, relevant |-> TRUE,
     words |-> words, publisher |-> "wire"]

\* One artifact, claimed three times.
Direct == Doc("u1", "h1", FALSE, 2, 0, {"a", "b", "c"})
Edited == [Direct EXCEPT !.json = 1]
Reported == [Direct EXCEPT !.json = 0, !.reported = TRUE]

Ahead == Doc("u2", "h2", FALSE, 1, 2, {"x", "y"})
Aside == [Doc("u3", "h3", FALSE, 1, 1, {"p", "q"}) EXCEPT !.relevant = FALSE]
Corrected == [Doc("u4", "h4", FALSE, 1, 2, {"p", "q"}) EXCEPT !.updated = 0]

\* Each claim in each place, each two in both orders.
Rotations == {<<Direct, Edited, Reported>>, <<Edited, Reported, Direct>>,
              <<Reported, Direct, Edited>>}

\* The same event told on, from one title to the next.
First == Doc("v1", "k1", FALSE, 1, 1, {"d", "e", "f"})
Second == Doc("v2", "k2", FALSE, 1, 1, {"e", "f", "g"})
Third == Doc("v3", "k3", FALSE, 1, 1, {"f", "g", "h"})
Copied == Doc("v4", "h1", FALSE, 1, 3, {})
Bare == Doc("v5", "k5", FALSE, 1, NoDate, {})

MCOffers ==
    "news" :> ({<<>>, <<Aside>>, <<Corrected, Ahead>>}
                \cup Rotations)
 @@ "web" :> {<<>>, <<Ahead>>}
 @@ "lens" :> {<<First, Third, Copied, Second>>, <<Second, Bare, Third, First>>}

=============================================================================
