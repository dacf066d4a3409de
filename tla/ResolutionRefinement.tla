------------------------ MODULE ResolutionRefinement ------------------------
(***************************************************************************)
(* The overlapping runs implement Scoreboard.  A record's status is no     *)
(* variable of it: two commands move it in transactions of their own, and  *)
(* it must be at every step the word for what the rows say.                *)
(***************************************************************************)
EXTENDS ResolutionInvariant

Observation(r, row) ==
    [says     |-> Digest(row.shown.answer),
     kind     |-> KindOf(QuestionOf[r], row.shown.answer),
     supports |-> {f \in Families : HasScore(r, row.shown, f)},
     at       |-> row.observed]

Observable == {Observation(r, row) : r \in Records, row \in Rows}

posted == {r \in Records : status[r] # "approved"}

newest ==
    [r \in Records |->
       IF rows[r] = <<>> THEN Null ELSE Observation(r, Latest(r))]

count == [r \in Records |-> Len(rows[r])]

Kinds(r) ==
    {KindOf(QuestionOf[r], rows[r][i].shown.answer) : i \in DOMAIN rows[r]}

settled == {r \in Records : Kinds(r) \cap Definitive # {}}

marks == [r \in Records |-> {scores[r][i] : i \in DOMAIN scores[r]}]

B == INSTANCE Scoreboard
       WITH Observations <- Observable, Nothing <- Null,
            Versions <- 1 .. MaxVersions

\* Whatever runs overlap and die, each of their transactions is one step of
\* Scoreboard or changes nothing it can see, and the status of every record is
\* its label (lifecycle.py:1781-1902, 1936-2038).
ImplementsScoreboard ==
    /\ B!Spec
    /\ [](\A r \in Records : status[r] = B!Label(r))
=============================================================================
