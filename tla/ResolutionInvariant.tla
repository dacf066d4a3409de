------------------------- MODULE ResolutionInvariant -------------------------
(***************************************************************************)
(* Why overlapping runs keep status, observations and scores in step: what *)
(* holds at every step between the ledger and the runs in memory.          *)
(***************************************************************************)
EXTENDS Resolution

\* A run asks only for the posts of records it has listed, so that an answer
\* finds a record to be recorded for.
Listing ==
    \A s \in Sessions :
        /\ run[s].todo \subseteq {PostOf[QuestionOf[r]] : r \in run[s].listed}
        /\ pc[s] = "stamp" => run[s].post \in run[s].todo

\* The invariant of the proofs: it holds whatever order runs overlap and die
\* in, and every transaction of lifecycle.py:1800-2170 keeps it.
Inductive ==
    /\ TypeOK
    /\ Listing
    /\ StatusFollowsRows
    /\ HistoryIsChanges
    /\ ScoresBelong
=============================================================================
