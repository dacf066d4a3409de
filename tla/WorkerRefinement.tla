-------------------------- MODULE WorkerRefinement --------------------------
(***************************************************************************)
(* The worker implements Errand: the intents are those of the guard, which *)
(* no restore takes back, and the notes are the rows of the ledger, which  *)
(* a restore does.                                                         *)
(***************************************************************************)
EXTENDS WorkerInvariant

asks == [q \in Questions |-> sent[q].forecast]

fates ==
    [q \in Questions |->
       CASE forecast[q] = "up" -> "shown"
         [] forecast[q] \in {"lost", "refused"} -> forecast[q]
         [] forecast[q] \in {"none", "delayed"} -> "open"]

notes ==
    [q \in Questions |->
       IF ledger.confirmed[q] THEN "shown"
       ELSE IF ledger.refused[q] THEN "refused" ELSE "nothing"]

requests == [q \in Questions |-> sent[q].comment]

E == INSTANCE Errand WITH intended <- guards, asked <- asks, fate <- fates,
                          noted <- notes, told <- requests

\* Deaths, edits, lost and late answers, activations and restores of old ledgers
\* notwithstanding, every step of the worker, the platform and the operator is a
\* step of Errand or changes nothing it can see (tournament.py:368-569,
\* 1140-1156, restore.py:26-144).
ImplementsErrand == E!Spec
=============================================================================
