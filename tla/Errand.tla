------------------------------- MODULE Errand -------------------------------
(***************************************************************************)
(* What the worker promises of every question, whatever happens to it, to  *)
(* its ledger and to the answers: a forecast is intended once and asked    *)
(* for once, the note of what became of it is true while there is one, and *)
(* a comment is asked for under such a note only, once and at most once    *)
(* more for each time the notes were put back.                             *)
(***************************************************************************)
EXTENDS Naturals

CONSTANT Questions

VARIABLES intended,  \* the questions a forecast is meant for
          asked,     \* how often each was asked for
          fate,      \* what became of it: open, shown, lost, refused
          noted,     \* what the worker has on file of that
          told,      \* how often its comment was asked for
          restores   \* how often the notes were put back

vars == <<intended, asked, fate, noted, told, restores>>

Init ==
    /\ intended = {}
    /\ asked = [q \in Questions |-> 0]
    /\ fate = [q \in Questions |-> "open"]
    /\ noted = [q \in Questions |-> "nothing"]
    /\ told = [q \in Questions |-> 0]
    /\ restores = 0

Intend(q) ==
    /\ q \notin intended
    /\ intended' = intended \cup {q}
    /\ UNCHANGED <<asked, fate, noted, told, restores>>

\* The answer may tell what becomes of it, or nothing.
Ask(q) ==
    /\ q \in intended
    /\ asked[q] = 0
    /\ asked' = [asked EXCEPT ![q] = 1]
    /\ \E end \in {"open", "shown", "lost", "refused"} :
          fate' = [fate EXCEPT ![q] = end]
    /\ UNCHANGED <<intended, noted, told, restores>>

Turn(q) ==
    /\ asked[q] = 1
    /\ fate[q] = "open"
    /\ \E end \in {"shown", "lost"} : fate' = [fate EXCEPT ![q] = end]
    /\ UNCHANGED <<intended, asked, noted, told, restores>>

Note(q) ==
    /\ fate[q] \in {"shown", "refused"}
    /\ noted' = [noted EXCEPT ![q] = fate[q]]
    /\ UNCHANGED <<intended, asked, fate, told, restores>>

Tell(q) ==
    /\ noted[q] = "shown"
    /\ told[q] <= restores
    /\ told' = [told EXCEPT ![q] = @ + 1]
    /\ UNCHANGED <<intended, asked, fate, noted, restores>>

\* Some notes are lost; that a forecast was intended and asked for is not.
PutBack ==
    /\ restores' = restores + 1
    /\ noted' \in [Questions -> {"nothing", "shown", "refused"}]
    /\ \A q \in Questions : noted'[q] \in {noted[q], "nothing"}
    /\ UNCHANGED <<intended, asked, fate, told>>

Next ==
    \/ PutBack
    \/ \E q \in Questions : Intend(q) \/ Ask(q) \/ Turn(q) \/ Note(q) \/ Tell(q)

Spec == Init /\ [][Next]_vars
=============================================================================
