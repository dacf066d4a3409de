----------------------------- MODULE Scoreboard -----------------------------
(***************************************************************************)
(* What ingest-resolutions and score promise of every record, however      *)
(* their runs overlap and die: it was posted before anything is observed   *)
(* of it, each observation says something new and is no older than the     *)
(* one it replaces, and each mark is given once, to the newest observation *)
(* and for what that observation supports.                                 *)
(***************************************************************************)
EXTENDS Naturals

CONSTANTS
    Records,
    Observations,  \* what may be seen: what it says, its kind, the families
                   \* of marks it supports, and when it was made
    Nothing,       \* nothing was observed yet
    Definitive,    \* the kinds that settle a record
    Families,      \* of marks
    Versions       \* of the marking

VARIABLES posted,   \* the records posted
          newest,   \* the newest observation of each
          count,    \* how many there were
          settled,  \* the records a definitive one was made of
          marks     \* the marks given: for which observation, family, version

vars == <<posted, newest, count, settled, marks>>

Init ==
    /\ posted \in SUBSET Records
    /\ newest = [r \in Records |-> Nothing]
    /\ count = [r \in Records |-> 0]
    /\ settled = {}
    /\ marks = [r \in Records |-> {}]

Post(r) ==
    /\ r \notin posted
    /\ posted' = posted \cup {r}
    /\ UNCHANGED <<newest, count, settled, marks>>

\* o says something after what is known of r, and was not made before it.
News(r, o) ==
    IF count[r] = 0
      THEN o.kind # "unresolved"
      ELSE o.says # newest[r].says /\ newest[r].at =< o.at

Observe(r) ==
    /\ r \in posted
    /\ count' = [count EXCEPT ![r] = @ + 1]
    /\ \E o \in Observations :
          /\ o.kind # "refused"
          /\ News(r, o)
          /\ newest' = [newest EXCEPT ![r] = o]
          /\ settled' = IF o.kind \in Definitive THEN settled \cup {r}
                                                 ELSE settled
    /\ UNCHANGED <<posted, marks>>

Mark(r) ==
    /\ count[r] # 0
    /\ newest[r].kind = "resolved"
    /\ \E f \in Families, v \in Versions :
          LET mark == [row |-> count[r], family |-> f, version |-> v]
          IN  /\ f \in newest[r].supports
              /\ mark \notin marks[r]
              /\ marks' = [marks EXCEPT ![r] = @ \cup {mark}]
    /\ UNCHANGED <<posted, newest, count, settled>>

Next == \E r \in Records : Post(r) \/ Observe(r) \/ Mark(r)

Spec == Init /\ [][Next]_vars

\* The word for where a record is.
Label(r) ==
    IF marks[r] # {} THEN "scored"
    ELSE IF r \in settled THEN "resolved"
    ELSE IF r \in posted THEN "submitted"
    ELSE "approved"
=============================================================================
