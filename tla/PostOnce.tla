------------------------------ MODULE PostOnce ------------------------------
(***************************************************************************)
(* What the submission of one question promises, with no process, key,     *)
(* file or message in sight: a version of the forecast is claimed, a claim *)
(* under which nothing was sent may be withdrawn, one forecast is sent,    *)
(* and the sent version alone is concluded, once.                          *)
(***************************************************************************)
CONSTANT Versions

VARIABLES claimed,   \* the versions claimed for posting: at most one
          sent,      \* the versions a forecast was sent for: at most one
          outcome    \* each version's verdict

vars == <<claimed, sent, outcome>>

TypeOK ==
    /\ claimed \in SUBSET Versions
    /\ sent \in SUBSET Versions
    /\ outcome \in [Versions -> {"open", "submitted", "failed"}]

Init ==
    /\ claimed = {} /\ sent = {}
    /\ outcome = [v \in Versions |-> "open"]

Claim(v) ==
    /\ claimed = {} /\ sent = {}
    /\ claimed' = {v}
    /\ UNCHANGED <<sent, outcome>>

Withdraw ==
    /\ sent = {}
    /\ claimed' = {}
    /\ UNCHANGED <<sent, outcome>>

Send(v) ==
    /\ claimed = {v} /\ sent = {}
    /\ sent' = {v}
    /\ UNCHANGED <<claimed, outcome>>

Conclude(v, verdict) ==
    /\ sent = {v}
    /\ outcome[v] = "open"
    /\ outcome' = [outcome EXCEPT ![v] = verdict]
    /\ UNCHANGED <<claimed, sent>>

Next ==
    \/ Withdraw
    \/ \E v \in Versions : Claim(v) \/ Send(v)
    \/ \E v \in Versions, verdict \in {"submitted", "failed"} : Conclude(v, verdict)

Spec == Init /\ [][Next]_vars
=============================================================================
