------------------------ MODULE SubmissionInvariant ------------------------
(***************************************************************************)
(* The inductive invariant behind the safety properties of Submission. It  *)
(* says what each process knows at each step (LocalKnowledge), that one    *)
(* process and one record at a time hold the question (OneHolder, Keys),   *)
(* and what a POST and a recorded verdict leave behind (Posts, Verdicts).  *)
(* It holds under every release rule but "looked".                         *)
(***************************************************************************)
EXTENDS Submission

\* The latest reservation of the key is unreleased.
Held(r) == seq[r] # 0 /\ <<r, seq[r]>> \notin released

Stored(r) == \E n \in Numbers : <<r, n>> \in landed
Sent(r) == \E n \in Numbers : <<r, n>> \in posted

Sending == {"posted", "record"}

\* What process p may rely on at its next step.
Knows(p) ==
    /\ pc[p] # "idle" => rec[p] \in Records
    /\ pc[p] \in Claiming \cup {"reserve"} => status[rec[p]] # "validated"
    /\ pc[p] \in Claiming => res[p] = seq[rec[p]] /\ Held(rec[p])
    /\ pc[p] \in Claiming \ Sending =>
          /\ <<rec[p], res[p]>> \notin posted
          /\ attempt[rec[p]] = "none"
          /\ rec[p] \notin reconciled
    /\ pc[p] = "post" => rec[p] \in intent
    /\ pc[p] \in Sending => <<rec[p], res[p]>> \in posted
    /\ pc[p] = "record" => obs[p] \in AttemptEvents
    /\ pc[p] = "record" /\ obs[p] = "submitted" => Stored(rec[p])
    /\ pc[p] = "verify" => obs[p] \in VerificationEvents
    /\ pc[p] = "verify" /\ obs[p] = "submission_confirmed" => Stored(rec[p])
    /\ pc[p] = "reconcile" => Stored(rec[p])

LocalKnowledge == \A p \in Procs : Knows(p)

OneHolder ==
    \A p, q \in Procs : pc[p] \in Claiming /\ pc[q] \in Claiming => p = q

Keys ==
    /\ \A r \in Records, n \in Numbers : n \in 1 .. (seq[r] - 1) => <<r, n>> \in released
    /\ \A r \in Records, n \in Numbers : <<r, n>> \in released => n <= seq[r]
    /\ \A r, q \in Records : Held(r) /\ Held(q) => r = q
    /\ \A r \in Records : attempt[r] # "none" \/ r \in reconciled => Held(r)

Posts ==
    /\ \A r \in Records, n \in Numbers :
          <<r, n>> \in posted =>
              /\ n \in 1 .. seq[r]
              /\ r \in intent
              /\ status[r] # "validated"
              /\ <<r, n>> \in released => ReleaseRule = "settled" /\ <<r, n>> \in lost
    /\ landed \subseteq posted
    /\ lost \subseteq posted
    /\ landed \cap lost = {}
    /\ landed # {} => top # None
    /\ top \in Records => Stored(top)

Verdicts ==
    \A r \in Records :
        /\ attempt[r] # "none" => Sent(r)
        /\ status[r] = "approved" /\ attempt[r] # "none" =>
              attempt[r] = "submission_uncertain"
        /\ r \in reconciled => status[r] = "submitted"
        /\ status[r] = "submitted" => Stored(r)

Inductive ==
    TypeOK /\ LocalKnowledge /\ OneHolder /\ Keys /\ Posts /\ Verdicts
=============================================================================
