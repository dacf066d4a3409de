------------------------ MODULE SubmissionRefinement ------------------------
(***************************************************************************)
(* Submission implements PostOnce as long as release-key is not used: an   *)
(* unreleased reservation is a claim, a POST under any reservation of a    *)
(* record is its one sending, and the lifecycle status is the verdict.     *)
(***************************************************************************)
EXTENDS Submission

ClaimedRecords == {r \in Records : Unreleased(r) # {}}
SentRecords == {m[1] : m \in posted}
Verdict == [r \in Records |->
              IF status[r] \in {"submitted", "failed"} THEN status[r] ELSE "open"]

Promise == INSTANCE PostOnce WITH
              Versions <- Records,
              claimed <- ClaimedRecords,
              sent <- SentRecords,
              outcome <- Verdict

\* Every step of the five commands, the worker and the platform is a step of
\* PostOnce or changes nothing it can see.
ImplementsPostOnce == Promise!Spec
=============================================================================
