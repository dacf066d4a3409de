---------------------------- MODULE MCSubmission ----------------------------
(* Processes and versions are interchangeable where no property is about   *)
(* one of them.                                                            *)
EXTENDS SubmissionRefinement, SubmissionInvariant, TLC

Symmetry == Permutations(Procs) \cup Permutations(Records)
=============================================================================
