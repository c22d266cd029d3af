----------------------------- MODULE MCJobStore -----------------------------
(* JobStore on a small instance.                                           *)
EXTENDS JobStore, TLC

Symm == Permutations(Fingerprint) \cup Permutations(SourceId) \cup Permutations(Verdict)
=============================================================================
