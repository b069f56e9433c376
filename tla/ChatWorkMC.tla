------------------------------ MODULE ChatWorkMC ------------------------------
(* The requests of ChatWork are interchangeable in runs without liveness. *)
EXTENDS ChatWork, TLC

RequestSymmetry == Permutations(Requests)
=============================================================================
