----------------------------- MODULE AuthTokensMC -----------------------------
(* Small instances of AuthTokens for TLC. *)
EXTENDS AuthTokens, TLC

\* Requests differ in what they do, never in who they are.
RequestSymmetry == Permutations(Request)
=============================================================================
