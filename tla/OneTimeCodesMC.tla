--------------------------- MODULE OneTimeCodesMC ---------------------------
(* Small instances of OneTimeCodes for TLC; the requests to come are interchangeable. *)
EXTENDS OneTimeCodes, TLC

RequestSymmetry == Permutations(Requests \ {First})
=============================================================================
