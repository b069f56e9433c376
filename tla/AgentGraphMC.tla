---------------------------- MODULE AgentGraphMC ----------------------------
(* Small instances of AgentGraph for TLC. *)
EXTENDS AgentGraph, TLC

\* Nothing tells two facts apart.
FactSymmetry == Permutations(Fact)
=============================================================================
