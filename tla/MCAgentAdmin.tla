---------------------------- MODULE MCAgentAdmin ----------------------------
(* Model values for AgentAdmin; requests are interchangeable.              *)
EXTENDS AgentAdmin, TLC

RequestSymmetry == Permutations(Owner) \cup Permutations(Caller)
=============================================================================
