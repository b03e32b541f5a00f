------------------------- MODULE MCMcpServerConfig -------------------------
(* Model values for McpServerConfig; requests are interchangeable.         *)
EXTENDS McpServerConfig, TLC

RequestSymmetry == Permutations(Request)
=============================================================================
