------------------------ MODULE MCConversationMemory ------------------------
(* Model values for ConversationMemory; runs are interchangeable.          *)
EXTENDS ConversationMemory, TLC

RunSymmetry == Permutations(Run)
=============================================================================
