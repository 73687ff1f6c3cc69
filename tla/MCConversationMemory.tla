------------------------ MODULE MCConversationMemory ------------------------
(***************************************************************************)
(* Instances of ConversationMemory for TLC.                                *)
(***************************************************************************)
EXTENDS ConversationMemory, TLC

RequestSymmetry == Permutations(Requests)
===============================================================================
