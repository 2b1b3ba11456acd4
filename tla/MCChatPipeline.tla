--------------------------- MODULE MCChatPipeline ---------------------------
(***************************************************************************)
(* A small instance of ChatPipeline by itself.                             *)
(***************************************************************************)
EXTENDS ChatPipeline, TLC

Symmetry == Permutations(Request)
=============================================================================
