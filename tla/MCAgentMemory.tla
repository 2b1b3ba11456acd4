--------------------------- MODULE MCAgentMemory ---------------------------
(***************************************************************************)
(* A small instance of AgentMemory; requests can be exchanged.              *)
(***************************************************************************)
EXTENDS AgentMemory, TLC

CONSTANTS r1, r2, r3, o1

MCRequest == {r1, r2, r3}
MCOld == {o1}
Symmetry == Permutations(MCRequest)
=============================================================================
