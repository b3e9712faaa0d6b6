------------------------------ MODULE MCMemory ------------------------------
(* Two memories, so that a hit can be made of both; two users, one         *)
(* document.                                                               *)
EXTENDS Memory, TLC

CONSTANTS m1, m2, u1, u2, d1

MCMemories == {m1, m2}
MCUsers    == {u1, u2}
Symmetric  == Permutations(MCMemories) \cup Permutations(MCUsers)
=============================================================================
