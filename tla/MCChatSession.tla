---------------------------- MODULE MCChatSession ----------------------------
(* Constants of ChatSession for TLC: interchangeable model values, so that *)
(* states are explored up to their permutation.                            *)
EXTENDS ChatSession, TLC

Symmetry == Permutations(Users) \cup Permutations(Names) \cup Permutations(Sockets)

=============================================================================
