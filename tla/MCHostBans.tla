----------------------------- MODULE MCHostBans -----------------------------
(* Constants of HostBans for TLC. *)
EXTENDS HostBans, TLC

Symmetry == Permutations(Sockets) \cup Permutations(Hosts)

=============================================================================
