----------------------------- MODULE MCCommands -----------------------------
(* Constants of Commands for TLC. *)
EXTENDS Commands, TLC

Symmetry == Permutations(Replies) \cup Permutations(TimerNames)

\* Two names that differ by an accent, and one that differs by an accent from
\* a built-in command.
Letter(n) == CASE n = "help+accent" -> "help" [] n = "cafe+accent" -> "cafe" [] OTHER -> n

Accents == [n \in Names |-> Letter(n)]

=============================================================================
