--------------------------- MODULE MCChatMessages ---------------------------
(* Constants of ChatMessages for TLC. *)
EXTENDS ChatMessages, TLC

Symmetry == Permutations(Users) \cup Permutations(Conns)

\* One unit, of two seconds or of one.
OneUnit == [m |-> 2]
Plain == [s |-> 1]

\* A mode of a second, a negative number, and one that is no int.
SomeModes == {1, -2, 8}

\* A ban of which two seconds do not fit an int that is -1 or 0.
LargeBans == {-1}

\* The statements that may fail.
AllStatements == Statements
SomeStatements == {"last"}

=============================================================================
