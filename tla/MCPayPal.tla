------------------------------ MODULE MCPayPal ------------------------------
(* PayPal for TLC: i1 and i2 are two ids of the order o1, and every other  *)
(* id is one of o2.                                                        *)
EXTENDS PayPal

CONSTANTS i1, i2, o1, o2

MCNamed == [i \in Ids |-> IF i \in {i1, i2} THEN o1 ELSE o2]

=============================================================================
