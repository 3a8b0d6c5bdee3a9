----------------------------- MODULE Durations -----------------------------
(***************************************************************************)
(* The arithmetic of the lengths of time a moderator enters.  ban() reads  *)
(* an int and a unit and multiplies them as ints (chatserver.cpp:306-347). *)
(* slowmode and followmode store an int in a quint64, which is added to    *)
(* and subtracted from qint64 times (lines 790-813).  The values of an int *)
(* are from -IntHalf below IntHalf, 2^31 in the program, those of a qint64 *)
(* from -LongHalf below LongHalf, 2^63.                                    *)
(***************************************************************************)
EXTENDS Integers

CONSTANTS
  IntHalf, LongHalf,
  Factors,   \* the seconds in a unit, as a function of its letter
  BareUnit,  \* no letter: the argument is a number
  OtherUnit  \* a letter that is no unit

ASSUME DurationsAssumption ==
  /\ IntHalf \in Nat \ {0} /\ LongHalf \in Nat /\ IntHalf < LongHalf
  /\ Factors \in [DOMAIN Factors -> Nat]
  /\ {BareUnit, OtherUnit} \cap DOMAIN Factors = {} /\ BareUnit # OtherUnit

Int32 == -IntHalf .. IntHalf - 1

Units == DOMAIN Factors \cup {BareUnit, OtherUnit}

(* The quint64 of an integer, and the qint64 of a quint64. *)
Unsigned(n) == n % (2 * LongHalf)
Signed(n) == IF n < LongHalf THEN n ELSE n - 2 * LongHalf

(* toInt() of a number, and of anything else. *)
Read(n) == IF n \in Int32 THEN n ELSE 0

(* A bare number that does not fit is read again without its last digit,   *)
(* as if that were the letter of a unit, and refused like any other.       *)
Parses(n, unit) == n \in Int32 /\ unit # OtherUnit

(* What n units may come to.  The product is an int; out of its range it   *)
(* is undefined, and may be any int.                                       *)
Seconds(n, unit) ==
  IF unit = BareUnit THEN {n}
  ELSE IF n * Factors[unit] \in Int32 THEN {n * Factors[unit]} ELSE Int32

(* slowModeDelta > 0: the sum is a quint64, stored in a qint64. *)
HeldBySlowMode(last, mode, now) ==
  mode > 0 /\ Signed(Unsigned(last + mode - now)) > 0

(* Bug: the difference is not stored in a signed variable. *)
BugHeldByFollowMode(created, mode, now) ==
  mode > 0 /\ Unsigned(now - Unsigned(created + mode)) < 0

(* followDelta < 0. *)
HeldByFollowMode(created, mode, now) ==
  mode > 0 /\ Signed(Unsigned(now - Unsigned(created + mode))) < 0

=============================================================================
