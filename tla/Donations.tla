----------------------------- MODULE Donations -----------------------------
(***************************************************************************)
(* What the verification of donations promises, whatever becomes of tokens *)
(* and replies: a client's id of an order is decided once and for all, and *)
(* it is accepted only after the order that it names was paid for.  It     *)
(* promises nothing of several ids of one order.  PayPal implements it.    *)
(***************************************************************************)
CONSTANTS Ids, Orders, Named

VARIABLES
  fate,  \* of each id: "open", "accepted" (the donation was published) or "spent"
  paid   \* the orders whose payment was captured

donationVars == <<fate, paid>>

DonationsInit ==
  /\ fate = [i \in Ids |-> "open"]
  /\ paid = {}

Pay(o) ==
  /\ paid' = paid \cup {o}
  /\ fate' = fate

Accept(i) ==
  /\ fate[i] = "open" /\ Named[i] \in paid
  /\ fate' = [fate EXCEPT ![i] = "accepted"]
  /\ paid' = paid

Spend(i) ==
  /\ fate[i] = "open"
  /\ fate' = [fate EXCEPT ![i] = "spent"]
  /\ paid' = paid

DonationsNext ==
  \/ \E o \in Orders : Pay(o)
  \/ \E i \in Ids : Accept(i) \/ Spend(i)

DonationsSpec == DonationsInit /\ [][DonationsNext]_donationVars

=============================================================================
