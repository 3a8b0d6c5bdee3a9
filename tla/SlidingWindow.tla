--------------------------- MODULE SlidingWindow ---------------------------
(***************************************************************************)
(* What a rate limit promises, with a memory that never forgets: a packet  *)
(* is served if fewer than Limit - 1 packets, served or not, came in the   *)
(* Interval before it.  So Limit packets never come within an Interval     *)
(* and are all served.  RateLimiter keeps Limit times only.                *)
(***************************************************************************)
EXTENDS Naturals, Sequences, FiniteSets

CONSTANTS
  Limit,    \* packets in an interval that are too many
  Interval  \* milliseconds

VARIABLES
  now,    \* the clock
  times,  \* when each packet of the connection came
  served  \* the packets that were served, as indices of times

windowVars == <<now, times, served>>

(* The packets among ts that came less than an interval before t. *)
Recent(ts, t) == {i \in DOMAIN ts : t - ts[i] < Interval}

WindowInit ==
  /\ now = 0
  /\ times = <<>>
  /\ served = {}

Receive ==
  /\ times' = Append(times, now)
  /\ served' = IF Cardinality(Recent(times, now)) < Limit - 1
               THEN served \cup {Len(times) + 1} ELSE served
  /\ now' = now

(* The client opens another connection, which starts afresh. *)
Reconnect ==
  /\ times' = <<>>
  /\ served' = {}
  /\ now' = now

Wait ==
  /\ now' \in Nat /\ now' >= now
  /\ UNCHANGED <<times, served>>

WindowNext == Receive \/ Reconnect \/ Wait

WindowSpec == WindowInit /\ [][WindowNext]_windowVars

=============================================================================
