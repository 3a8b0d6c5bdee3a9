---------------------------- MODULE RateLimiter ----------------------------
(***************************************************************************)
(* The first block of processClientMessage (chatserver.cpp:641-672): the   *)
(* times of the last packets of a connection are kept in the property      *)
(* "access" of its QWebSocket, and a packet that completes ten packets     *)
(* within a second is discarded before anything else is looked at.         *)
(* Discarded packets stay in the list, so a client that does not slow down *)
(* is never served again; one that opens a new connection starts afresh.   *)
(*                                                                         *)
(* The clock is QDateTime::currentMSecsSinceEpoch, taken to run forward.   *)
(***************************************************************************)
EXTENDS Integers, Sequences, FiniteSets

CONSTANTS
  MAX_REQUEST_COUNT,     \* 10
  MAX_REQUEST_INTERVAL,  \* 1000
  MaxTime,               \* bounds: the clock stops at MaxTime,
  MaxPackets             \* a connection sends MaxPackets

ASSUME LimiterAssumption ==
  /\ MAX_REQUEST_COUNT \in Nat \ {0, 1}
  /\ MAX_REQUEST_INTERVAL \in Nat \ {0}
  /\ MaxTime \in Nat /\ MaxPackets \in Nat

VARIABLES
  now,     \* the clock
  access,  \* the property of the connection
  times,   \* all its packets
  served   \* those that were not discarded

limiterVars == <<now, access, times, served>>

LimiterInit ==
  /\ now = 0
  /\ access = <<>>
  /\ times = <<>>
  /\ served = {}

(* Bug: the list is not cut. *)
BugPushed(t) == Append(access, t)

(* Bug: the list is cut one packet too early and never fills up. *)
BugCut(t) ==
  LET longer == Append(access, t)
  IN  IF Len(longer) >= MAX_REQUEST_COUNT THEN Tail(longer) ELSE longer

(* accessRecord after a packet at t. *)
Pushed(t) ==
  LET longer == Append(access, t)
  IN  IF Len(longer) > MAX_REQUEST_COUNT THEN Tail(longer) ELSE longer

(* The list is full, and its ends are less than the interval apart. *)
TooSoon(record) ==
  /\ Len(record) = MAX_REQUEST_COUNT
  /\ record[Len(record)] - record[1] < MAX_REQUEST_INTERVAL

(* Bug: only packets that are served are remembered. *)
BugPacket ==
  /\ Len(times) < MaxPackets
  /\ access' = IF TooSoon(Pushed(now)) THEN access ELSE Pushed(now)
  /\ times' = Append(times, now)
  /\ served' = IF TooSoon(Pushed(now)) THEN served ELSE served \cup {Len(times) + 1}
  /\ now' = now

Packet ==
  /\ Len(times) < MaxPackets
  /\ access' = Pushed(now)
  /\ times' = Append(times, now)
  /\ served' = IF TooSoon(access') THEN served ELSE served \cup {Len(times) + 1}
  /\ now' = now

NewConnection ==
  /\ access' = <<>>
  /\ times' = <<>>
  /\ served' = {}
  /\ now' = now

Tick ==
  /\ now < MaxTime
  /\ now' = now + 1
  /\ UNCHANGED <<access, times, served>>

LimiterNext == Packet \/ NewConnection \/ Tick

LimiterSpec == LimiterInit /\ [][LimiterNext]_limiterVars

-----------------------------------------------------------------------------
LimiterTypeOK ==
  /\ now \in Nat
  /\ access \in Seq(Nat) /\ Len(access) <= MAX_REQUEST_COUNT
  /\ times \in Seq(Nat)
  /\ served \subseteq DOMAIN times

(* "No more than 10 requests per second" (chatserver.cpp:643-645), and one *)
(* less: fewer than MAX_REQUEST_COUNT packets that are served come in the  *)
(* interval that ends with any of them, wherever that interval begins.     *)
RateKept ==
  \A i \in served :
    Cardinality({j \in served : j <= i /\ times[i] - times[j] < MAX_REQUEST_INTERVAL})
      < MAX_REQUEST_COUNT

(* A list of MAX_REQUEST_COUNT times decides what the whole history of the *)
(* connection would decide: no packet is discarded for packets long past,  *)
(* and none is served because the list forgot or never held a packet.      *)
Window == INSTANCE SlidingWindow WITH
  Limit <- MAX_REQUEST_COUNT, Interval <- MAX_REQUEST_INTERVAL

ImplementsWindow == Window!WindowSpec

=============================================================================
