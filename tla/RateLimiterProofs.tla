------------------------- MODULE RateLimiterProofs -------------------------
(***************************************************************************)
(* Proofs about RateLimiter, for any number of packets, any interval and   *)
(* any bounds of clock and connection.                                     *)
(*                                                                         *)
(* The inductive invariant says what access holds: the end of the times of *)
(* all packets, in order.  So its first and last elements decide whether   *)
(* MAX_REQUEST_COUNT packets came within the interval.                     *)
(***************************************************************************)
EXTENDS RateLimiter, FiniteSetTheorems, TLAPS

Full == MAX_REQUEST_COUNT

(* Times come in order, and none is still to come. *)
TimesOrdered ==
  /\ now \in Nat /\ times \in Seq(Nat)
  /\ \A i \in 1 .. Len(times) : times[i] <= now
  /\ \A i, j \in 1 .. Len(times) : i <= j => times[i] <= times[j]

(* record is the end of ts. *)
EndOf(record, ts) ==
  /\ record \in Seq(Nat)
  /\ Len(record) = IF Len(ts) < Full THEN Len(ts) ELSE Full
  /\ \A k \in 1 .. Len(record) : record[k] = ts[Len(ts) - Len(record) + k]

(* The packet at index i was served rightly. *)
Spaced(i) == i >= Full => times[i] - times[i - Full + 1] >= MAX_REQUEST_INTERVAL

LimiterInv ==
  /\ TimesOrdered
  /\ EndOf(access, times)
  /\ served \subseteq 1 .. Len(times)
  /\ \A i \in served : Spaced(i)

LEMMA ConstantsNat == Full \in Nat /\ Full >= 2 /\ MAX_REQUEST_INTERVAL \in Nat
BY LimiterAssumption DEF LimiterAssumption, Full

-----------------------------------------------------------------------------
(* A packet.                                                               *)

LEMMA TimesAppended ==
  ASSUME TimesOrdered
  PROVE  LET ts == Append(times, now)
         IN  /\ ts \in Seq(Nat) /\ Len(ts) = Len(times) + 1 /\ Len(times) \in Nat
             /\ ts[Len(times) + 1] = now
             /\ \A i \in 1 .. Len(times) : ts[i] = times[i]
             /\ \A i \in 1 .. Len(ts) : ts[i] <= now
             /\ \A i, j \in 1 .. Len(ts) : i <= j => ts[i] <= ts[j]
<1> DEFINE ts == Append(times, now)
<1>1. ts \in Seq(Nat) /\ Len(ts) = Len(times) + 1 /\ Len(times) \in Nat
  BY DEF TimesOrdered
<1>2. ts[Len(times) + 1] = now /\ \A i \in 1 .. Len(times) : ts[i] = times[i]
  BY DEF TimesOrdered
<1> HIDE DEF ts
<1>3. \A i \in 1 .. Len(ts) : ts[i] <= now
  BY <1>1, <1>2 DEF TimesOrdered
<1>4. ASSUME NEW i \in 1 .. Len(ts), NEW j \in 1 .. Len(ts), i <= j
      PROVE  ts[i] <= ts[j]
  <2>1. CASE j = Len(times) + 1
    BY <1>2, <1>3, <1>4, <2>1
  <2>2. CASE j # Len(times) + 1
    <3>1. i \in 1 .. Len(times) /\ j \in 1 .. Len(times)
      BY <1>1, <1>4, <2>2
    <3> QED
      BY <1>2, <1>4, <3>1 DEF TimesOrdered
  <2> QED
    BY <2>1, <2>2
<1> QED
  BY <1>1, <1>2, <1>3, <1>4 DEF ts

(* The list is cut where it should be. *)
LEMMA PushedIsEnd ==
  ASSUME TimesOrdered, EndOf(access, times)
  PROVE  EndOf(Pushed(now), Append(times, now))
<1> DEFINE ts == Append(times, now)
           longer == Append(access, now)
           n == Len(times)
           a == Len(access)
<1>1. ts \in Seq(Nat) /\ Len(ts) = n + 1 /\ n \in Nat /\ ts[n + 1] = now
      /\ \A i \in 1 .. n : ts[i] = times[i]
  BY TimesAppended
<1>2. a \in Nat /\ longer \in Seq(Nat) /\ Len(longer) = a + 1 /\ longer[a + 1] = now
      /\ \A k \in 1 .. a : longer[k] = access[k]
  BY DEF EndOf, TimesOrdered
<1>3. a = (IF n < Full THEN n ELSE Full) /\ \A k \in 1 .. a : access[k] = times[n - a + k]
  BY DEF EndOf
<1> HIDE DEF ts, longer, n, a
<1>4. \A k \in 1 .. a + 1 : longer[k] = ts[n - a + k]
  <2> SUFFICES ASSUME NEW k \in 1 .. a + 1 PROVE longer[k] = ts[n - a + k]
    OBVIOUS
  <2>1. CASE k = a + 1
    BY <1>1, <1>2, <1>3, <2>1, ConstantsNat
  <2>2. CASE k # a + 1
    <3>1. k \in 1 .. a /\ n - a + k \in 1 .. n
      BY <1>1, <1>2, <1>3, <2>2, ConstantsNat
    <3> QED
      BY <1>1, <1>2, <1>3, <3>1
  <2> QED
    BY <2>1, <2>2
<1>5. CASE a + 1 > Full
  <2>1. Pushed(now) = Tail(longer) /\ a = Full /\ n >= Full
    BY <1>1, <1>2, <1>3, <1>5, ConstantsNat DEF Pushed, longer, Full
  <2>2. Tail(longer) \in Seq(Nat) /\ Len(Tail(longer)) = a
        /\ \A k \in 1 .. a : Tail(longer)[k] = longer[k + 1]
    BY <1>2
  <2>3. \A k \in 1 .. a : Tail(longer)[k] = ts[n + 1 - a + k]
    BY <1>1, <1>2, <1>4, <2>2
  <2>4. Pushed(now) \in Seq(Nat) /\ Len(Pushed(now)) = a
        /\ \A k \in 1 .. a : Pushed(now)[k] = ts[Len(ts) - a + k]
    <3>1. Len(ts) - a = n + 1 - a
      BY <1>1, <1>2
    <3> QED
      BY <2>1, <2>2, <2>3, <3>1, Zenon
  <2>5. a = IF Len(ts) < Full THEN Len(ts) ELSE Full
    BY <1>1, <2>1, ConstantsNat
  <2> QED
    BY <2>4, <2>5, Zenon DEF EndOf, ts
<1>6. CASE ~(a + 1 > Full)
  <2>1. Pushed(now) = longer /\ a = n
    BY <1>1, <1>2, <1>3, <1>6, ConstantsNat DEF Pushed, longer, Full
  <2>2. Pushed(now) \in Seq(Nat) /\ Len(Pushed(now)) = a + 1
        /\ \A k \in 1 .. a + 1 : Pushed(now)[k] = ts[Len(ts) - (a + 1) + k]
    BY <1>1, <1>2, <1>4, <2>1
  <2>3. a + 1 = IF Len(ts) < Full THEN Len(ts) ELSE Full
    BY <1>1, <1>6, <2>1, ConstantsNat
  <2> QED
    BY <2>2, <2>3, Zenon DEF EndOf, ts
<1> QED
  BY <1>5, <1>6

(* When a packet is too soon, in terms of all times. *)
LEMMA TooSoonMeans ==
  ASSUME TimesOrdered, EndOf(access, times)
  PROVE  TooSoon(Pushed(now)) <=>
           /\ Len(times) >= Full - 1
           /\ now - times[Len(times) + 2 - Full] < MAX_REQUEST_INTERVAL
<1> DEFINE ts == Append(times, now)
           n == Len(times)
           record == Pushed(now)
<1>1. ts \in Seq(Nat) /\ Len(ts) = n + 1 /\ n \in Nat /\ ts[n + 1] = now
      /\ \A i \in 1 .. n : ts[i] = times[i]
  BY TimesAppended
<1>2. EndOf(record, ts)
  BY PushedIsEnd
<1> HIDE DEF ts, n, record
<1>3. Len(record) = Full <=> n >= Full - 1
  BY <1>1, <1>2, ConstantsNat DEF EndOf
<1>4. CASE n >= Full - 1
  <2>1. Len(record) = Full /\ 1 \in 1 .. Full /\ Full \in 1 .. Full
    BY <1>3, <1>4, ConstantsNat
  <2>2. record[1] = ts[n + 1 - Full + 1] /\ record[Full] = ts[n + 1 - Full + Full]
    <3>1. \A k \in 1 .. Full : record[k] = ts[n + 1 - Full + k]
      <4>1. \A k \in 1 .. Len(record) : record[k] = ts[Len(ts) - Len(record) + k]
        BY <1>2 DEF EndOf
      <4> QED
        BY <1>1, <2>1, <4>1
    <3> QED
      BY <2>1, <3>1
  <2>3. n + 1 - Full + 1 = n + 2 - Full /\ n + 1 - Full + Full = n + 1
        /\ n + 2 - Full \in 1 .. n
    BY <1>1, <1>4, ConstantsNat
  <2>4. record[1] = times[n + 2 - Full] /\ record[Full] = now
    BY <1>1, <2>2, <2>3
  <2> QED
    BY <1>3, <1>4, <2>1, <2>4 DEF TooSoon, Full, n, record
<1>5. CASE ~(n >= Full - 1)
  BY <1>3, <1>5 DEF TooSoon, Full, n, record
<1> QED
  BY <1>4, <1>5

LEMMA PacketInv ==
  ASSUME LimiterInv, Packet
  PROVE  LimiterInv'
<1> DEFINE ts == Append(times, now)
           n == Len(times)
<1>1. TimesOrdered /\ EndOf(access, times)
  BY DEF LimiterInv
<1>2. /\ times' = ts /\ now' = now /\ access' = Pushed(now)
      /\ served' = IF TooSoon(Pushed(now)) THEN served ELSE served \cup {n + 1}
  BY DEF Packet
<1>3. /\ ts \in Seq(Nat) /\ Len(ts) = n + 1 /\ n \in Nat /\ ts[n + 1] = now
      /\ \A i \in 1 .. n : ts[i] = times[i]
      /\ \A i \in 1 .. Len(ts) : ts[i] <= now
      /\ \A i, j \in 1 .. Len(ts) : i <= j => ts[i] <= ts[j]
  BY <1>1, TimesAppended
<1>4. EndOf(access', times')
  BY <1>1, <1>2, PushedIsEnd
<1>5. TooSoon(Pushed(now)) <=>
        n >= Full - 1 /\ now - times[n + 2 - Full] < MAX_REQUEST_INTERVAL
  BY <1>1, TooSoonMeans
<1> HIDE DEF ts, n
<1>6. TimesOrdered'
  BY <1>1, <1>2, <1>3 DEF TimesOrdered
<1>7. served \subseteq 1 .. n /\ \A i \in served : Spaced(i)
  BY DEF LimiterInv, n
<1>8. served' \subseteq 1 .. n + 1
  BY <1>2, <1>3, <1>7
<1>9. ASSUME NEW i \in served', i >= Full
      PROVE  ts[i] - ts[i - Full + 1] >= MAX_REQUEST_INTERVAL
  <2>1. CASE i \in served
    <3>1. i \in 1 .. n /\ i - Full + 1 \in 1 .. n
      BY <1>3, <1>7, <1>9, <2>1, ConstantsNat
    <3> QED
      BY <1>3, <1>7, <1>9, <2>1, <3>1 DEF Spaced
  <2>2. CASE i \notin served
    <3>1. i = n + 1 /\ ~TooSoon(Pushed(now))
      BY <1>2, <1>9, <2>2
    <3>2. n >= Full - 1 /\ n + 2 - Full \in 1 .. n /\ i - Full + 1 = n + 2 - Full
      BY <1>3, <1>9, <3>1, ConstantsNat
    <3>3. ~(now - times[n + 2 - Full] < MAX_REQUEST_INTERVAL)
      BY <1>5, <3>1, <3>2
    <3>4. times[n + 2 - Full] \in Nat /\ now \in Nat
      BY <1>1, <3>2 DEF TimesOrdered, n
    <3> QED
      BY <1>3, <3>1, <3>2, <3>3, <3>4, ConstantsNat
  <2> QED
    BY <2>1, <2>2
<1> QED
  BY <1>2, <1>3, <1>4, <1>6, <1>8, <1>9 DEF LimiterInv, Spaced

(* The list, the times and what was served agree in every reachable state  *)
(* (the first block of processClientMessage).                              *)
THEOREM LimiterInvCorrect == LimiterSpec => []LimiterInv
<1>1. LimiterInit => LimiterInv
  BY ConstantsNat DEF LimiterInit, LimiterInv, TimesOrdered, EndOf
<1>2. ASSUME LimiterInv, NewConnection PROVE LimiterInv'
  BY <1>2, ConstantsNat DEF NewConnection, LimiterInv, TimesOrdered, EndOf
<1>3. ASSUME LimiterInv, Tick PROVE LimiterInv'
  <2>1. TimesOrdered'
    BY <1>3 DEF Tick, LimiterInv, TimesOrdered
  <2> QED
    BY <1>3, <2>1 DEF Tick, LimiterInv, Spaced
<1>4. ASSUME LimiterInv, UNCHANGED limiterVars PROVE LimiterInv'
  BY <1>4 DEF limiterVars, LimiterInv, TimesOrdered, Spaced
<1>5. LimiterInv /\ [LimiterNext]_limiterVars => LimiterInv'
  BY <1>2, <1>3, <1>4, PacketInv DEF LimiterNext
<1> QED
  BY <1>1, <1>5, PTL DEF LimiterSpec

(* The list never outgrows MAX_REQUEST_COUNT.                              *)
THEOREM LimiterTypeCorrect == LimiterSpec => []LimiterTypeOK
<1>1. LimiterInv => LimiterTypeOK
  <2> SUFFICES ASSUME LimiterInv PROVE LimiterTypeOK
    OBVIOUS
  <2>1. times \in Seq(Nat) /\ DOMAIN times = 1 .. Len(times) /\ Len(times) \in Nat
    BY DEF LimiterInv, TimesOrdered
  <2>2. Len(access) <= MAX_REQUEST_COUNT
    BY <2>1, ConstantsNat DEF LimiterInv, EndOf, Full
  <2> QED
    BY <2>1, <2>2 DEF LimiterInv, LimiterTypeOK, TimesOrdered, EndOf
<1> QED
  BY <1>1, LimiterInvCorrect, PTL

-----------------------------------------------------------------------------
(* Counting.                                                               *)

LEMMA IntervalSubset ==
  ASSUME NEW a \in Int, NEW b \in Int, NEW S \in SUBSET (a .. b), a <= b + 1
  PROVE  IsFiniteSet(S) /\ Cardinality(S) \in Nat /\ Cardinality(S) <= b - a + 1
<1>1. IsFiniteSet(a .. b) /\ Cardinality(a .. b) = IF a > b THEN 0 ELSE b - a + 1
  BY FS_Interval
<1>2. IsFiniteSet(S) /\ Cardinality(S) <= Cardinality(a .. b)
  BY <1>1, FS_Subset
<1>3. Cardinality(S) \in Nat
  BY <1>2, FS_CardinalityType
<1> QED
  BY <1>1, <1>2, <1>3

(* Fewer than MAX_REQUEST_COUNT packets are served in any interval, for    *)
(* every count and length of it.                                           *)
THEOREM RateCorrect == LimiterSpec => []RateKept
<1>1. LimiterInv => RateKept
  <2> SUFFICES ASSUME LimiterInv, NEW i \in served
               PROVE  Cardinality({j \in served : j <= i /\ times[i] - times[j] < MAX_REQUEST_INTERVAL})
                        < Full
    BY DEF RateKept, Full
  <2> DEFINE near == {j \in served : j <= i /\ times[i] - times[j] < MAX_REQUEST_INTERVAL}
  <2>1. /\ served \subseteq 1 .. Len(times) /\ Len(times) \in Nat
        /\ \A k \in 1 .. Len(times) : times[k] \in Nat
        /\ \A k, j \in 1 .. Len(times) : k <= j => times[k] <= times[j]
    BY DEF LimiterInv, TimesOrdered
  <2>2. CASE i < Full
    <3>1. i \in Nat /\ \A j \in near : j \in 1 .. i
      BY <2>1
    <3> HIDE DEF near
    <3>2. Cardinality(near) \in Nat /\ Cardinality(near) <= i - 1 + 1
      <4>1. near \in SUBSET (1 .. i) /\ i \in Int /\ 1 \in Int /\ 1 <= i + 1
        BY <3>1
      <4> QED
        BY <4>1, IntervalSubset
    <3>3. Cardinality(near) < Full
      BY <2>2, <3>1, <3>2, ConstantsNat
    <3> QED
      BY <3>3 DEF near
  <2>3. CASE i >= Full
    <3>1. times[i] - times[i - Full + 1] >= MAX_REQUEST_INTERVAL
          /\ i \in 1 .. Len(times) /\ i - Full + 1 \in 1 .. Len(times)
      BY <2>1, <2>3, ConstantsNat DEF LimiterInv, Spaced
    <3>2. ASSUME NEW j \in near PROVE j \in i - Full + 2 .. i
      <4>1. j \in 1 .. Len(times) /\ j <= i /\ times[i] - times[j] < MAX_REQUEST_INTERVAL
        BY <2>1
      <4>2. ~(j <= i - Full + 1)
        <5> SUFFICES ASSUME j <= i - Full + 1 PROVE FALSE
          OBVIOUS
        <5>1. times[j] <= times[i - Full + 1]
          BY <2>1, <3>1, <4>1
        <5> HIDE DEF near
        <5> QED
          BY <2>1, <3>1, <4>1, <5>1, ConstantsNat
      <4> QED
        BY <3>1, <4>1, <4>2, ConstantsNat
    <3> HIDE DEF near
    <3>3. near \in SUBSET (i - Full + 2 .. i) /\ i - Full + 2 \in Int /\ i \in Int
          /\ i - Full + 2 <= i + 1
      BY <3>1, <3>2, ConstantsNat
    <3>4. Cardinality(near) \in Nat /\ Cardinality(near) <= i - (i - Full + 2) + 1
      BY <3>3, IntervalSubset
    <3>5. Cardinality(near) < Full
      BY <3>1, <3>4, ConstantsNat
    <3> QED
      BY <3>5 DEF near
  <2> QED
    BY <2>1, <2>2, <2>3, ConstantsNat
<1> QED
  BY <1>1, LimiterInvCorrect, PTL

-----------------------------------------------------------------------------
(* The operator of the same name that SlidingWindow takes from FiniteSets. *)
LEMMA SameCardinality ==
  ASSUME NEW S
  PROVE  Window!Cardinality(S) = Cardinality(S)
BY DEF Window!Cardinality, Cardinality

(* The list decides what the whole history would decide. *)
LEMMA SameDecision ==
  ASSUME LimiterInv
  PROVE  TooSoon(Pushed(now)) <=> ~(Cardinality(Window!Recent(times, now)) < Full - 1)
<1> DEFINE n == Len(times)
           recent == {i \in 1 .. n : now - times[i] < MAX_REQUEST_INTERVAL}
<1>1. Window!Recent(times, now) = recent
  BY DEF Window!Recent, LimiterInv, TimesOrdered
<1>2. /\ n \in Nat /\ now \in Nat
      /\ \A k \in 1 .. n : times[k] \in Nat
      /\ \A k, j \in 1 .. n : k <= j => times[k] <= times[j]
  BY DEF LimiterInv, TimesOrdered
<1>3. TooSoon(Pushed(now)) <=>
        n >= Full - 1 /\ now - times[n + 2 - Full] < MAX_REQUEST_INTERVAL
  BY TooSoonMeans DEF LimiterInv
<1> HIDE DEF n
<1>4. CASE n < Full - 1
  <2>1. recent \in SUBSET (1 .. n) /\ 1 <= n + 1
    BY <1>2
  <2> HIDE DEF recent
  <2>2. Cardinality(recent) \in Nat /\ Cardinality(recent) <= n - 1 + 1
    BY <1>2, <2>1, IntervalSubset
  <2>3. Cardinality(recent) < Full - 1
    BY <1>2, <1>4, <2>2, ConstantsNat
  <2> QED
    BY <1>1, <1>2, <1>3, <1>4, <2>3, ConstantsNat
<1>5. CASE n >= Full - 1 /\ now - times[n + 2 - Full] < MAX_REQUEST_INTERVAL
  <2>1. n + 2 - Full \in 1 .. n
    BY <1>2, <1>5, ConstantsNat
  <2>2. ASSUME NEW j \in n + 2 - Full .. n PROVE j \in recent
    <3>1. j \in 1 .. n /\ times[n + 2 - Full] <= times[j]
      BY <1>2, <2>1, <2>2
    <3> QED
      BY <1>2, <1>5, <2>1, <3>1, ConstantsNat
  <2>3. recent \in SUBSET (1 .. n) /\ 1 <= n + 1
    BY <1>2
  <2> HIDE DEF recent
  <2>4. IsFiniteSet(recent) /\ Cardinality(recent) \in Nat
    BY <1>2, <2>3, IntervalSubset
  <2>5. Cardinality(n + 2 - Full .. n) <= Cardinality(recent)
    BY <2>2, <2>4, FS_Subset
  <2>6. Cardinality(n + 2 - Full .. n) = Full - 1
    <3>1. n + 2 - Full \in Int /\ n \in Int /\ ~(n + 2 - Full > n)
          /\ n - (n + 2 - Full) + 1 = Full - 1
      BY <1>2, ConstantsNat
    <3> QED
      BY <3>1, FS_Interval
  <2> QED
    BY <1>1, <1>3, <1>5, <2>4, <2>5, <2>6, ConstantsNat
<1>6. CASE n >= Full - 1 /\ ~(now - times[n + 2 - Full] < MAX_REQUEST_INTERVAL)
  <2>1. n + 2 - Full \in 1 .. n
    BY <1>2, <1>6, ConstantsNat
  <2>2. ASSUME NEW j \in recent PROVE j \in n + 3 - Full .. n
    <3>1. j \in 1 .. n /\ now - times[j] < MAX_REQUEST_INTERVAL
      OBVIOUS
    <3> HIDE DEF recent
    <3>2. ~(j <= n + 2 - Full)
      <4> SUFFICES ASSUME j <= n + 2 - Full PROVE FALSE
        OBVIOUS
      <4>1. times[j] <= times[n + 2 - Full]
        BY <1>2, <2>1, <3>1
      <4> QED
        BY <1>2, <1>6, <2>1, <3>1, <4>1, ConstantsNat
    <3> QED
      BY <1>2, <3>1, <3>2, ConstantsNat
  <2> HIDE DEF recent
  <2>3. recent \in SUBSET (n + 3 - Full .. n) /\ n + 3 - Full \in Int /\ n + 3 - Full <= n + 1
    BY <1>2, <2>2, ConstantsNat
  <2>4. Cardinality(recent) \in Nat /\ Cardinality(recent) <= n - (n + 3 - Full) + 1
    BY <1>2, <2>3, IntervalSubset
  <2>5. Cardinality(recent) < Full - 1
    BY <1>2, <2>4, ConstantsNat
  <2> QED
    BY <1>1, <1>3, <1>6, <2>5
<1> QED
  BY <1>2, <1>4, <1>5, <1>6, ConstantsNat

(* RateLimiter implements SlidingWindow (the refinement of the run         *)
(* rate_limit): a list of MAX_REQUEST_COUNT times is as good as a memory   *)
(* that never forgets.                                                     *)
THEOREM WindowImplemented == LimiterSpec => ImplementsWindow
<1>1. LimiterInit => Window!WindowInit
  BY DEF LimiterInit, Window!WindowInit
<1>2. ASSUME LimiterInv, [LimiterNext]_limiterVars
      PROVE  [Window!WindowNext]_(Window!windowVars)
  <2>1. ASSUME Packet PROVE Window!Receive
    <3>1. /\ times' = Append(times, now) /\ now' = now
          /\ served' = IF TooSoon(Pushed(now)) THEN served ELSE served \cup {Len(times) + 1}
      BY <2>1 DEF Packet
    <3>2. TooSoon(Pushed(now)) <=> ~(Window!Cardinality(Window!Recent(times, now)) < MAX_REQUEST_COUNT - 1)
      BY <1>2, SameDecision, SameCardinality DEF Full
    <3>3. served' = IF Window!Cardinality(Window!Recent(times, now)) < MAX_REQUEST_COUNT - 1
                    THEN served \cup {Len(times) + 1} ELSE served
      BY <3>1, <3>2, Zenon
    <3> QED
      BY <3>1, <3>3 DEF Window!Receive
  <2>2. ASSUME NewConnection PROVE Window!Reconnect
    BY <2>2 DEF NewConnection, Window!Reconnect
  <2>3. ASSUME Tick PROVE Window!Wait
    BY <1>2, <2>3 DEF Tick, Window!Wait, LimiterInv, TimesOrdered
  <2>4. UNCHANGED limiterVars => UNCHANGED Window!windowVars
    BY DEF limiterVars, Window!windowVars
  <2> QED
    BY <1>2, <2>1, <2>2, <2>3, <2>4 DEF LimiterNext, Window!WindowNext
<1> QED
  BY LimiterInvCorrect, <1>1, <1>2, PTL DEF LimiterSpec, ImplementsWindow, Window!WindowSpec

=============================================================================
