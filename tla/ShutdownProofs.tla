--------------------------- MODULE ShutdownProofs ---------------------------
(***************************************************************************)
(* Safety of Shutdown, for any overlays and any number of alerts, whatever *)
(* the two event loops are doing.                                          *)
(*                                                                         *)
(* stop() never runs first because main posts it behind start: the         *)
(* inductive invariant says that start has run or is in the queue, before  *)
(* every stop there.  That sendMessage sends no alert that was not asked   *)
(* for while the signal is connected counts those that wait in the         *)
(* overlay's queue.  The joins cannot hang because main joins a thread     *)
(* only after it told its event loop to quit.                              *)
(***************************************************************************)
EXTENDS Shutdown, FiniteSetTheorems, TLAPS

Events == {"start", "stop", "alert"}
Places == {"test", "pass", "wait", "woken", "done"}
Lines == {"start", "startOverlay", "connect", "exec", "stopChat", "stopOverlay", "quitOverlay",
          "joinOverlay", "quitChat", "joinChat", "ended"}

(* The places of alerts in a queue. *)
AlertsIn(q) == {i \in 1 .. Len(q) : q[i] = "alert"}

LoopsOK ==
  /\ queue \in [Threads -> Seq(Events)]
  /\ at \in [Threads -> Places]
  /\ todo \in [Threads -> Nat]
  /\ \A t \in Threads : todo[t] <= Len(queue[t])

CallsOK ==
  /\ mainAt \in Lines
  /\ linked \in BOOLEAN
  /\ linked <=> mainAt \notin Starting
  /\ exit \subseteq Threads /\ started \subseteq Threads /\ stopped \subseteq Threads
  /\ clients \subseteq Overlays /\ deleted \subseteq Overlays
  /\ misused \in BOOLEAN

AlertsOK ==
  /\ sent \in Nat /\ alerts \in 0 .. MaxAlerts
  /\ sent + Cardinality(AlertsIn(queue["overlay"])) = alerts

(* start was posted to t. *)
StartSeen(t) == t \in started \/ \E i \in 1 .. Len(queue[t]) : queue[t][i] = "start"

(* No stop of queue q has an event to wait for but a start before it. *)
Behind(q) == \A i \in 1 .. Len(q) : q[i] = "stop" => \E j \in 1 .. i - 1 : q[j] = "start"

InOrder ==
  /\ mainAt # "start" => StartSeen("chat")
  /\ mainAt \notin {"start", "startOverlay"} => StartSeen("overlay")
  /\ \A t \in Threads : t \in started \/ Behind(queue[t])
  /\ stopped \subseteq started

(* A thread that is joined was told to quit, and alerts are posted to the  *)
(* overlay only.                                                           *)
JoinsOK ==
  /\ mainAt = "joinOverlay" => "overlay" \in exit
  /\ mainAt = "joinChat" => "chat" \in exit
  /\ AlertsIn(queue["chat"]) = {}

ShutdownInv == LoopsOK /\ CallsOK /\ AlertsOK /\ InOrder /\ JoinsOK

-----------------------------------------------------------------------------
(* Queues.                                                                 *)

LEMMA AlertsFinite ==
  ASSUME NEW q \in Seq(Events)
  PROVE  IsFiniteSet(AlertsIn(q)) /\ Cardinality(AlertsIn(q)) \in Nat
<1>1. Len(q) \in Int /\ AlertsIn(q) \in SUBSET (1 .. Len(q))
  BY DEF AlertsIn
<1>2. IsFiniteSet(1 .. Len(q))
  BY <1>1, FS_Interval
<1>3. IsFiniteSet(AlertsIn(q))
  BY <1>1, <1>2, FS_Subset
<1> QED
  BY <1>3, FS_CardinalityType

LEMMA Appended ==
  ASSUME NEW q \in Seq(Events), NEW e \in Events
  PROVE  /\ Append(q, e) \in Seq(Events) /\ Len(Append(q, e)) = Len(q) + 1 /\ Len(q) \in Nat
         /\ Append(q, e)[Len(q) + 1] = e
         /\ \A i \in 1 .. Len(q) : Append(q, e)[i] = q[i]
         /\ AlertsIn(Append(q, e)) = AlertsIn(q) \cup (IF e = "alert" THEN {Len(q) + 1} ELSE {})
<1>1. /\ Append(q, e) \in Seq(Events) /\ Len(Append(q, e)) = Len(q) + 1 /\ Len(q) \in Nat
      /\ Append(q, e)[Len(q) + 1] = e
      /\ \A i \in 1 .. Len(q) : Append(q, e)[i] = q[i]
  OBVIOUS
<1> DEFINE p == Append(q, e)
<1> HIDE DEF p
<1>2. ASSUME NEW i \in 1 .. Len(q) + 1
      PROVE  p[i] = "alert" <=>
               (i \in 1 .. Len(q) /\ q[i] = "alert") \/ (i = Len(q) + 1 /\ e = "alert")
  <2>1. CASE i = Len(q) + 1
    BY <1>1, <2>1 DEF p
  <2>2. CASE i # Len(q) + 1
    <3>1. i \in 1 .. Len(q)
      BY <1>1, <1>2, <2>2
    <3> QED
      BY <1>1, <2>2, <3>1 DEF p
  <2> QED
    BY <2>1, <2>2
<1>3. Len(p) = Len(q) + 1 /\ 1 .. Len(q) \subseteq 1 .. Len(q) + 1 /\ Len(q) + 1 \in 1 .. Len(q) + 1
  BY <1>1 DEF p
<1>4. AlertsIn(p) = AlertsIn(q) \cup (IF e = "alert" THEN {Len(q) + 1} ELSE {})
  BY <1>2, <1>3 DEF AlertsIn
<1> QED
  BY <1>1, <1>4 DEF p

LEMMA Taken ==
  ASSUME NEW q \in Seq(Events), q # <<>>
  PROVE  /\ Tail(q) \in Seq(Events) /\ Len(Tail(q)) = Len(q) - 1 /\ Len(q) \in Nat \ {0}
         /\ \A i \in 1 .. Len(q) - 1 : Tail(q)[i] = q[i + 1]
         /\ Head(q) = q[1] /\ Head(q) \in Events
OBVIOUS

(* One alert fewer waits if it is one that was taken, and else as many. *)
LEMMA TakenAlerts ==
  ASSUME NEW q \in Seq(Events), q # <<>>
  PROVE  Cardinality(AlertsIn(Tail(q))) + (IF Head(q) = "alert" THEN 1 ELSE 0)
           = Cardinality(AlertsIn(q))
<1> DEFINE S == AlertsIn(Tail(q))
           T == AlertsIn(q) \ {1}
           f == [i \in S |-> i + 1]
           g == [i \in T |-> i - 1]
<1>1. /\ Tail(q) \in Seq(Events) /\ Len(Tail(q)) = Len(q) - 1 /\ Len(q) \in Nat \ {0}
      /\ \A i \in 1 .. Len(q) - 1 : Tail(q)[i] = q[i + 1]
      /\ Head(q) = q[1]
  BY Taken
<1>2. f \in Injection(S, T)
  <2>1. ASSUME NEW i \in S PROVE i + 1 \in T /\ i \in Nat
    BY <1>1, <2>1 DEF AlertsIn
  <2> HIDE DEF S, T
  <2> QED
    BY <2>1 DEF Injection, IsInjective
<1>8. g \in Injection(T, S)
  <2>1. ASSUME NEW i \in T PROVE i - 1 \in S /\ i \in Nat
    <3>1. i \in 2 .. Len(q) /\ q[i] = "alert" /\ i - 1 \in 1 .. Len(q) - 1 /\ (i - 1) + 1 = i
      BY <1>1, <2>1 DEF AlertsIn
    <3>2. Tail(q)[i - 1] = "alert" /\ i - 1 \in 1 .. Len(Tail(q))
      BY <1>1, <3>1
    <3> QED
      BY <3>1, <3>2 DEF AlertsIn
  <2> HIDE DEF S, T
  <2> QED
    BY <2>1 DEF Injection, IsInjective
<1>3. IsFiniteSet(AlertsIn(q)) /\ Cardinality(AlertsIn(q)) \in Nat
  BY AlertsFinite
<1>4. IsFiniteSet(T)
      /\ Cardinality(T) = IF 1 \in AlertsIn(q) THEN Cardinality(AlertsIn(q)) - 1
                          ELSE Cardinality(AlertsIn(q))
  BY <1>3, FS_RemoveElement
<1> HIDE DEF f, g, S, T
<1>5. IsFiniteSet(S) /\ Cardinality(S) <= Cardinality(T)
  BY <1>2, <1>4, FS_Injection
<1>9. Cardinality(T) <= Cardinality(S)
  BY <1>5, <1>8, FS_Injection
<1>6. Cardinality(S) \in Nat
  BY <1>5, FS_CardinalityType
<1>7. 1 \in AlertsIn(q) <=> Head(q) = "alert"
  BY <1>1 DEF AlertsIn
<1> QED
  BY <1>3, <1>4, <1>5, <1>6, <1>7, <1>9 DEF S

(* An event that is posted: a stop only where start was seen. *)
LEMMA PostedInv ==
  ASSUME LoopsOK, NEW t \in Threads, NEW e \in Events, queue' = Posted(t, e),
         UNCHANGED started
  PROVE  /\ queue' \in [Threads -> Seq(Events)]
         /\ \A r \in Threads : Len(queue[r]) <= Len(queue'[r])
         /\ \A r \in Threads : StartSeen(r) => StartSeen(r)'
         /\ e = "start" => StartSeen(t)'
         /\ \A r \in Threads : Behind(queue[r]) /\ (r = t /\ e = "stop" => \E i \in 1 .. Len(queue[t]) : queue[t][i] = "start")
              => Behind(queue'[r])
         /\ \A r \in Threads : r # t \/ e # "alert" => AlertsIn(queue'[r]) = AlertsIn(queue[r])
<1> DEFINE q == queue[t]
           p == Append(q, e)
<1>1. queue' = [queue EXCEPT ![t] = p] /\ q \in Seq(Events)
  BY DEF Posted, LoopsOK
<1>2. /\ p \in Seq(Events) /\ Len(p) = Len(q) + 1 /\ Len(q) \in Nat
      /\ p[Len(q) + 1] = e /\ \A i \in 1 .. Len(q) : p[i] = q[i]
      /\ AlertsIn(p) = AlertsIn(q) \cup (IF e = "alert" THEN {Len(q) + 1} ELSE {})
  BY <1>1, Appended
<1>3. queue'[t] = p /\ \A r \in Threads \ {t} : queue'[r] = queue[r]
  BY <1>1 DEF LoopsOK
<1> HIDE DEF p
<1>4. queue' \in [Threads -> Seq(Events)]
  BY <1>1, <1>2 DEF LoopsOK
<1>5. \A r \in Threads : Len(queue[r]) \in Nat
  BY DEF LoopsOK
<1>6. \A r \in Threads : Len(queue[r]) <= Len(queue'[r])
  BY <1>2, <1>3, <1>5
<1>7. (\E i \in 1 .. Len(q) : q[i] = "start") => \E i \in 1 .. Len(p) : p[i] = "start"
  BY <1>2
<1>8. \A r \in Threads : StartSeen(r) => StartSeen(r)'
  BY <1>3, <1>7 DEF StartSeen
<1>9. e = "start" => StartSeen(t)'
  BY <1>2, <1>3 DEF StartSeen
<1>10. Behind(q) /\ (e = "stop" => \E i \in 1 .. Len(q) : q[i] = "start") => Behind(p)
  <2> SUFFICES ASSUME Behind(q), e = "stop" => \E i \in 1 .. Len(q) : q[i] = "start",
                      NEW i \in 1 .. Len(p), p[i] = "stop"
               PROVE  \E j \in 1 .. i - 1 : p[j] = "start"
    BY DEF Behind
  <2>1. CASE i = Len(q) + 1
    <3>1. PICK k \in 1 .. Len(q) : q[k] = "start"
      BY <1>2, <2>1
    <3> QED
      BY <1>2, <2>1, <3>1
  <2>2. CASE i # Len(q) + 1
    <3>1. i \in 1 .. Len(q) /\ q[i] = "stop"
      BY <1>2, <2>2
    <3>2. PICK j \in 1 .. i - 1 : q[j] = "start"
      BY <3>1 DEF Behind
    <3>3. j \in 1 .. Len(q)
      BY <1>2, <3>1
    <3> QED
      BY <1>2, <3>2, <3>3
  <2> QED
    BY <2>1, <2>2
<1>11. \A r \in Threads : r # t \/ e # "alert" => AlertsIn(queue'[r]) = AlertsIn(queue[r])
  BY <1>2, <1>3
<1> QED
  BY <1>3, <1>4, <1>6, <1>8, <1>9, <1>10, <1>11

-----------------------------------------------------------------------------
(* Steps of main.                                                          *)

(* A line of main that posts nothing, or the start of a thread. *)
LEMMA MainInv ==
  ASSUME ShutdownInv, Starts \/ Interrupt \/ Exits
  PROVE  ShutdownInv'
<1> USE DEF ShutdownInv, Line, loops, overlay
<1>1. ASSUME UNCHANGED <<loops, started, stopped, overlay, alerts>>,
             mainAt' \in Lines, exit' \subseteq Threads,
             linked' \in BOOLEAN, linked' <=> mainAt' \notin Starting,
             queue' \in [Threads -> Seq(Events)],
             \A r \in Threads : Len(queue[r]) <= Len(queue'[r]),
             \A r \in Threads : AlertsIn(queue'[r]) = AlertsIn(queue[r]),
             mainAt' = "joinOverlay" => "overlay" \in exit',
             mainAt' = "joinChat" => "chat" \in exit',
             InOrder'
      PROVE  ShutdownInv'
  <2>1. LoopsOK'
    <3>1. \A r \in Threads : Len(queue[r]) \in Nat /\ Len(queue'[r]) \in Nat
      BY <1>1 DEF LoopsOK
    <3> QED
      BY <1>1, <3>1 DEF LoopsOK
  <2> QED
    BY <1>1, <2>1 DEF CallsOK, AlertsOK, JoinsOK, Threads
<1>2. ASSUME ConnectSignal \/ Interrupt \/ QuitOverlay \/ JoinOverlay \/ QuitChat \/ JoinChat
      PROVE  ShutdownInv'
  <2>1. /\ UNCHANGED <<loops, started, stopped, overlay, alerts, queue>>
        /\ mainAt' \in Lines /\ exit' \subseteq Threads
        /\ linked' \in BOOLEAN
        /\ linked' <=> mainAt' \notin Starting
        /\ mainAt \notin {"start", "startOverlay"}
        /\ mainAt' = "joinOverlay" => "overlay" \in exit'
        /\ mainAt' = "joinChat" => "chat" \in exit'
    BY <1>2 DEF ConnectSignal, Interrupt, QuitOverlay, JoinOverlay, QuitChat, JoinChat, Lines, CallsOK,
                Threads, Starting
  <2>2. InOrder'
    BY <2>1 DEF InOrder, StartSeen
  <2>3. \A r \in Threads : Len(queue[r]) \in Nat
    BY DEF LoopsOK
  <2> QED
    BY <1>1, <2>1, <2>2, <2>3 DEF LoopsOK
<1>3. ASSUME NEW t \in Threads, NEW e \in {"start", "stop"}, queue' = Posted(t, e),
             UNCHANGED <<loops, started, stopped, overlay, alerts, exit>>,
             mainAt' \in Lines \ {"joinOverlay", "joinChat"},
             linked' = linked, mainAt' \in Starting <=> mainAt \in Starting,
             mainAt' # "start" => StartSeen("chat") \/ (t = "chat" /\ e = "start"),
             mainAt' \notin {"start", "startOverlay"} =>
               StartSeen("overlay") \/ (t = "overlay" /\ e = "start"),
             e = "stop" => StartSeen(t)
      PROVE  ShutdownInv'
  <2>1. e \in Events /\ e # "alert"
    BY DEF Events
  <2>2. /\ queue' \in [Threads -> Seq(Events)]
        /\ \A r \in Threads : Len(queue[r]) <= Len(queue'[r])
        /\ \A r \in Threads : StartSeen(r) => StartSeen(r)'
        /\ e = "start" => StartSeen(t)'
        /\ \A r \in Threads : Behind(queue[r]) /\ (r = t /\ e = "stop" => \E i \in 1 .. Len(queue[t]) : queue[t][i] = "start")
             => Behind(queue'[r])
        /\ \A r \in Threads : AlertsIn(queue'[r]) = AlertsIn(queue[r])
    BY <1>3, <2>1, PostedInv
  <2>3. \A r \in Threads : r \in started' \/ Behind(queue'[r])
    BY <1>3, <2>2 DEF InOrder, StartSeen
  <2>4. InOrder'
    BY <1>3, <2>2, <2>3 DEF InOrder, Threads
  <2>5. exit' \subseteq Threads
    BY <1>3 DEF CallsOK
  <2>6. linked' \in BOOLEAN /\ (linked' <=> mainAt' \notin Starting)
    BY <1>3 DEF CallsOK
  <2> QED
    BY <1>1, <1>3, <2>2, <2>4, <2>5, <2>6
<1>4. CASE StartChat
  BY <1>3, <1>4 DEF StartChat, Lines, Threads, InOrder, Starting
<1>5. CASE StartOverlay
  BY <1>3, <1>5 DEF StartOverlay, Lines, Threads, InOrder, Starting
<1>6. CASE StopChat
  BY <1>3, <1>6 DEF StopChat, Lines, Threads, InOrder, Starting
<1>7. CASE StopOverlay
  BY <1>3, <1>7 DEF StopOverlay, Lines, Threads, InOrder, Starting
<1> QED
  BY <1>2, <1>4, <1>5, <1>6, <1>7 DEF Starts, Exits

-----------------------------------------------------------------------------
(* Steps of the loops.                                                     *)

(* An event is taken from the queue; what runs may be its start. *)
LEMMA TakesInv ==
  ASSUME ShutdownInv, NEW t \in Threads, NEW e \in Events, Takes(t, e)
  PROVE  /\ LoopsOK' /\ UNCHANGED <<mainAt, linked, exit, alerts>>
         /\ e = "stop" => t \in started
         /\ \A r \in Threads : t # r \/ e # "start" => (StartSeen(r) <=> r \in started \/ \E i \in 1 .. Len(queue'[r]) : queue'[r][i] = "start")
         /\ \A r \in Threads : r \in started \/ (r = t /\ e = "start") \/ Behind(queue'[r])
         /\ t # "overlay" => queue'["overlay"] = queue["overlay"]
         /\ t = "overlay" => Cardinality(AlertsIn(queue'["overlay"])) + (IF e = "alert" THEN 1 ELSE 0)
                               = Cardinality(AlertsIn(queue["overlay"]))
         /\ JoinsOK'
         /\ e = "alert" => t = "overlay"
<1> DEFINE q == queue[t]
           p == Tail(q)
<1>1. /\ q \in Seq(Events) /\ Head(q) = e /\ todo[t] > 0
      /\ queue' = [queue EXCEPT ![t] = p]
      /\ at' = [at EXCEPT ![t] = at[t]] /\ todo' = [todo EXCEPT ![t] = todo[t] - 1]
      /\ UNCHANGED <<mainAt, linked, exit, alerts>>
  BY DEF Takes, Goes, ShutdownInv, LoopsOK
<1>2. q # <<>>
  BY <1>1 DEF ShutdownInv, LoopsOK
<1>3. /\ p \in Seq(Events) /\ Len(p) = Len(q) - 1 /\ Len(q) \in Nat \ {0}
      /\ \A i \in 1 .. Len(q) - 1 : p[i] = q[i + 1]
      /\ q[1] = e
  BY <1>1, <1>2, Taken
<1>4. Cardinality(AlertsIn(p)) + (IF e = "alert" THEN 1 ELSE 0) = Cardinality(AlertsIn(q))
  BY <1>1, <1>2, TakenAlerts
<1>5. queue'[t] = p /\ \A r \in Threads \ {t} : queue'[r] = queue[r]
  BY <1>1 DEF ShutdownInv, LoopsOK
<1> HIDE DEF p, q
<1>6. LoopsOK'
  <2>1. queue' \in [Threads -> Seq(Events)] /\ at' \in [Threads -> Places]
    BY <1>1, <1>3 DEF ShutdownInv, LoopsOK
  <2>2. todo[t] \in Nat /\ todo[t] <= Len(q) /\ todo[t] - 1 \in Nat /\ todo[t] - 1 <= Len(p)
    BY <1>1, <1>3 DEF ShutdownInv, LoopsOK, q
  <2>3. todo' \in [Threads -> Nat] /\ todo'[t] = todo[t] - 1
        /\ \A r \in Threads \ {t} : todo'[r] = todo[r]
    BY <1>1, <2>2 DEF ShutdownInv, LoopsOK
  <2> QED
    BY <1>5, <2>1, <2>2, <2>3 DEF ShutdownInv, LoopsOK
<1>7. e = "stop" => t \in started
  BY <1>3 DEF ShutdownInv, InOrder, Behind, q
<1>8. ASSUME e # "start"
      PROVE  (\E i \in 1 .. Len(q) : q[i] = "start") <=> \E i \in 1 .. Len(p) : p[i] = "start"
  <2>1. ASSUME NEW i \in 1 .. Len(q), q[i] = "start"
        PROVE  \E k \in 1 .. Len(p) : p[k] = "start"
    <3>1. i # 1 /\ i - 1 \in 1 .. Len(p) /\ i - 1 \in 1 .. Len(q) - 1 /\ (i - 1) + 1 = i
      BY <1>3, <1>8, <2>1
    <3>2. p[i - 1] = "start"
      BY <1>3, <2>1, <3>1
    <3> QED
      BY <3>1, <3>2
  <2>2. ASSUME NEW i \in 1 .. Len(p), p[i] = "start"
        PROVE  \E k \in 1 .. Len(q) : q[k] = "start"
    <3>1. i \in 1 .. Len(q) - 1 /\ i + 1 \in 1 .. Len(q)
      BY <1>3
    <3> QED
      BY <1>3, <2>2, <3>1
  <2> QED
    BY <2>1, <2>2
<1>9. ASSUME e # "start", Behind(q)
      PROVE  Behind(p)
  <2> SUFFICES ASSUME NEW i \in 1 .. Len(p), p[i] = "stop"
               PROVE  \E j \in 1 .. i - 1 : p[j] = "start"
    BY DEF Behind
  <2>1. i \in 1 .. Len(q) - 1 /\ i + 1 \in 1 .. Len(q) /\ q[i + 1] = "stop"
    BY <1>3
  <2>2. PICK j \in 1 .. (i + 1) - 1 : q[j] = "start"
    BY <1>9, <2>1 DEF Behind
  <2>3. j # 1
    BY <1>3, <1>9, <2>2
  <2>4. j - 1 \in 1 .. i - 1 /\ j - 1 \in 1 .. Len(q) - 1 /\ (j - 1) + 1 = j
    BY <1>3, <2>1, <2>2, <2>3
  <2>5. p[j - 1] = "start"
    BY <1>3, <2>2, <2>4
  <2> QED
    BY <2>4, <2>5
<1>10. \A r \in Threads : t # r \/ e # "start" =>
         (StartSeen(r) <=> r \in started \/ \E i \in 1 .. Len(queue'[r]) : queue'[r][i] = "start")
  BY <1>5, <1>8 DEF StartSeen, q
<1>11. \A r \in Threads : r \in started \/ (r = t /\ e = "start") \/ Behind(queue'[r])
  BY <1>5, <1>9 DEF ShutdownInv, InOrder, q
<1>12. "overlay" \in Threads
  BY DEF Threads
<1>13. t = "chat" => AlertsIn(p) = {} /\ e # "alert"
  <2> SUFFICES ASSUME t = "chat" PROVE AlertsIn(p) = {} /\ e # "alert"
    OBVIOUS
  <2>1. AlertsIn(q) = {}
    BY DEF ShutdownInv, JoinsOK, q
  <2>2. \A i \in 1 .. Len(p) : i + 1 \in 1 .. Len(q) /\ p[i] = q[i + 1]
    BY <1>3
  <2>3. 1 \in 1 .. Len(q)
    BY <1>3
  <2> QED
    BY <1>3, <2>1, <2>2, <2>3 DEF AlertsIn
<1>14. JoinsOK' /\ (e = "alert" => t = "overlay")
  BY <1>1, <1>5, <1>13 DEF ShutdownInv, JoinsOK, Threads
<1> QED
  BY <1>1, <1>4, <1>5, <1>6, <1>7, <1>10, <1>11, <1>12, <1>14 DEF q

LEMMA RunsInv ==
  ASSUME ShutdownInv, NEW t \in Threads, RunsPosted(t)
  PROVE  ShutdownInv'
<1> USE DEF ShutdownInv, overlay
<1>1. Cardinality(AlertsIn(queue["overlay"])) \in Nat
  BY AlertsFinite DEF LoopsOK, Threads
<1>2. ASSUME LoopsOK'
      PROVE  Cardinality(AlertsIn(queue'["overlay"])) \in Nat
  BY <1>2, AlertsFinite DEF LoopsOK, Threads
<1>3. "start" \in Events /\ "stop" \in Events /\ "alert" \in Events
      /\ "chat" \in Threads /\ "overlay" \in Threads
  BY DEF Events, Threads
<1>4. CASE Start(t)
  <2>1. Takes(t, "start") /\ started' = started \cup {t} /\ UNCHANGED <<stopped, overlay>>
    BY <1>4 DEF Start
  <2>2. /\ LoopsOK' /\ UNCHANGED <<mainAt, linked, exit, alerts>>
        /\ \A r \in Threads : t # r => (StartSeen(r) <=> r \in started \/ \E i \in 1 .. Len(queue'[r]) : queue'[r][i] = "start")
        /\ \A r \in Threads : r \in started \/ r = t \/ Behind(queue'[r])
        /\ t # "overlay" => queue'["overlay"] = queue["overlay"]
        /\ t = "overlay" => Cardinality(AlertsIn(queue'["overlay"])) + 0 = Cardinality(AlertsIn(queue["overlay"]))
        /\ JoinsOK'
    BY <1>3, <2>1, TakesInv
  <2>3. InOrder'
    BY <1>3, <2>1, <2>2 DEF InOrder, StartSeen
  <2>4. AlertsOK'
    BY <1>1, <1>2, <2>1, <2>2 DEF AlertsOK
  <2> QED
    BY <2>1, <2>2, <2>3, <2>4 DEF CallsOK
<1>5. ASSUME NEW e \in {"stop", "alert"}, Takes(t, e),
             UNCHANGED <<started, clients>>, stopped' = stopped \/ (e = "stop" /\ stopped' = stopped \cup {t}),
             deleted' \subseteq Overlays, misused' \in BOOLEAN,
             sent' = IF e = "alert" THEN sent + 1 ELSE sent
      PROVE  ShutdownInv'
  <2>1. e \in Events /\ e # "start"
    BY <1>3
  <2>2. /\ LoopsOK' /\ UNCHANGED <<mainAt, linked, exit, alerts>>
        /\ e = "stop" => t \in started
        /\ \A r \in Threads : StartSeen(r) <=> r \in started \/ \E i \in 1 .. Len(queue'[r]) : queue'[r][i] = "start"
        /\ \A r \in Threads : r \in started \/ Behind(queue'[r])
        /\ t # "overlay" => queue'["overlay"] = queue["overlay"]
        /\ t = "overlay" => Cardinality(AlertsIn(queue'["overlay"])) + (IF e = "alert" THEN 1 ELSE 0)
                              = Cardinality(AlertsIn(queue["overlay"]))
        /\ JoinsOK'
        /\ e = "alert" => t = "overlay"
    BY <1>5, <2>1, TakesInv
  <2>3. InOrder'
    BY <1>3, <1>5, <2>2 DEF InOrder, StartSeen
  <2>4. AlertsOK'
    BY <1>1, <1>2, <1>5, <2>2 DEF AlertsOK
  <2> QED
    BY <1>5, <2>2, <2>3, <2>4 DEF CallsOK
<1>6. CASE t = "chat" /\ ChatStop
  BY <1>5, <1>6 DEF ChatStop, CallsOK
<1>7. CASE t = "overlay" /\ OverlayStop
  BY <1>5, <1>7 DEF OverlayStop, CallsOK
<1>8. CASE t = "overlay" /\ SendMessage
  <2>1. (misused \/ clients \cap deleted # {}) \in BOOLEAN
    OBVIOUS
  <2>2. misused' \in BOOLEAN
    BY <1>8, <2>1, Zenon DEF SendMessage
  <2> QED
    BY <1>5, <1>8, <2>2 DEF SendMessage, CallsOK
<1> QED
  BY <1>4, <1>6, <1>7, <1>8 DEF RunsPosted

LEMMA LoopInv ==
  ASSUME ShutdownInv, NEW t \in Threads, TestsExit(t) \/ PassEnds(t) \/ Wakes(t)
  PROVE  ShutdownInv'
<1> USE DEF ShutdownInv, overlay
<1>1. UNCHANGED <<mainAt, linked, queue, exit, started, stopped, overlay, alerts>>
  BY DEF TestsExit, PassEnds, Wakes, Idle
<1>2. PICK to \in Places, n \in {0, Len(queue[t])} : Goes(t, to, n)
  BY DEF TestsExit, PassEnds, Wakes, Places
<1>3. Len(queue[t]) \in Nat
  BY DEF LoopsOK
<1>4. LoopsOK'
  BY <1>1, <1>2, <1>3 DEF LoopsOK, Goes
<1> QED
  BY <1>1, <1>4 DEF CallsOK, AlertsOK, InOrder, StartSeen, JoinsOK

(* Sockets. *)
LEMMA ServesInv ==
  ASSUME ShutdownInv, Alert \/ \E o \in Overlays : Connected(o) \/ Disconnected(o)
  PROVE  ShutdownInv'
<1> USE DEF ShutdownInv, overlay
<1>1. PICK t \in Threads : Serves(t)
  BY DEF Alert, Connected, Disconnected, Threads
<1>2. /\ UNCHANGED <<mainAt, linked, exit, started, stopped>>
      /\ at' \in [Threads -> Places] /\ todo' \in [Threads -> Nat]
      /\ \A r \in Threads : todo'[r] <= todo[r]
  <2>1. Goes(t, "test", 0) /\ UNCHANGED <<mainAt, linked, exit, started, stopped>>
    BY <1>1 DEF Serves
  <2>2. at' \in [Threads -> Places] /\ todo' \in [Threads -> Nat]
    BY <2>1 DEF Goes, LoopsOK, Places
  <2>3. \A r \in Threads : todo[r] \in Nat /\ (todo'[r] = 0 \/ todo'[r] = todo[r])
    BY <2>1 DEF Goes, LoopsOK
  <2> QED
    BY <2>1, <2>2, <2>3
<1>3. ASSUME NEW o \in Overlays, Connected(o) \/ Disconnected(o)
      PROVE  ShutdownInv'
  <2>1. UNCHANGED <<queue, deleted, misused, sent, alerts>> /\ clients' \subseteq Overlays
    BY <1>3 DEF Connected, Disconnected, CallsOK
  <2>2. \A r \in Threads : Len(queue[r]) \in Nat /\ todo[r] \in Nat /\ todo'[r] \in Nat
    BY <1>2 DEF LoopsOK
  <2>3. LoopsOK'
    BY <1>2, <2>1, <2>2 DEF LoopsOK
  <2> QED
    BY <1>2, <2>1, <2>3 DEF CallsOK, AlertsOK, InOrder, StartSeen, JoinsOK
<1>4. CASE Alert /\ ~linked
  <2>1. queue' = queue /\ alerts' = alerts /\ UNCHANGED overlay
    BY <1>4 DEF Alert, CallsOK
  <2>2. \A r \in Threads : Len(queue[r]) \in Nat /\ todo[r] \in Nat /\ todo'[r] \in Nat
    BY <1>2 DEF LoopsOK
  <2>3. LoopsOK'
    BY <1>2, <2>1, <2>2 DEF LoopsOK
  <2> QED
    BY <1>2, <2>1, <2>3 DEF CallsOK, AlertsOK, InOrder, StartSeen, JoinsOK
<1>5. CASE Alert /\ linked
  <2>1. /\ queue' = Posted("overlay", "alert") /\ UNCHANGED overlay
        /\ alerts < MaxAlerts /\ alerts' = alerts + 1
    BY <1>5 DEF Alert, CallsOK
  <2>2. "overlay" \in Threads /\ "alert" \in Events /\ queue["overlay"] \in Seq(Events)
    BY DEF Threads, Events, LoopsOK
  <2>3. /\ queue' \in [Threads -> Seq(Events)]
        /\ \A r \in Threads : Len(queue[r]) <= Len(queue'[r])
        /\ \A r \in Threads : StartSeen(r) => StartSeen(r)'
        /\ \A r \in Threads : Behind(queue[r]) => Behind(queue'[r])
        /\ AlertsIn(queue'["chat"]) = AlertsIn(queue["chat"])
    BY <1>2, <2>1, <2>2, PostedInv DEF Threads
  <2>4. LoopsOK'
    <3>1. \A r \in Threads : Len(queue[r]) \in Nat /\ Len(queue'[r]) \in Nat
                             /\ todo[r] \in Nat /\ todo'[r] \in Nat /\ todo[r] <= Len(queue[r])
      BY <1>2, <2>3 DEF LoopsOK
    <3> QED
      BY <1>2, <2>3, <3>1 DEF LoopsOK
  <2>5. InOrder'
    BY <1>2, <2>3 DEF InOrder, Threads
  <2>6. AlertsOK'
    <3>1. queue'["overlay"] = Append(queue["overlay"], "alert")
      BY <2>1, <2>2 DEF Posted, LoopsOK
    <3>2. AlertsIn(queue'["overlay"]) = AlertsIn(queue["overlay"]) \cup {Len(queue["overlay"]) + 1}
      BY <2>2, <3>1, Appended
    <3>3. IsFiniteSet(AlertsIn(queue["overlay"])) /\ Cardinality(AlertsIn(queue["overlay"])) \in Nat
      BY <2>2, AlertsFinite
    <3>6. Len(queue["overlay"]) + 1 \notin AlertsIn(queue["overlay"])
      BY <2>2 DEF AlertsIn
    <3>4. Cardinality(AlertsIn(queue'["overlay"])) = Cardinality(AlertsIn(queue["overlay"])) + 1
      BY <3>2, <3>3, <3>6, FS_AddElement
    <3>5. MaxAlerts \in Nat
      BY ShutdownAssumption DEF ShutdownAssumption
    <3> QED
      BY <2>1, <3>3, <3>4, <3>5 DEF AlertsOK
  <2> QED
    BY <1>2, <2>1, <2>3, <2>4, <2>5, <2>6 DEF CallsOK, JoinsOK
<1> QED
  BY <1>3, <1>4, <1>5

-----------------------------------------------------------------------------
(* start comes before stop, main joins only threads it told to quit, and   *)
(* an alert is sent or waits if it was asked for once main runs its event  *)
(* loop, in every reachable state of main and the two event loops.         *)
THEOREM ShutdownInvCorrect == ShutdownSpec => []ShutdownInv
<1>1. ShutdownInit => ShutdownInv
  <2> SUFFICES ASSUME ShutdownInit PROVE ShutdownInv
    OBVIOUS
  <2>1. \A t \in Threads : queue[t] = <<>> /\ Len(queue[t]) = 0
    BY DEF ShutdownInit
  <2>2. LoopsOK
    BY <2>1 DEF ShutdownInit, LoopsOK, Places
  <2>3. AlertsIn(queue["overlay"]) = {} /\ AlertsIn(queue["chat"]) = {}
    BY <2>1 DEF AlertsIn, Threads
  <2>4. AlertsOK
    <3>1. Cardinality(AlertsIn(queue["overlay"])) = 0
      BY <2>3, FS_EmptySet
    <3>2. sent = 0 /\ alerts = 0
      BY DEF ShutdownInit
    <3>3. MaxAlerts \in Nat
      BY ShutdownAssumption DEF ShutdownAssumption
    <3> QED
      BY <3>1, <3>2, <3>3 DEF AlertsOK
  <2>5. InOrder
    BY <2>1 DEF ShutdownInit, InOrder, Behind
  <2> QED
    BY <2>2, <2>3, <2>4, <2>5 DEF ShutdownInit, ShutdownInv, CallsOK, JoinsOK, Lines, Starting
<1>2. ASSUME ShutdownInv, UNCHANGED shutdownVars PROVE ShutdownInv'
  BY <1>2 DEF shutdownVars, loops, overlay, ShutdownInv, LoopsOK, CallsOK, AlertsOK, InOrder, StartSeen, JoinsOK
<1>3. ShutdownInv /\ [ShutdownNext]_shutdownVars => ShutdownInv'
  BY <1>2, MainInv, RunsInv, LoopInv, ServesInv DEF ShutdownNext, Loop
<1> QED
  BY <1>1, <1>3, PTL DEF ShutdownSpec

(* Types; and no more alerts are sent than were asked for once the signal  *)
(* was connected.                                                          *)
THEOREM ShutdownTypeCorrect == ShutdownSpec => []ShutdownTypeOK
<1>1. ShutdownInv => ShutdownTypeOK
  <2> SUFFICES ASSUME ShutdownInv PROVE ShutdownTypeOK
    OBVIOUS
  <2>1. Cardinality(AlertsIn(queue["overlay"])) \in Nat
    BY AlertsFinite DEF ShutdownInv, LoopsOK, Threads
  <2>2. sent \in 0 .. alerts /\ alerts \in 0 .. MaxAlerts
    BY <2>1, ShutdownAssumption DEF ShutdownInv, AlertsOK, ShutdownAssumption
  <2>3. \A t \in Threads : todo[t] \in 0 .. Len(queue[t])
    BY DEF ShutdownInv, LoopsOK
  <2> QED
    BY <2>2, <2>3 DEF ShutdownInv, LoopsOK, CallsOK, ShutdownTypeOK, Events, Places, Lines, Starting
<1> QED
  BY <1>1, ShutdownInvCorrect, PTL

(* stop() of a thread never runs before its start().                       *)
THEOREM StartedFirstCorrect == ShutdownSpec => []StartedFirst
<1>1. ShutdownInv => StartedFirst
  BY DEF ShutdownInv, InOrder, StartedFirst
<1> QED
  BY <1>1, ShutdownInvCorrect, PTL

(* The event loop of a thread that main joins has a step to make: nobody   *)
(* waits for a thread that waits (threadExit).                             *)
THEOREM JoinedMovesCorrect == ShutdownSpec => []JoinedMoves
<1>1. ShutdownInv => JoinedMoves
  <2> SUFFICES ASSUME ShutdownInv, NEW t \in Threads, t \in exit, at[t] # "done"
               PROVE  Moves(t)
    BY DEF ShutdownInv, JoinsOK, JoinedMoves, Threads
  <2>1. /\ queue[t] \in Seq(Events) /\ todo[t] \in Nat /\ todo[t] <= Len(queue[t])
        /\ at[t] \in {"test", "pass", "wait", "woken"}
    BY DEF ShutdownInv, LoopsOK, Places
  <2>2. ASSUME todo[t] # 0
        PROVE  Head(queue[t]) \in Handled[t]
    <3>1. queue[t] # <<>>
      BY <2>1, <2>2
    <3>2. Head(queue[t]) = queue[t][1] /\ Head(queue[t]) \in Events /\ 1 \in 1 .. Len(queue[t])
      BY <2>1, <3>1, Taken
    <3>3. t = "chat" => Head(queue[t]) # "alert"
      BY <3>2 DEF ShutdownInv, JoinsOK, AlertsIn
    <3> QED
      BY <3>2, <3>3 DEF Handled, Events
  <2> QED
    BY <2>1, <2>2 DEF Moves
<1> QED
  BY <1>1, ShutdownInvCorrect, PTL

=============================================================================
