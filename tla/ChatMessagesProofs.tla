------------------------- MODULE ChatMessagesProofs -------------------------
(***************************************************************************)
(* Proofs about ChatMessages, for any users, connections, texts, times,    *)
(* lengths of modes and bans, and any width of the integers.               *)
(***************************************************************************)
EXTENDS ChatMessages, TLAPS

Levels == {USER, MOD, ADMIN}

-----------------------------------------------------------------------------
(* The arithmetic of Durations.                                            *)

LEMMA ModWraps ==
  ASSUME NEW M \in Nat \ {0}, NEW x \in Int, -M <= x, x < M
  PROVE  (x + M) % M = x % M
<1>1. CASE x < 0
  BY <1>1
<1>2. CASE x >= 0
  BY <1>2
<1> QED
  BY <1>1, <1>2

(* A sum that is in the range of a qint64 survives the conversions. *)
LEMMA RoundTrip ==
  ASSUME NEW x \in Int, -LongHalf <= x, x < LongHalf
  PROVE  Signed(Unsigned(x)) = x
<1> DEFINE M == 2 * LongHalf
<1>1. M \in Nat \ {0}
  BY DurationsAssumption DEF DurationsAssumption
<1>2. LongHalf \in Nat
  BY DurationsAssumption DEF DurationsAssumption
<1>3. CASE x >= 0
  <2>1. x \in 0 .. M - 1
    BY <1>2, <1>3
  <2> HIDE DEF M
  <2>2. x % M = x
    BY <1>1, <2>1
  <2> QED
    BY <2>2 DEF Signed, Unsigned, M
<1>4. CASE x < 0
  <2>1. -M <= x
    BY <1>2
  <2> HIDE DEF M
  <2>2. x % M = x + M
    BY <1>1, <1>4, <2>1
  <2> QED
    BY <1>2, <1>4, <2>2 DEF Signed, Unsigned, M
<1> QED
  BY <1>3, <1>4

(* A quint64 and the qint64 of it are equal modulo 2^64. *)
LEMMA SignedShift ==
  ASSUME NEW mode \in 0 .. 2 * LongHalf - 1, NEW x \in Int,
         -LongHalf <= x + Signed(mode), x + Signed(mode) < LongHalf
  PROVE  Unsigned(x + mode) = Unsigned(x + Signed(mode))
<1> DEFINE M == 2 * LongHalf
           y == x + Signed(mode)
<1>1. M \in Nat \ {0} /\ LongHalf \in Nat
  BY DurationsAssumption DEF DurationsAssumption
<1>2. y \in Int /\ Signed(mode) \in Int
  BY <1>1 DEF Signed
<1>3. CASE mode < LongHalf
  BY <1>3 DEF Signed
<1>4. CASE mode >= LongHalf
  <2>1. x + mode = y + M
    BY <1>1, <1>4 DEF Signed
  <2>2. -M <= y /\ y < M
    BY <1>1, <1>2
  <2> HIDE DEF M, y
  <2>3. (y + M) % M = y % M
    BY <1>1, <1>2, <2>2, ModWraps
  <2> QED
    BY <2>1, <2>3 DEF Unsigned, M, y
<1> QED
  BY <1>1, <1>3, <1>4

(* slowmode and followmode hold back exactly who has to wait. *)
LEMMA HeldAsEntered ==
  ASSUME NEW mode \in 0 .. 2 * LongHalf - 1, Signed(mode) \in -IntHalf .. LongHalf - MaxTime - 1,
         NEW t \in 0 .. MaxTime, NEW n \in t .. MaxTime, MaxTime + IntHalf < LongHalf
  PROVE  /\ HeldBySlowMode(t, mode, n) <=> t + Signed(mode) > n
         /\ HeldByFollowMode(t, mode, n) <=> t + Signed(mode) > n
<1> DEFINE s == Signed(mode)
<1>1. /\ LongHalf \in Nat /\ IntHalf \in Nat /\ MaxTime \in Nat
      /\ s \in Int /\ t \in Int /\ n \in Int
  BY DurationsAssumption, MessagesAssumption DEF DurationsAssumption, MessagesAssumption
<1>2. mode = 0 => s = 0
  BY DurationsAssumption DEF Signed, DurationsAssumption
<1>3. HeldBySlowMode(t, mode, n) <=> t + s > n
  <2>1. (t - n) + s \in Int /\ -LongHalf <= (t - n) + s /\ (t - n) + s < LongHalf
    BY <1>1
  <2>2. Unsigned((t - n) + mode) = Unsigned((t - n) + s)
    BY <1>1, <2>1, SignedShift
  <2>3. Signed(Unsigned((t - n) + s)) = (t - n) + s
    BY <2>1, RoundTrip
  <2>4. t + mode - n = (t - n) + mode
    BY <1>1
  <2> QED
    BY <1>1, <1>2, <2>2, <2>3, <2>4 DEF HeldBySlowMode
<1>4. HeldByFollowMode(t, mode, n) <=> t + s > n
  <2>1. t + s \in Int /\ -LongHalf <= t + s /\ t + s < LongHalf
    BY <1>1
  <2>2. Unsigned(t + mode) = Unsigned(t + s)
    BY <1>1, <2>1, SignedShift
  <2>3. n - (t + s) \in Int /\ -LongHalf <= n - (t + s) /\ n - (t + s) < LongHalf
    BY <1>1
  <2>4. Signed(Unsigned(n - (t + s))) = n - (t + s)
    BY <2>3, RoundTrip
  <2>5. Unsigned(n - Unsigned(t + s)) = Unsigned(n - (t + s))
    <3> DEFINE M == 2 * LongHalf
               y == t + s
    <3>1. M \in Nat \ {0}
      BY DurationsAssumption DEF DurationsAssumption
    <3>2. CASE y >= 0
      <4>1. y \in 0 .. M - 1
        BY <1>1, <2>1, <3>2
      <4> HIDE DEF M, y
      <4>2. y % M = y
        BY <3>1, <4>1
      <4> QED
        BY <4>2 DEF Unsigned, M, y
    <3>3. CASE y < 0
      <4>1. y \in Int /\ -M <= y /\ n - y \in 0 .. M - 1 /\ n \in Int
        BY <1>1, <2>1, <2>3, <3>3
      <4> HIDE DEF M, y
      <4>2. y % M = y + M
        BY <3>1, <3>3, <4>1
      <4>3. n - (y + M) = (n - y) - M /\ -M <= (n - y) - M /\ (n - y) - M < 0
        BY <3>1, <4>1
      <4>4. ((n - y) - M) % M = ((n - y) - M) + M
        BY <3>1, <4>1, <4>3
      <4>5. (n - y) % M = n - y
        BY <3>1, <4>1
      <4>6. (n - (y % M)) % M = (n - y) % M
        BY <3>1, <4>1, <4>2, <4>3, <4>4, <4>5
      <4> QED
        BY <4>6 DEF Unsigned, M, y
    <3> QED
      BY <1>1, <3>2, <3>3
  <2> QED
    BY <1>1, <1>2, <2>2, <2>4, <2>5 DEF HeldByFollowMode
<1> QED
  BY <1>3, <1>4

-----------------------------------------------------------------------------
(* The table after publish.                                                *)

LEMMA RowsIn ==
  ASSUME NEW id \in Nat, NEW u \in Users \cup {Bot}, NEW text, NEW level \in Levels,
         NEW reply \in Int, NEW donated \in BOOLEAN, now \in Nat
  PROVE  Row(id, u, text, level, reply, donated) \in Rows
BY DEF Row, Rows, Levels

(* publish leaves the table alone or appends a row of the author's; it     *)
(* broadcasts nothing else but, after a failure, a message with the id 0.  *)
GrowsBy(o, h, u, level, donated) ==
  /\ o.lost \subseteq {0}
  /\ o.kept \subseteq DOMAIN o.table
  /\ \/ o.table = h
     \/ \E r \in Rows : /\ o.table = Append(h, r)
                        /\ r.user = u /\ r.time = now
                        /\ r.level = level /\ r.donated = donated

LEMMA OutcomesGrow ==
  ASSUME NEW h \in Seq(Rows), NEW u \in Users \cup {Bot}, NEW text, NEW level \in Levels,
         NEW reply \in Int, NEW donated \in BOOLEAN, now \in Nat,
         NEW o \in Outcomes(h, u, text, level, reply, donated)
  PROVE  GrowsBy(o, h, u, level, donated)
<1> DEFINE row == Row(Len(h) + 1, u, text, level, reply, donated)
           stored(d, r) == [row EXCEPT !.dropped = d, !.reply = r]
<1>1. Len(h) + 1 \in Nat
  OBVIOUS
<1>2. row \in Rows /\ row.user = u /\ row.time = now /\ row.level = level /\ row.donated = donated
  BY <1>1, RowsIn DEF Row
<1> HIDE DEF row
<1>3. ASSUME NEW d \in BOOLEAN, NEW r \in Int
      PROVE  /\ stored(d, r) \in Rows
             /\ stored(d, r).user = u /\ stored(d, r).time = now
             /\ stored(d, r).level = level /\ stored(d, r).donated = donated
  BY <1>2 DEF Rows
<1>4. CASE o = [table |-> h, lost |-> {}, kept |-> {}]
  BY <1>4 DEF GrowsBy
<1>5. ASSUME NEW fails, o = Stored(h, u, text, level, reply, donated, fails)
      PROVE  GrowsBy(o, h, u, level, donated)
  <2> DEFINE dropped == row.dropped \/ "words" \in fails
             replied == IF dropped \/ "reply" \in fails THEN reply ELSE row.reply
  <2>1. o = IF "insert" \in fails
            THEN [table |-> h, lost |-> IF dropped THEN {} ELSE {0}, kept |-> {}]
            ELSE [table |-> Append(h, stored(dropped, replied)), lost |-> {},
                  kept |-> IF dropped \/ replied = row.reply THEN {} ELSE {Len(h) + 1}]
    BY <1>5 DEF Stored, row
  <2>2. dropped \in BOOLEAN /\ replied \in Int
    BY <1>2 DEF Rows
  <2> HIDE DEF dropped, replied
  <2>3. CASE "insert" \in fails
    <3>1. o.table = h /\ o.lost \subseteq {0} /\ o.kept = {}
      BY <2>1, <2>3
    <3> QED
      BY <3>1 DEF GrowsBy
  <2>4. CASE "insert" \notin fails
    <3>1. /\ o.table = Append(h, stored(dropped, replied)) /\ o.lost = {}
          /\ o.kept \subseteq {Len(h) + 1}
      BY <2>1, <2>4
    <3>2. /\ stored(dropped, replied) \in Rows
          /\ stored(dropped, replied).user = u /\ stored(dropped, replied).time = now
          /\ stored(dropped, replied).level = level /\ stored(dropped, replied).donated = donated
      BY <1>3, <2>2
    <3> HIDE DEF stored
    <3>3. DOMAIN o.table = 1 .. Len(h) + 1
      BY <3>1, <3>2
    <3>4. o.kept \subseteq DOMAIN o.table
      BY <1>1, <3>1, <3>3
    <3> QED
      BY <3>1, <3>2, <3>4 DEF GrowsBy
  <2> QED
    BY <2>3, <2>4
<1> QED
  BY <1>4, <1>5 DEF Outcomes

(* h is the table with rows appended, of which those that are not the      *)
(* bot's are u's.                                                          *)
Grown(h, u, level, donated) ==
  /\ h \in Seq(Rows)
  /\ Len(history) <= Len(h)
  /\ \A i \in Ids : h[i] = history[i]
  /\ \A i \in DOMAIN h \ Ids :
       /\ h[i].time = now
       /\ h[i].user # Bot => h[i].user = u /\ h[i].level = level /\ h[i].donated = donated

LEMMA AppendGrows ==
  ASSUME NEW h, NEW u, NEW level, NEW donated, Grown(h, u, level, donated),
         history \in Seq(Rows), NEW r \in Rows, r.time = now,
         r.user = Bot \/ (r.user = u /\ r.level = level /\ r.donated = donated)
  PROVE  Grown(Append(h, r), u, level, donated)
<1> USE DEF Grown, Ids
<1>1. Append(h, r) \in Seq(Rows) /\ Len(Append(h, r)) = Len(h) + 1
  OBVIOUS
<1>2. \A i \in 1 .. Len(h) : Append(h, r)[i] = h[i]
  OBVIOUS
<1>3. Append(h, r)[Len(h) + 1] = r
  OBVIOUS
<1>4. DOMAIN Append(h, r) = 1 .. Len(h) + 1 /\ DOMAIN h = 1 .. Len(h)
      /\ DOMAIN history = 1 .. Len(history) /\ Len(history) \in Nat /\ Len(h) \in Nat
  BY <1>1
<1>5. \A i \in Ids : Append(h, r)[i] = history[i]
  BY <1>2, <1>4
<1>6. ASSUME NEW i \in DOMAIN Append(h, r) \ Ids
      PROVE  /\ Append(h, r)[i].time = now
             /\ Append(h, r)[i].user # Bot =>
                  /\ Append(h, r)[i].user = u /\ Append(h, r)[i].level = level
                  /\ Append(h, r)[i].donated = donated
  <2>1. CASE i = Len(h) + 1
    BY <1>3, <2>1
  <2>2. CASE i # Len(h) + 1
    <3>1. i \in DOMAIN h \ Ids /\ i \in 1 .. Len(h)
      BY <1>4, <1>6, <2>2
    <3> QED
      BY <1>2, <3>1
  <2> QED
    BY <2>1, <2>2
<1> QED
  BY <1>1, <1>4, <1>5, <1>6

LEMMA HistoryGrown ==
  ASSUME history \in Seq(Rows), NEW u, NEW level, NEW donated
  PROVE  Grown(history, u, level, donated)
BY DEF Grown, Ids

LEMMA GrownIds ==
  ASSUME history \in Seq(Rows), NEW h, NEW u, NEW level, NEW donated, Grown(h, u, level, donated)
  PROVE  Ids \subseteq DOMAIN h
BY DEF Grown, Ids

LEMMA OutcomeGrown ==
  ASSUME history \in Seq(Rows), now \in Nat, NEW u, NEW level, NEW donated,
         NEW h, Grown(h, u, level, donated),
         NEW v \in Users \cup {Bot}, NEW text, NEW l \in Levels, NEW reply \in Int,
         NEW d \in BOOLEAN, v = Bot \/ (v = u /\ l = level /\ d = donated),
         NEW o \in Outcomes(h, v, text, l, reply, d)
  PROVE  /\ Grown(o.table, u, level, donated)
         /\ o.lost \subseteq {0} /\ o.kept \subseteq DOMAIN o.table
<1>1. h \in Seq(Rows)
  BY DEF Grown
<1>2. GrowsBy(o, h, v, l, d)
  BY <1>1, OutcomesGrow
<1> QED
  BY <1>2, AppendGrows DEF GrowsBy

-----------------------------------------------------------------------------
(* Every step publishes, drops messages, or leaves the table alone.        *)

LEMMA SpeakGrows ==
  ASSUME MessagesTypeOK, NEW u \in Users, NEW text \in Texts, NEW reply \in Replies,
         Speak(u, text, reply)
  PROVE  /\ \E lost \in SUBSET {0} : Publish(history', lost) /\ Grown(history', u, auth[u], FALSE)
         /\ unrepaired' \subseteq Ids'
<1>1. history \in Seq(Rows) /\ now \in Nat /\ auth[u] \in Levels /\ reply \in Int
  BY MessagesAssumption DEF MessagesTypeOK, MessagesAssumption, Levels
<1>2. PICK o \in Outcomes(history, u, text, auth[u], reply, FALSE) :
        Publish(o.table, o.lost) /\ unrepaired' = unrepaired \cup o.kept
  BY DEF Speak
<1>3. Grown(history, u, auth[u], FALSE)
  BY <1>1, HistoryGrown
<1>4. /\ Grown(o.table, u, auth[u], FALSE)
      /\ o.lost \subseteq {0} /\ o.kept \subseteq DOMAIN o.table
  BY <1>1, <1>3, OutcomeGrown
<1>5. history' = o.table
  BY <1>2 DEF Publish
<1>6. unrepaired' \subseteq Ids'
  BY <1>2, <1>4, <1>5, GrownIds DEF MessagesTypeOK, Ids
<1> QED
  BY <1>2, <1>4, <1>5, <1>6

LEMMA AskGrows ==
  ASSUME MessagesTypeOK, NEW u \in Users, NEW text \in Texts, NEW reply \in Replies,
         NEW answer \in Texts, Ask(u, text, reply, answer)
  PROVE  /\ \E lost \in SUBSET {0} : Publish(history', lost) /\ Grown(history', u, auth[u], FALSE)
         /\ unrepaired' \subseteq Ids'
<1>1. history \in Seq(Rows) /\ now \in Nat /\ auth[u] \in Levels /\ reply \in Int
  BY MessagesAssumption DEF MessagesTypeOK, MessagesAssumption, Levels
<1>2. PICK o \in Outcomes(history, u, text, auth[u], reply, FALSE) :
        \E a \in Outcomes(o.table, Bot, answer, MOD, 0, FALSE) :
          /\ Publish(a.table, o.lost \cup a.lost)
          /\ unrepaired' = unrepaired \cup o.kept \cup a.kept
  BY DEF Ask
<1>3. PICK a \in Outcomes(o.table, Bot, answer, MOD, 0, FALSE) :
        /\ Publish(a.table, o.lost \cup a.lost)
        /\ unrepaired' = unrepaired \cup o.kept \cup a.kept
  BY <1>2
<1>4. Grown(history, u, auth[u], FALSE)
  BY <1>1, HistoryGrown
<1>5. /\ Grown(o.table, u, auth[u], FALSE)
      /\ o.lost \subseteq {0} /\ o.kept \subseteq DOMAIN o.table
  BY <1>1, <1>4, OutcomeGrown
<1>6. MOD \in Levels /\ Bot \in Users \cup {Bot} /\ 0 \in Int /\ FALSE \in BOOLEAN
  BY DEF Levels
<1>7. /\ Grown(a.table, u, auth[u], FALSE)
      /\ a.lost \subseteq {0} /\ a.kept \subseteq DOMAIN a.table
  BY <1>1, <1>5, <1>6, OutcomeGrown, Zenon
<1>8. history' = a.table
  BY <1>3 DEF Publish
<1>9. DOMAIN o.table \subseteq DOMAIN a.table
  <2>1. o.table \in Seq(Rows)
    BY <1>5 DEF Grown
  <2>2. GrowsBy(a, o.table, Bot, MOD, FALSE)
    BY <1>1, <1>6, <2>1, OutcomesGrow, Zenon
  <2> QED
    BY <2>1, <2>2 DEF GrowsBy
<1>10. unrepaired' \subseteq Ids'
  BY <1>3, <1>5, <1>7, <1>8, <1>9, GrownIds DEF MessagesTypeOK, Ids
<1> QED
  BY <1>3, <1>5, <1>7, <1>8, <1>10

LEMMA DonationGrows ==
  ASSUME MessagesTypeOK, NEW d \in donations, NEW text \in Texts, DonationAccepted(d, text)
  PROVE  /\ \E lost \in SUBSET {0} : Publish(history', lost) /\ Grown(history', d.user, d.level, TRUE)
         /\ unrepaired' \subseteq Ids'
<1>1. history \in Seq(Rows) /\ now \in Nat /\ d.user \in Users /\ d.level \in Levels
  BY MessagesAssumption DEF MessagesTypeOK, MessagesAssumption, Levels
<1>2. PICK o \in Outcomes(history, d.user, text, d.level, 0, TRUE) :
        Publish(o.table, o.lost) /\ unrepaired' = unrepaired \cup o.kept
  BY DEF DonationAccepted
<1>3. Grown(history, d.user, d.level, TRUE)
  BY <1>1, HistoryGrown
<1>4. d.user \in Users \cup {Bot} /\ 0 \in Int /\ TRUE \in BOOLEAN
  BY <1>1
<1>5. /\ Grown(o.table, d.user, d.level, TRUE)
      /\ o.lost \subseteq {0} /\ o.kept \subseteq DOMAIN o.table
  BY <1>1, <1>3, <1>4, OutcomeGrown, Zenon
<1>6. history' = o.table
  BY <1>2 DEF Publish
<1>7. unrepaired' \subseteq Ids'
  BY <1>2, <1>5, <1>6, GrownIds DEF MessagesTypeOK, Ids
<1> QED
  BY <1>2, <1>5, <1>6, <1>7

-----------------------------------------------------------------------------
(* Types.                                                                  *)

ScreensOK ==
  /\ history \in Seq(Rows)
  /\ feed \subseteq Conns
  /\ shown \in [Conns -> SUBSET (Ids \cup {0})]
  /\ stale \subseteq feed
  /\ floor \in [Conns -> Nat]
  /\ unrepaired \subseteq Ids

LEMMA PublishType ==
  ASSUME MessagesTypeOK, NEW lost \in SUBSET {0}, Publish(history', lost),
         NEW u, NEW level, NEW donated, Grown(history', u, level, donated),
         unrepaired' \subseteq Ids'
  PROVE  ScreensOK'
<1>1. history' \in Seq(Rows)
  BY DEF Grown
<1>2. Ids \subseteq Ids'
  BY <1>1 DEF Grown, Ids, MessagesTypeOK
<1>3. NewIds(history') \subseteq Ids'
  BY <1>1 DEF NewIds, Ids, MessagesTypeOK
<1>4. \A c \in Conns : shown[c] \subseteq Ids \cup {0}
  BY DEF MessagesTypeOK
<1>5. shown' \in [Conns -> SUBSET (Ids' \cup {0})]
  BY <1>2, <1>3, <1>4 DEF Publish
<1> QED
  BY <1>1, <1>5 DEF Publish, ScreensOK, MessagesTypeOK

LEMMA DroppedRows ==
  ASSUME history \in Seq(Rows), NEW ids, NEW sent, DropMessages(ids, sent)
  PROVE  /\ history' \in Seq(Rows) /\ Ids' = Ids
         /\ \A i \in Ids : /\ history'[i].user = history[i].user
                           /\ history'[i].time = history[i].time
                           /\ history'[i].level = history[i].level
                           /\ history'[i].donated = history[i].donated
                           /\ history'[i].reply = history[i].reply
                           /\ history'[i].dropped <=> history[i].dropped \/ i \in ids
<1> DEFINE row(i) == [history[i] EXCEPT !.dropped = @ \/ i \in ids]
<1>1. history' = [i \in Ids |-> row(i)]
  BY DEF DropMessages
<1>2. Ids = 1 .. Len(history) /\ Len(history) \in Nat
  BY DEF Ids
<1>3. ASSUME NEW i \in Ids
      PROVE  /\ row(i) \in Rows
             /\ row(i).user = history[i].user /\ row(i).time = history[i].time
             /\ row(i).level = history[i].level /\ row(i).donated = history[i].donated
             /\ row(i).reply = history[i].reply
             /\ row(i).dropped <=> history[i].dropped \/ i \in ids
  <2>1. history[i] \in Rows
    BY <1>2, <1>3
  <2> QED
    BY <2>1 DEF Rows
<1> HIDE DEF row
<1>4. history' \in Seq(Rows) /\ DOMAIN history' = Ids
  BY <1>1, <1>2, <1>3
<1> QED
  BY <1>1, <1>3, <1>4 DEF Ids

LEMMA DropType ==
  ASSUME MessagesTypeOK, NEW ids, NEW sent, DropMessages(ids, sent), UNCHANGED unrepaired
  PROVE  ScreensOK'
<1>1. history' \in Seq(Rows) /\ Ids' = Ids
  BY DroppedRows DEF MessagesTypeOK
<1>2. shown' \in [Conns -> SUBSET (Ids' \cup {0})]
  BY <1>1 DEF DropMessages, MessagesTypeOK
<1> QED
  BY <1>1, <1>2 DEF DropMessages, ScreensOK, MessagesTypeOK

(* A mode is what was entered. *)
LEMMA ModeType ==
  ASSUME NEW k \in Int32
  PROVE  /\ Unsigned(k) \in 0 .. 2 * LongHalf - 1
         /\ Signed(Unsigned(k)) = k
<1>1. /\ k \in Int /\ -LongHalf <= k /\ k < LongHalf
      /\ LongHalf \in Nat \ {0}
  BY DurationsAssumption DEF DurationsAssumption, Int32
<1>2. Signed(Unsigned(k)) = k
  BY <1>1, RoundTrip
<1> DEFINE M == 2 * LongHalf
<1>3. M \in Nat \ {0}
  BY <1>1
<1> HIDE DEF M
<1>4. k % M \in 0 .. M - 1
  BY <1>1, <1>3
<1> QED
  BY <1>2, <1>4 DEF Unsigned, M

LEMMA ReadType ==
  ASSUME NEW n \in Int
  PROVE  Read(n) \in Int32
BY DurationsAssumption DEF DurationsAssumption, Read, Int32

LEMMA DefaultType ==
  /\ 0 \in 0 .. 2 * LongHalf - 1 /\ Signed(0) \in Int32
  /\ FollowDefault \in 0 .. 2 * LongHalf - 1 /\ Signed(FollowDefault) \in Int32
BY DurationsAssumption, MessagesAssumption
DEF DurationsAssumption, MessagesAssumption, Signed, Int32

LEMMA BanEndType ==
  ASSUME MessagesTypeOK, NEW until \in BanEnds
  PROVE  until \in Int
<1>1. now \in Int /\ Forever \in Int
  BY MessagesAssumption DEF MessagesTypeOK, MessagesAssumption
<1>2. ASSUME NEW n \in BanTimes, NEW unit \in Units, NEW s \in Seconds(n, unit)
      PROVE  s \in Int
  BY <1>2, MessagesAssumption, DurationsAssumption
  DEF MessagesAssumption, DurationsAssumption, Seconds, Int32
<1>3. CASE until = Forever
  BY <1>1, <1>3
<1>4. CASE until # Forever
  <2>1. PICK e \in BanTimes \X Units : \E s \in Seconds(e[1], e[2]) : until = now + s
    BY <1>4 DEF BanEnds
  <2>2. e[1] \in BanTimes /\ e[2] \in Units
    OBVIOUS
  <2> QED
    BY <1>1, <1>2, <2>1, <2>2
<1> QED
  BY <1>3, <1>4

LEMMA InitType == MessagesInit => MessagesTypeOK
<1> SUFFICES ASSUME MessagesInit PROVE MessagesTypeOK
  OBVIOUS
<1>1. now \in StartTime .. MaxTime /\ now \in Nat
  BY MessagesAssumption DEF MessagesInit, MessagesAssumption
<1>2. history \in Seq(Rows) /\ Ids = {}
  BY DEF MessagesInit, Ids
<1>3. createdAt \in [Users -> 0 .. now]
  BY MessagesAssumption DEF MessagesInit, MessagesAssumption
<1>4. last \in [Users -> [text : Texts \cup {NoText}, time : 0 .. now]]
  BY <1>1 DEF MessagesInit
<1>5. /\ auth \in [Users -> {USER, MOD, ADMIN}] /\ bannedUntil \in [Users -> Int]
      /\ shown \in [Conns -> SUBSET (Ids \cup {0})] /\ floor \in [Conns -> Nat]
  BY DEF MessagesInit
<1>6. /\ {slowMode, followMode} \subseteq 0 .. 2 * LongHalf - 1
      /\ {Signed(slowMode), Signed(followMode)} \subseteq Int32
  BY DefaultType DEF MessagesInit
<1> QED
  BY <1>1, <1>2, <1>3, <1>4, <1>5, <1>6 DEF MessagesInit, MessagesTypeOK

(* The variables that the screens do not depend on. *)
AccountsOK ==
  /\ now \in StartTime .. MaxTime
  /\ auth \in [Users -> {USER, MOD, ADMIN}]
  /\ bannedUntil \in [Users -> Int]
  /\ createdAt \in [Users -> 0 .. now]
  /\ last \in [Users -> [text : Texts \cup {NoText}, time : 0 .. now]]
  /\ {slowMode, followMode} \subseteq 0 .. 2 * LongHalf - 1
  /\ {Signed(slowMode), Signed(followMode)} \subseteq Int32
  /\ donations \subseteq [user : Users, level : {USER, MOD, ADMIN}]
  /\ torn \subseteq Users /\ unnoted \subseteq Users

LEMMA TypeParts == MessagesTypeOK <=> ScreensOK /\ AccountsOK
BY DEF MessagesTypeOK, ScreensOK, AccountsOK

LEMMA NoteType ==
  ASSUME AccountsOK, NEW u \in Users, NEW text \in Texts, Note(u, text)
  PROVE  /\ last' \in [Users -> [text : Texts \cup {NoText}, time : 0 .. now]]
         /\ unnoted' \subseteq Users
<1>1. now \in 0 .. now
  BY MessagesAssumption DEF AccountsOK, MessagesAssumption
<1> QED
  BY <1>1 DEF AccountsOK, Note, Remembered

(* Steps that write a message. *)
LEMMA WriteType ==
  ASSUME MessagesTypeOK,
         \/ \E u \in Users, text \in Texts, reply \in Replies :
              \/ Speak(u, text, reply)
              \/ \E answer \in Texts : Ask(u, text, reply, answer)
         \/ \E d \in donations, text \in Texts : DonationAccepted(d, text)
  PROVE  MessagesTypeOK'
<1> USE DEF modes, failures
<1>1. ASSUME NEW u \in Users, NEW text \in Texts, NEW reply \in Replies, Speak(u, text, reply)
      PROVE  MessagesTypeOK'
  <2>1. ScreensOK'
    BY <1>1, SpeakGrows, PublishType
  <2>2. /\ last' \in [Users -> [text : Texts \cup {NoText}, time : 0 .. now]]
        /\ unnoted' \subseteq Users
    BY <1>1, NoteType, TypeParts DEF Speak
  <2>3. AccountsOK'
    BY <1>1, <2>2, TypeParts DEF Speak, AccountsOK
  <2> QED
    BY <2>1, <2>3 DEF MessagesTypeOK, ScreensOK, AccountsOK
<1>2. ASSUME NEW u \in Users, NEW text \in Texts, NEW reply \in Replies, NEW answer \in Texts,
             Ask(u, text, reply, answer)
      PROVE  MessagesTypeOK'
  <2>1. ScreensOK'
    BY <1>2, AskGrows, PublishType
  <2>2. /\ last' \in [Users -> [text : Texts \cup {NoText}, time : 0 .. now]]
        /\ unnoted' \subseteq Users
    BY <1>2, NoteType, TypeParts DEF Ask
  <2>3. AccountsOK'
    BY <1>2, <2>2, TypeParts DEF Ask, AccountsOK
  <2> QED
    BY <2>1, <2>3 DEF MessagesTypeOK, ScreensOK, AccountsOK
<1>3. ASSUME NEW d \in donations, NEW text \in Texts, DonationAccepted(d, text)
      PROVE  MessagesTypeOK'
  <2>1. ScreensOK'
    BY <1>3, DonationGrows, PublishType
  <2>2. AccountsOK'
    BY <1>3, TypeParts DEF DonationAccepted, AccountsOK
  <2> QED
    BY <2>1, <2>2 DEF MessagesTypeOK, ScreensOK, AccountsOK
<1> QED
  BY <1>1, <1>2, <1>3

(* Commands of a moderator. *)
LEMMA ModerateType ==
  ASSUME MessagesTypeOK, NEW m \in Users, Moderate(m)
  PROVE  MessagesTypeOK'
<1> USE DEF modes, failures
<1>1. ASSUME NEW u \in Users, NEW until \in BanEnds, Ban(m, u, until)
      PROVE  MessagesTypeOK'
  <2>1. ScreensOK'
    BY <1>1, DropType DEF Ban
  <2>2. bannedUntil' \in [Users -> Int]
    BY <1>1, BanEndType DEF Ban, Bans, MessagesTypeOK
  <2>3. torn' \subseteq Users
    BY <1>1 DEF Ban, MessagesTypeOK
  <2>4. AccountsOK'
    BY <1>1, <2>2, <2>3 DEF Ban, AccountsOK, MessagesTypeOK
  <2> QED
    BY <2>1, <2>4 DEF MessagesTypeOK, ScreensOK, AccountsOK
<1>2. ASSUME NEW u \in Users, NEW until \in BanEnds, BanTorn(m, u, until)
      PROVE  MessagesTypeOK'
  <2>1. bannedUntil' \in [Users -> Int]
    BY <1>2, BanEndType DEF BanTorn, Bans, MessagesTypeOK
  <2> QED
    BY <1>2, <2>1 DEF BanTorn, MessagesTypeOK, Ids, screens
<1>3. ASSUME NEW u \in Users, Unban(m, u)
      PROVE  MessagesTypeOK'
  BY <1>3 DEF Unban, MessagesTypeOK, Ids, screens
<1>4. ASSUME NEW u \in Users, NEW level \in {USER, MOD}, SetAuth(m, u, level)
      PROVE  MessagesTypeOK'
  BY <1>4 DEF SetAuth, MessagesTypeOK, Ids, screens
<1>5. ASSUME NEW ids \in SUBSET (1 .. MaxMessages), DelMsg(m, ids)
      PROVE  MessagesTypeOK'
  <2>1. ScreensOK'
    BY <1>5, DropType DEF DelMsg
  <2>2. AccountsOK'
    BY <1>5 DEF DelMsg, AccountsOK, MessagesTypeOK
  <2> QED
    BY <2>1, <2>2 DEF MessagesTypeOK, ScreensOK, AccountsOK
<1>6. ASSUME NEW n \in ModeValues, SlowMode(m, n) \/ FollowMode(m, n)
      PROVE  MessagesTypeOK'
  <2>1. n \in Int
    BY MessagesAssumption DEF MessagesAssumption
  <2>2. {slowMode', followMode'} \subseteq 0 .. 2 * LongHalf - 1
    BY <1>6, <2>1, ReadType, ModeType DEF SlowMode, FollowMode, MessagesTypeOK
  <2>3. {Signed(slowMode'), Signed(followMode')} \subseteq Int32
    BY <1>6, <2>1, ReadType, ModeType DEF SlowMode, FollowMode, MessagesTypeOK
  <2> QED
    BY <1>6, <2>2, <2>3 DEF SlowMode, FollowMode, MessagesTypeOK, Ids, tables, screens
<1> QED
  BY <1>1, <1>2, <1>3, <1>4, <1>5, <1>6 DEF Moderate

LEMMA SelectionsVisible ==
  ASSUME NEW lastId, NEW selected \in Selections(lastId)
  PROVE  selected \subseteq Visible
BY DEF Selections

(* What one connection does. *)
LEMMA HelloParts ==
  ASSUME NEW c \in Conns, NEW lastId \in Nat, Hello(c, lastId)
  PROVE  \E S \in SUBSET Visible, f \in {0} \cup Ids :
           /\ ReachesTo(S, f)
           /\ shown' = [shown EXCEPT ![c] = @ \cup S]
           /\ floor' = [floor EXCEPT ![c] = IF c \in feed /\ @ < f THEN @ ELSE f]
<1>1. PICK selected \in Selections(lastId) :
        \E S \in (IF "author" \in Fails THEN SUBSET selected ELSE {selected}), f \in {0} \cup Ids :
          /\ ReachesTo(S, f)
          /\ shown' = [shown EXCEPT ![c] = @ \cup S]
          /\ floor' = [floor EXCEPT ![c] = IF c \in feed /\ @ < f THEN @ ELSE f]
  BY DEF Hello
<1>2. selected \subseteq Visible
  BY SelectionsVisible
<1>3. \A S \in (IF "author" \in Fails THEN SUBSET selected ELSE {selected}) : S \in SUBSET Visible
  BY <1>2
<1> QED
  BY <1>1, <1>3

LEMMA ConnectionType ==
  ASSUME MessagesTypeOK, NEW c \in Conns,
         SignIn(c) \/ Leave(c) \/ \E lastId \in 0 .. MaxMessages : Hello(c, lastId)
  PROVE  MessagesTypeOK'
<1>1. CASE SignIn(c)
  <2>1. Len(history) \in Nat
    BY DEF MessagesTypeOK
  <2> QED
    BY <1>1, <2>1 DEF SignIn, MessagesTypeOK, Ids, tables, modes, failures
<1>2. CASE Leave(c)
  BY <1>2 DEF Leave, MessagesTypeOK, Ids, tables, modes, failures
<1>3. ASSUME NEW lastId \in 0 .. MaxMessages, Hello(c, lastId)
      PROVE  MessagesTypeOK'
  <2>1. lastId \in Nat
    BY MessagesAssumption DEF MessagesAssumption
  <2>2. PICK S \in SUBSET Visible, f \in {0} \cup Ids :
          /\ shown' = [shown EXCEPT ![c] = @ \cup S]
          /\ floor' = [floor EXCEPT ![c] = IF c \in feed /\ @ < f THEN @ ELSE f]
    BY <1>3, <2>1, HelloParts
  <2>3. f \in Nat /\ S \subseteq Ids
    BY DEF Ids, Visible, MessagesTypeOK
  <2>4. history' = history
    BY <1>3 DEF Hello, tables
  <2>5. /\ shown' \in [Conns -> SUBSET (Ids' \cup {0})]
        /\ floor' \in [Conns -> Nat] /\ unrepaired' \subseteq Ids'
    BY <1>3, <2>2, <2>3, <2>4 DEF Hello, MessagesTypeOK, Ids, failures
  <2> QED
    BY <1>3, <2>5 DEF Hello, MessagesTypeOK, tables, modes, failures
<1> QED
  BY <1>1, <1>2, <1>3

LEMMA TypeStep ==
  ASSUME MessagesTypeOK, [MessagesNext]_messagesVars
  PROVE  MessagesTypeOK'
<1>1. ASSUME NEW u \in Users, Donate(u)
      PROVE  MessagesTypeOK'
  BY <1>1 DEF Donate, MessagesTypeOK, Ids, tables, modes, screens, failures
<1>2. ASSUME NEW d \in donations, DonationRejected(d)
      PROVE  MessagesTypeOK'
  BY <1>2 DEF DonationRejected, MessagesTypeOK, Ids, tables, modes, screens, failures
<1>3. CASE Tick
  <2>1. now' \in StartTime .. MaxTime /\ 0 .. now \subseteq 0 .. now'
    BY <1>3, MessagesAssumption DEF Tick, MessagesTypeOK, MessagesAssumption
  <2>2. /\ createdAt \in [Users -> 0 .. now']
        /\ last \in [Users -> [text : Texts \cup {NoText}, time : 0 .. now']]
    BY <2>1 DEF MessagesTypeOK
  <2> QED
    BY <1>3, <2>1, <2>2 DEF Tick, MessagesTypeOK, Ids, tables, modes, screens, failures
<1>4. CASE Restart
  BY <1>4, DefaultType DEF Restart, MessagesTypeOK, Ids, tables, failures
<1>5. CASE UNCHANGED messagesVars
  BY <1>5 DEF messagesVars, MessagesTypeOK, Ids, tables, modes, screens, failures
<1> QED
  BY <1>1, <1>2, <1>3, <1>4, <1>5, WriteType, ModerateType, ConnectionType DEF MessagesNext

-----------------------------------------------------------------------------
(* Invariants that hold whatever fails.                                    *)

(* How the table and the users change, for the properties about them. *)
LEMMA TableSteps ==
  ASSUME MessagesTypeOK, [MessagesNext]_messagesVars
  PROVE  \/ \E u \in Users : /\ ~Banned(u) /\ Grown(history', u, auth[u], FALSE)
                             /\ UNCHANGED <<now, auth, bannedUntil, donations, torn>>
         \/ \E d \in donations : /\ Grown(history', d.user, d.level, TRUE)
                                 /\ donations' \subseteq donations
                                 /\ UNCHANGED <<now, auth, bannedUntil, torn>>
         \/ \E m \in Users : Moderate(m)
         \/ \E u \in Users : Donate(u)
         \/ Tick
         \/ /\ donations' \subseteq donations
            /\ UNCHANGED <<now, history, auth, bannedUntil, torn>>
<1> USE DEF modes, failures
<1>1. ASSUME NEW u \in Users, NEW text \in Texts, NEW reply \in Replies, Speak(u, text, reply)
      PROVE  /\ ~Banned(u) /\ Grown(history', u, auth[u], FALSE)
             /\ UNCHANGED <<now, auth, bannedUntil, donations, torn>>
  BY <1>1, SpeakGrows DEF Speak
<1>2. ASSUME NEW u \in Users, NEW text \in Texts, NEW reply \in Replies, NEW answer \in Texts,
             Ask(u, text, reply, answer)
      PROVE  /\ ~Banned(u) /\ Grown(history', u, auth[u], FALSE)
             /\ UNCHANGED <<now, auth, bannedUntil, donations, torn>>
  BY <1>2, AskGrows DEF Ask
<1>3. ASSUME NEW d \in donations, NEW text \in Texts, DonationAccepted(d, text)
      PROVE  /\ Grown(history', d.user, d.level, TRUE) /\ donations' \subseteq donations
             /\ UNCHANGED <<now, auth, bannedUntil, torn>>
  BY <1>3, DonationGrows DEF DonationAccepted
<1>4. ASSUME \/ \E d \in donations : DonationRejected(d)
             \/ \E c \in Conns : SignIn(c) \/ Leave(c) \/ \E lastId \in 0 .. MaxMessages : Hello(c, lastId)
             \/ Restart
             \/ UNCHANGED messagesVars
      PROVE  /\ donations' \subseteq donations
             /\ UNCHANGED <<now, history, auth, bannedUntil, torn>>
  BY <1>4 DEF DonationRejected, SignIn, Leave, Hello, Restart, messagesVars, tables
<1> QED
  BY <1>1, <1>2, <1>3, <1>4 DEF MessagesNext

LEMMA AdminsStep ==
  ASSUME MessagesTypeOK, AdminsImmune, [MessagesNext]_messagesVars
  PROVE  AdminsImmune'
<1> USE DEF MessagesTypeOK, AdminsImmune
<1>1. CASE UNCHANGED <<auth, bannedUntil>> /\ donations' \subseteq donations
  BY <1>1
<1>2. ASSUME NEW u \in Users, Donate(u)
      PROVE  AdminsImmune'
  BY <1>2 DEF Donate, tables
<1>3. CASE Tick
  BY <1>3 DEF Tick, tables
<1>4. ASSUME NEW m \in Users, NEW u \in Users, NEW until \in BanEnds,
             Ban(m, u, until) \/ BanTorn(m, u, until)
      PROVE  AdminsImmune'
  BY <1>4 DEF Ban, BanTorn, Bans
<1>5. ASSUME NEW m \in Users, NEW u \in Users, Unban(m, u)
      PROVE  AdminsImmune'
  BY <1>5 DEF Unban
<1>6. ASSUME NEW m \in Users, NEW u \in Users, NEW level \in {USER, MOD}, SetAuth(m, u, level)
      PROVE  AdminsImmune'
  BY <1>6 DEF SetAuth, USER, MOD, ADMIN
<1>7. ASSUME NEW m \in Users, NEW ids, DelMsg(m, ids)
      PROVE  AdminsImmune'
  BY <1>7 DEF DelMsg
<1>8. ASSUME NEW m \in Users, NEW n, SlowMode(m, n) \/ FollowMode(m, n)
      PROVE  AdminsImmune'
  BY <1>8 DEF SlowMode, FollowMode, tables
<1> QED
  BY <1>1, <1>2, <1>3, <1>4, <1>5, <1>6, <1>7, <1>8, TableSteps DEF Moderate

(* A message that the table gets, is of its author or of the bot. *)
LEMMA GrownSilence ==
  ASSUME MessagesTypeOK, BannedSilenced, NEW u, NEW level, NEW donated,
         Grown(history', u, level, donated), ~Banned(u) \/ donated,
         UNCHANGED <<now, bannedUntil, torn>>
  PROVE  BannedSilenced'
<1> SUFFICES ASSUME NEW v \in Users \ torn, Banned(v), NEW i \in Ids',
                    history'[i].user = v, ~history'[i].dropped
             PROVE  history'[i].donated
  BY DEF BannedSilenced, Banned, Written, Visible
<1>1. CASE i \in Ids
  <2>1. history'[i] = history[i]
    BY <1>1 DEF Grown
  <2> QED
    BY <1>1, <2>1 DEF BannedSilenced, Written, Visible
<1>2. CASE i \notin Ids
  <2>1. v # Bot
    BY MessagesAssumption DEF MessagesAssumption
  <2>2. v = u /\ history'[i].donated = donated
    BY <1>2, <2>1 DEF Grown, Ids
  <2> QED
    BY <2>2
<1> QED
  BY <1>1, <1>2

(* Dropping messages silences nobody less. *)
LEMMA DropSilence ==
  ASSUME MessagesTypeOK, NEW ids, NEW sent, DropMessages(ids, sent)
  PROVE  /\ \A v : Written(v)' = Written(v)
         /\ Visible' = Visible \ ids
         /\ \A i \in Ids : history'[i].donated = history[i].donated
<1>1. /\ Ids' = Ids
      /\ \A i \in Ids : /\ history'[i].user = history[i].user
                        /\ history'[i].donated = history[i].donated
                        /\ history'[i].dropped <=> history[i].dropped \/ i \in ids
  BY DroppedRows DEF MessagesTypeOK
<1> QED
  BY <1>1 DEF Written, Visible

LEMMA ModerateSilence ==
  ASSUME MessagesTypeOK, BannedSilenced, NEW m \in Users, Moderate(m)
  PROVE  BannedSilenced'
<1>1. ASSUME NEW u \in Users, NEW until, Ban(m, u, until)
      PROVE  BannedSilenced'
  <2> SUFFICES ASSUME NEW v \in Users \ torn', Banned(v)', NEW i \in Written(v)' \cap Visible'
               PROVE  history'[i].donated
    BY DEF BannedSilenced
  <2>1. now' = now
    BY <1>1 DEF Ban
  <2>2. CASE DropMessages(Written(u), Written(u) \cap Visible) /\ torn' = torn \ {u}
    <3>1. v # u
      BY <2>2, DropSilence DEF Written
    <3>2. v \notin torn /\ Banned(v)
      BY <1>1, <2>1, <2>2, <3>1 DEF Ban, Bans, Banned, MessagesTypeOK
    <3>3. i \in Written(v) \cap Visible /\ history'[i].donated = history[i].donated
      BY <2>2, DropSilence DEF Visible, Ids
    <3> QED
      BY <3>2, <3>3 DEF BannedSilenced
  <2>3. CASE DropMessages({}, Written(u) \cap Visible) /\ torn' = torn \cup {u}
    <3>1. v # u /\ v \notin torn /\ Banned(v)
      BY <1>1, <2>1, <2>3 DEF Ban, Bans, Banned, MessagesTypeOK
    <3>2. i \in Written(v) \cap Visible /\ history'[i].donated = history[i].donated
      BY <2>3, DropSilence DEF Visible, Ids
    <3> QED
      BY <3>1, <3>2 DEF BannedSilenced
  <2> QED
    BY <1>1, <2>2, <2>3 DEF Ban
<1>2. ASSUME NEW u \in Users, NEW until, BanTorn(m, u, until)
      PROVE  BannedSilenced'
  BY <1>2 DEF BanTorn, Bans, BannedSilenced, Banned, Written, Visible, Ids, MessagesTypeOK
<1>3. ASSUME NEW u \in Users, Unban(m, u)
      PROVE  BannedSilenced'
  <2>1. ~Banned(u)' /\ \A v \in Users \ {u} : Banned(v)' <=> Banned(v)
    <3>1. now \in Nat
      BY MessagesAssumption DEF MessagesTypeOK, MessagesAssumption
    <3> QED
      BY <1>3, <3>1 DEF Unban, Banned, MessagesTypeOK
  <2> QED
    BY <1>3, <2>1 DEF Unban, BannedSilenced, Written, Visible, Ids
<1>4. ASSUME NEW ids, DelMsg(m, ids)
      PROVE  BannedSilenced'
  <2>1. PICK dropped : DropMessages(dropped, ids)
    BY <1>4 DEF DelMsg
  <2>2. /\ \A v : Written(v)' = Written(v)
        /\ Visible' = Visible \ dropped
        /\ \A i \in Ids : history'[i].donated = history[i].donated
    BY <2>1, DropSilence
  <2> QED
    BY <1>4, <2>2 DEF DelMsg, BannedSilenced, Banned, Visible, failures
<1>5. ASSUME NEW u, NEW level, SetAuth(m, u, level)
      PROVE  BannedSilenced'
  BY <1>5 DEF SetAuth, BannedSilenced, Banned, Written, Visible, Ids, failures
<1>6. ASSUME NEW n, SlowMode(m, n) \/ FollowMode(m, n)
      PROVE  BannedSilenced'
  BY <1>6 DEF SlowMode, FollowMode, tables, BannedSilenced, Banned, Written, Visible, Ids, failures
<1> QED
  BY <1>1, <1>2, <1>3, <1>4, <1>5, <1>6 DEF Moderate

LEMMA SilenceStep ==
  ASSUME MessagesTypeOK, BannedSilenced, [MessagesNext]_messagesVars
  PROVE  BannedSilenced'
<1>1. CASE Tick
  <2>1. now \in Int /\ now' = now + 1
    BY <1>1, MessagesAssumption DEF Tick, MessagesTypeOK, MessagesAssumption
  <2>2. \A v \in Users : Banned(v)' => Banned(v)
    BY <1>1, <2>1 DEF Tick, tables, Banned, MessagesTypeOK
  <2> QED
    BY <1>1, <2>2 DEF Tick, tables, BannedSilenced, Written, Visible, Ids, failures
<1>2. ASSUME NEW u \in Users, Donate(u)
      PROVE  BannedSilenced'
  BY <1>2 DEF Donate, tables, BannedSilenced, Banned, Written, Visible, Ids, failures
<1>3. CASE UNCHANGED <<now, history, auth, bannedUntil, torn>>
  BY <1>3 DEF BannedSilenced, Banned, Written, Visible, Ids
<1> QED
  BY <1>1, <1>2, <1>3, GrownSilence, ModerateSilence, TableSteps

-----------------------------------------------------------------------------
(* The screens.                                                            *)

LEMMA PublishSync ==
  ASSUME MessagesTypeOK, FeedInSync, NEW lost \in SUBSET {0}, Publish(history', lost),
         NEW u, NEW level, NEW donated, Grown(history', u, level, donated)
  PROVE  FeedInSync'
<1>1. Visible' = Visible \cup NewIds(history')
  BY DEF Grown, Visible, NewIds, Ids, MessagesTypeOK
<1>2. ASSUME NEW c \in feed \ stale'
      PROVE  /\ shown'[c] \subseteq Visible'
             /\ {i \in Visible' : i > floor[c]} \subseteq shown'[c]
  <2>1. lost = {} /\ c \in feed \ stale /\ c \in Conns
    BY <1>2 DEF Publish, MessagesTypeOK
  <2>2. shown'[c] = shown[c] \cup NewIds(history')
    BY <2>1 DEF Publish
  <2> QED
    BY <1>1, <2>1, <2>2 DEF FeedInSync
<1>3. \A c \in Conns \ feed : shown'[c] = {}
  BY DEF Publish, FeedInSync
<1> QED
  BY <1>2, <1>3 DEF FeedInSync, Publish

LEMMA DropSync ==
  ASSUME MessagesTypeOK, FeedInSync, NEW ids, NEW sent, DropMessages(ids, sent),
         ids \cap Visible \subseteq sent
  PROVE  FeedInSync'
<1>1. Visible' = Visible \ ids
  BY DropSilence
<1>2. ASSUME NEW c \in feed \ stale'
      PROVE  /\ shown'[c] \subseteq Visible'
             /\ {i \in Visible' : i > floor[c]} \subseteq shown'[c]
  <2>1. sent \cap Visible \subseteq ids /\ c \in feed \ stale /\ c \in Conns
    BY <1>2 DEF DropMessages, MessagesTypeOK
  <2>2. shown'[c] = shown[c] \ sent
    BY <2>1 DEF DropMessages
  <2> QED
    BY <1>1, <2>1, <2>2 DEF FeedInSync
<1>3. \A c \in Conns \ feed : shown'[c] = {}
  BY DEF DropMessages, FeedInSync
<1> QED
  BY <1>2, <1>3 DEF FeedInSync, DropMessages

LEMMA HelloSync ==
  ASSUME MessagesTypeOK, FeedInSync, NEW c \in Conns, NEW lastId \in Nat, Hello(c, lastId)
  PROVE  FeedInSync'
<1>1. PICK S \in SUBSET Visible, f \in {0} \cup Ids :
        /\ ReachesTo(S, f)
        /\ shown' = [shown EXCEPT ![c] = @ \cup S]
        /\ floor' = [floor EXCEPT ![c] = IF c \in feed /\ @ < f THEN @ ELSE f]
  BY HelloParts
<1>2. feed' = feed \cup {c} /\ stale' = stale /\ Visible' = Visible
  BY DEF Hello, tables, Visible, Ids
<1>3. ASSUME c \notin stale
      PROVE  /\ shown'[c] \subseteq Visible
             /\ {i \in Visible : i > floor'[c]} \subseteq shown'[c]
  <2>1. shown'[c] = shown[c] \cup S /\ shown[c] \subseteq Visible
    BY <1>1, <1>3 DEF FeedInSync, MessagesTypeOK
  <2>2. f \in Int /\ \A i \in Visible : i \in Int
    BY DEF Visible, Ids, MessagesTypeOK
  <2>3. CASE c \in feed /\ floor[c] < f
    BY <1>1, <1>3, <2>1, <2>3 DEF FeedInSync, MessagesTypeOK
  <2>4. CASE ~(c \in feed /\ floor[c] < f)
    <3>1. floor'[c] = f
      BY <1>1, <2>4 DEF MessagesTypeOK
    <3>2. {i \in Visible : i > f} \subseteq S
      BY <1>1, <2>2 DEF ReachesTo
    <3> QED
      BY <2>1, <3>1, <3>2
  <2> QED
    BY <2>1, <2>3, <2>4
<1>4. \A d \in Conns \ {c} : shown'[d] = shown[d] /\ floor'[d] = floor[d]
  BY <1>1 DEF MessagesTypeOK
<1>5. feed \subseteq Conns
  BY DEF MessagesTypeOK
<1> QED
  BY <1>2, <1>3, <1>4, <1>5 DEF FeedInSync

LEMMA ModerateSync ==
  ASSUME MessagesTypeOK, FeedInSync, NEW m \in Users, Moderate(m)
  PROVE  FeedInSync'
<1>1. ASSUME NEW u, NEW until, Ban(m, u, until)
      PROVE  FeedInSync'
  BY <1>1, DropSync DEF Ban
<1>2. ASSUME NEW ids, DelMsg(m, ids)
      PROVE  FeedInSync'
  <2>1. PICK dropped \in SUBSET ids : DropMessages(dropped, ids)
    BY <1>2 DEF DelMsg
  <2> QED
    BY <2>1, DropSync
<1>3. CASE UNCHANGED <<history, screens>>
  BY <1>3 DEF screens, FeedInSync, Visible, Ids
<1>4. ASSUME NEW u, NEW until, NEW level, NEW n,
             \/ BanTorn(m, u, until) \/ Unban(m, u) \/ SetAuth(m, u, level)
             \/ SlowMode(m, n) \/ FollowMode(m, n)
      PROVE  UNCHANGED <<history, screens>>
  BY <1>4 DEF BanTorn, Unban, SetAuth, SlowMode, FollowMode, tables, screens
<1> QED
  BY <1>1, <1>2, <1>3, <1>4 DEF Moderate

LEMMA SyncStep ==
  ASSUME MessagesTypeOK, FeedInSync, [MessagesNext]_messagesVars
  PROVE  FeedInSync'
<1>1. ASSUME NEW u \in Users, NEW text \in Texts, NEW reply \in Replies,
             Speak(u, text, reply) \/ \E answer \in Texts : Ask(u, text, reply, answer)
      PROVE  FeedInSync'
  BY <1>1, SpeakGrows, AskGrows, PublishSync
<1>2. ASSUME NEW d \in donations, NEW text \in Texts, DonationAccepted(d, text)
      PROVE  FeedInSync'
  BY <1>2, DonationGrows, PublishSync
<1>3. ASSUME NEW c \in Conns, SignIn(c)
      PROVE  FeedInSync'
  <2>1. Visible' = Visible /\ \A i \in Visible : i <= Len(history)
    BY <1>3 DEF SignIn, tables, Visible, Ids, MessagesTypeOK
  <2>2. floor'[c] = Len(history) /\ shown'[c] = {}
        /\ \A d \in Conns \ {c} : floor'[d] = floor[d] /\ shown'[d] = shown[d]
    BY <1>3 DEF SignIn, FeedInSync, MessagesTypeOK
  <2>3. \A i \in Visible : i \in Int
    BY DEF Visible, Ids, MessagesTypeOK
  <2>4. {i \in Visible : i > Len(history)} = {}
    BY <2>1, <2>3 DEF MessagesTypeOK
  <2> QED
    BY <1>3, <2>1, <2>2, <2>4 DEF SignIn, FeedInSync, MessagesTypeOK
<1>4. ASSUME NEW c \in Conns, Leave(c)
      PROVE  FeedInSync'
  BY <1>4 DEF Leave, tables, FeedInSync, Visible, Ids, MessagesTypeOK
<1>5. ASSUME NEW c \in Conns, NEW lastId \in 0 .. MaxMessages, Hello(c, lastId)
      PROVE  FeedInSync'
  <2>1. lastId \in Nat
    BY MessagesAssumption DEF MessagesAssumption
  <2> QED
    BY <1>5, <2>1, HelloSync
<1>6. CASE Restart
  BY <1>6 DEF Restart, FeedInSync
<1>7. CASE UNCHANGED <<history, screens>>
  BY <1>7 DEF screens, FeedInSync, Visible, Ids
<1>8. ASSUME \/ \E u \in Users : Donate(u)
             \/ \E d \in donations : DonationRejected(d)
             \/ Tick
             \/ UNCHANGED messagesVars
      PROVE  UNCHANGED <<history, screens>>
  BY <1>8 DEF Donate, DonationRejected, Tick, messagesVars, tables, screens
<1> QED
  BY <1>1, <1>2, <1>3, <1>4, <1>5, <1>6, <1>7, <1>8, ModerateSync DEF MessagesNext

-----------------------------------------------------------------------------
(* Modes and replies.                                                      *)

(* The types are enough for the modes to mean what was entered. *)
LEMMA ModesMean == MessagesTypeOK => ModesAsEntered
<1> SUFFICES ASSUME MessagesTypeOK, NEW u \in Users
               PROVE  /\ HeldBySlowMode(last[u].time, slowMode, now)
                           <=> last[u].time + Signed(slowMode) > now
                      /\ HeldByFollowMode(createdAt[u], followMode, now)
                           <=> createdAt[u] + Signed(followMode) > now
  BY DEF ModesAsEntered
<1>1. /\ now \in 0 .. MaxTime /\ MaxTime \in Nat /\ IntHalf \in Nat /\ LongHalf \in Nat
      /\ MaxTime + IntHalf < LongHalf
  <2>1. /\ {DuplicateSlowMode, StartTime, MaxTime, IntHalf, LongHalf} \subseteq Nat
        /\ MaxTime + DuplicateSlowMode + IntHalf < LongHalf
    BY MessagesAssumption, DurationsAssumption DEF MessagesAssumption, DurationsAssumption
  <2>2. now \in StartTime .. MaxTime
    BY DEF MessagesTypeOK
  <2> QED
    BY <2>1, <2>2
<1>2. last[u].time \in 0 .. now /\ createdAt[u] \in 0 .. now
  BY DEF MessagesTypeOK
<1>3. Int32 \subseteq -IntHalf .. LongHalf - MaxTime - 1
  BY <1>1 DEF Int32
<1>4. /\ {slowMode, followMode} \subseteq 0 .. 2 * LongHalf - 1
      /\ {Signed(slowMode), Signed(followMode)} \subseteq -IntHalf .. LongHalf - MaxTime - 1
  BY <1>3 DEF MessagesTypeOK
<1>5. /\ last[u].time \in 0 .. MaxTime /\ now \in last[u].time .. MaxTime
      /\ createdAt[u] \in 0 .. MaxTime /\ now \in createdAt[u] .. MaxTime
      /\ MaxTime + IntHalf < LongHalf
  BY <1>1, <1>2
<1>6. HeldBySlowMode(last[u].time, slowMode, now) <=> last[u].time + Signed(slowMode) > now
  BY <1>4, <1>5, HeldAsEntered
<1>7. HeldByFollowMode(createdAt[u], followMode, now) <=> createdAt[u] + Signed(followMode) > now
  BY <1>4, <1>5, HeldAsEntered
<1> QED
  BY <1>6, <1>7

(* Every row of h that is shown has a good reply id, but those in bad. *)
PointsBack(h, bad) == \A i \in DOMAIN h \ bad : ~h[i].dropped => h[i].reply \in 0 .. i - 1

LEMMA AppendPointsBack ==
  ASSUME NEW h \in Seq(Rows), NEW bad, PointsBack(h, bad), NEW r \in Rows, NEW more,
         Len(h) + 1 \notin more => (~r.dropped => r.reply \in 0 .. Len(h))
  PROVE  Append(h, r) \in Seq(Rows) /\ PointsBack(Append(h, r), bad \cup more)
<1>1. /\ Append(h, r) \in Seq(Rows)
      /\ DOMAIN Append(h, r) = 1 .. Len(h) + 1 /\ DOMAIN h = 1 .. Len(h) /\ Len(h) \in Nat
      /\ Append(h, r)[Len(h) + 1] = r /\ \A i \in 1 .. Len(h) : Append(h, r)[i] = h[i]
  OBVIOUS
<1>2. ASSUME NEW i \in DOMAIN Append(h, r) \ (bad \cup more), ~Append(h, r)[i].dropped
      PROVE  Append(h, r)[i].reply \in 0 .. i - 1
  <2>1. CASE i = Len(h) + 1
    BY <1>1, <1>2, <2>1
  <2>2. CASE i # Len(h) + 1
    <3>1. i \in DOMAIN h \ bad /\ Append(h, r)[i] = h[i]
      BY <1>1, <2>2
    <3> QED
      BY <1>2, <3>1 DEF PointsBack
  <2> QED
    BY <2>1, <2>2
<1> QED
  BY <1>1, <1>2 DEF PointsBack

LEMMA OutcomePointsBack ==
  ASSUME NEW h \in Seq(Rows), NEW bad, PointsBack(h, bad), now \in Nat,
         NEW u \in Users \cup {Bot}, NEW text, NEW level \in Levels,
         NEW reply \in Int, NEW donated \in BOOLEAN,
         NEW o \in Outcomes(h, u, text, level, reply, donated)
  PROVE  o.table \in Seq(Rows) /\ PointsBack(o.table, bad \cup o.kept)
<1> DEFINE row == Row(Len(h) + 1, u, text, level, reply, donated)
<1>1. Len(h) \in Nat /\ Len(h) + 1 \in Nat
  OBVIOUS
<1>2. row \in Rows
  BY <1>1, RowsIn
<1>3. ~row.dropped => row.reply \in 0 .. Len(h)
  <2>1. /\ row.dropped = (text \in Blocked)
        /\ row.reply = IF text \notin Blocked /\ (reply < 0 \/ reply >= Len(h) + 1) THEN 0 ELSE reply
    BY DEF Row
  <2> HIDE DEF row
  <2>2. ~row.dropped => text \notin Blocked
    BY <2>1, Zenon
  <2>3. ~row.dropped => row.reply = IF reply < 0 \/ reply >= Len(h) + 1 THEN 0 ELSE reply
    BY <2>1, <2>2
  <2> QED
    BY <1>1, <2>3
<1> HIDE DEF row
<1>4. CASE o.table = h
  BY <1>4 DEF PointsBack
<1>5. ASSUME NEW fails, "insert" \notin fails,
             o = Stored(h, u, text, level, reply, donated, fails)
      PROVE  o.table \in Seq(Rows) /\ PointsBack(o.table, bad \cup o.kept)
  <2> DEFINE dropped == row.dropped \/ "words" \in fails
             replied == IF dropped \/ "reply" \in fails THEN reply ELSE row.reply
             stored == [row EXCEPT !.dropped = dropped, !.reply = replied]
  <2>1. /\ o.table = Append(h, stored)
        /\ o.kept = IF dropped \/ replied = row.reply THEN {} ELSE {Len(h) + 1}
    BY <1>5 DEF Stored, row
  <2>2. dropped \in BOOLEAN /\ replied \in Int /\ (~dropped => ~row.dropped)
    BY <1>2 DEF Rows
  <2> HIDE DEF dropped, replied
  <2>3. stored \in Rows /\ (stored.dropped <=> dropped) /\ stored.reply = replied
    BY <1>2, <2>2 DEF Rows
  <2> HIDE DEF stored
  <2>4. Len(h) + 1 \notin o.kept => (~stored.dropped => stored.reply \in 0 .. Len(h))
    BY <1>3, <2>1, <2>2, <2>3
  <2>5. /\ Append(h, stored) \in Seq(Rows)
        /\ PointsBack(Append(h, stored), bad \cup o.kept)
    BY <2>3, <2>4, AppendPointsBack
  <2> QED
    BY <2>1, <2>5
<1>6. ASSUME NEW fails, "insert" \in fails,
             o = Stored(h, u, text, level, reply, donated, fails)
      PROVE  o.table = h
  BY <1>6 DEF Stored
<1>7. o = [table |-> h, lost |-> {}, kept |-> {}] => o.table = h
  OBVIOUS
<1> QED
  BY <1>4, <1>5, <1>6, <1>7 DEF Outcomes

LEMMA DropPointsBack ==
  ASSUME MessagesTypeOK, NEW bad, PointsBack(history, bad),
         NEW ids, NEW sent, DropMessages(ids, sent)
  PROVE  PointsBack(history', bad)
<1>1. /\ history' \in Seq(Rows) /\ Ids' = Ids
      /\ \A i \in Ids : /\ history'[i].reply = history[i].reply
                        /\ history'[i].dropped <=> history[i].dropped \/ i \in ids
  BY DroppedRows DEF MessagesTypeOK
<1> QED
  BY <1>1 DEF PointsBack, Ids

LEMMA RepliesStep ==
  ASSUME MessagesTypeOK, PointsBack(history, unrepaired), [MessagesNext]_messagesVars
  PROVE  PointsBack(history', unrepaired')
<1>1. history \in Seq(Rows) /\ now \in Nat /\ \A u \in Users : auth[u] \in Levels
  BY MessagesAssumption DEF MessagesTypeOK, MessagesAssumption, Levels
<1>2. MOD \in Levels /\ 0 \in Int /\ TRUE \in BOOLEAN /\ FALSE \in BOOLEAN
  BY DEF Levels
<1>3. ASSUME NEW u \in Users, NEW text \in Texts, NEW reply \in Replies, Speak(u, text, reply)
      PROVE  PointsBack(history', unrepaired')
  <2>1. PICK o \in Outcomes(history, u, text, auth[u], reply, FALSE) :
          Publish(o.table, o.lost) /\ unrepaired' = unrepaired \cup o.kept
    BY <1>3 DEF Speak
  <2>2. reply \in Int
    BY MessagesAssumption DEF MessagesAssumption
  <2>3. PointsBack(o.table, unrepaired \cup o.kept)
    BY <1>1, <1>2, <2>2, OutcomePointsBack, Zenon
  <2> QED
    BY <2>1, <2>3 DEF Publish
<1>4. ASSUME NEW u \in Users, NEW text \in Texts, NEW reply \in Replies, NEW answer \in Texts,
             Ask(u, text, reply, answer)
      PROVE  PointsBack(history', unrepaired')
  <2>1. PICK o \in Outcomes(history, u, text, auth[u], reply, FALSE) :
          \E a \in Outcomes(o.table, Bot, answer, MOD, 0, FALSE) :
            /\ Publish(a.table, o.lost \cup a.lost)
            /\ unrepaired' = unrepaired \cup o.kept \cup a.kept
    BY <1>4 DEF Ask
  <2>2. PICK a \in Outcomes(o.table, Bot, answer, MOD, 0, FALSE) :
          /\ Publish(a.table, o.lost \cup a.lost)
          /\ unrepaired' = unrepaired \cup o.kept \cup a.kept
    BY <2>1
  <2>3. reply \in Int
    BY MessagesAssumption DEF MessagesAssumption
  <2>4. o.table \in Seq(Rows) /\ PointsBack(o.table, unrepaired \cup o.kept)
    BY <1>1, <1>2, <2>3, OutcomePointsBack, Zenon
  <2>5. PointsBack(a.table, unrepaired \cup o.kept \cup a.kept)
    BY <1>1, <1>2, <2>4, OutcomePointsBack, Zenon
  <2> QED
    BY <2>2, <2>5 DEF Publish
<1>5. ASSUME NEW d \in donations, NEW text \in Texts, DonationAccepted(d, text)
      PROVE  PointsBack(history', unrepaired')
  <2>1. PICK o \in Outcomes(history, d.user, text, d.level, 0, TRUE) :
          Publish(o.table, o.lost) /\ unrepaired' = unrepaired \cup o.kept
    BY <1>5 DEF DonationAccepted
  <2>2. d.user \in Users \cup {Bot} /\ d.level \in Levels
    BY DEF MessagesTypeOK, Levels
  <2>3. PointsBack(o.table, unrepaired \cup o.kept)
    BY <1>1, <1>2, <2>2, OutcomePointsBack, Zenon
  <2> QED
    BY <2>1, <2>3 DEF Publish
<1>6. ASSUME NEW m \in Users, Moderate(m)
      PROVE  PointsBack(history', unrepaired')
  <2>1. /\ UNCHANGED unrepaired
        /\ (\E ids, sent : DropMessages(ids, sent)) \/ UNCHANGED history
    BY <1>6
    DEF Moderate, Ban, BanTorn, Unban, SetAuth, DelMsg, SlowMode, FollowMode, tables, failures
  <2> QED
    BY <2>1, DropPointsBack
<1>7. ASSUME \/ \E u \in Users : Donate(u)
             \/ \E d \in donations : DonationRejected(d)
             \/ \E c \in Conns : SignIn(c) \/ Leave(c) \/ \E lastId \in 0 .. MaxMessages : Hello(c, lastId)
             \/ Tick \/ Restart \/ UNCHANGED messagesVars
      PROVE  PointsBack(history', unrepaired')
  BY <1>7 DEF Donate, DonationRejected, SignIn, Leave, Hello, Tick, Restart, messagesVars, tables, failures
<1> QED
  BY <1>3, <1>4, <1>5, <1>6, <1>7 DEF MessagesNext

(* No message that the modes hold for is later than last_message_time. *)
Ordinary(r) == r.user \in Users /\ r.level < MOD /\ ~r.donated

LastIsLatest ==
  \A i \in Ids : Ordinary(history[i]) /\ history[i].user \notin unnoted =>
    history[i].time <= last[history[i].user].time

(* What a user writes, and what last_message_time is then. *)
Writes(u) ==
  /\ Grown(history', u, auth[u], FALSE)
  /\ \E text \in Texts : InTime(u, text) /\ Note(u, text)

LEMMA TimesType ==
  ASSUME MessagesTypeOK
  PROVE  \A i \in Ids : history[i].time \in Int
<1>1. \A i \in Ids : history[i] \in Rows
  BY DEF MessagesTypeOK, Ids
<1> QED
  BY <1>1 DEF Rows

(* The clock does not run backwards. *)
InThePast == \A i \in Ids : history[i].time <= now

LEMMA PastStep ==
  ASSUME MessagesTypeOK, InThePast, [MessagesNext]_messagesVars
  PROVE  InThePast'
<1>1. ASSUME NEW u, NEW level, NEW donated, Grown(history', u, level, donated), now' = now
      PROVE  InThePast'
  <2>1. now \in Int
    BY MessagesAssumption DEF MessagesTypeOK, MessagesAssumption
  <2> QED
    BY <1>1, <2>1 DEF Grown, InThePast, Ids
<1>2. ASSUME NEW m \in Users, Moderate(m)
      PROVE  InThePast'
  <2>1. now' = now /\ ((\E ids, sent : DropMessages(ids, sent)) \/ UNCHANGED history)
    BY <1>2 DEF Moderate, Ban, BanTorn, Unban, SetAuth, DelMsg, SlowMode, FollowMode, tables
  <2>2. Ids' = Ids /\ \A i \in Ids : history'[i].time = history[i].time
    BY <2>1, DroppedRows DEF MessagesTypeOK, Ids
  <2> QED
    BY <2>1, <2>2 DEF InThePast
<1>3. CASE Tick
  <2>1. now \in Int /\ now' = now + 1 /\ history' = history
    BY <1>3, MessagesAssumption DEF Tick, tables, MessagesTypeOK, MessagesAssumption
  <2> QED
    BY <2>1, TimesType DEF InThePast, Ids
<1>4. ASSUME UNCHANGED <<now, history>>
      PROVE  InThePast'
  BY <1>4 DEF InThePast, Ids
<1>5. ASSUME NEW u \in Users, Donate(u)
      PROVE  UNCHANGED <<now, history>>
  BY <1>5 DEF Donate, tables
<1> QED
  BY <1>1, <1>2, <1>3, <1>4, <1>5, TableSteps

LEMMA WritesStep ==
  ASSUME MessagesTypeOK, InThePast, LastIsLatest, NEW u \in Users, Writes(u)
  PROVE  AddedInTime /\ LastIsLatest'
<1>1. PICK text \in Texts : InTime(u, text) /\ Note(u, text)
  BY DEF Writes
<1>2. Bot \notin Users /\ now \in Int /\ auth[u] \in Levels
  BY MessagesAssumption DEF MessagesTypeOK, MessagesAssumption, Levels
<1>3. ASSUME NEW i \in Ids' \ Ids, Ordinary(history'[i])
      PROVE  history'[i].user = u /\ auth[u] < MOD /\ history'[i].time = now
  <2>1. Grown(history', u, auth[u], FALSE)
    BY DEF Writes
  <2>2. history'[i].user # Bot
    BY <1>2, <1>3 DEF Ordinary
  <2> QED
    BY <1>3, <2>1, <2>2 DEF Grown, Ids, Ordinary
<1>4. \A i \in Ids : i \in Ids' /\ history'[i] = history[i]
  BY DEF Writes, Grown, Ids, MessagesTypeOK
<1>5. AddedInTime
  <2> SUFFICES ASSUME NEW i \in Ids' \ Ids, Ordinary(history'[i])
               PROVE  /\ createdAt[u] + Signed(followMode) <= now
                      /\ u \notin unnoted =>
                           \A j \in Ids : history[j].user = u /\ Ordinary(history[j])
                             => history[j].time + Signed(slowMode) <= now
    BY <1>3 DEF AddedInTime, Ordinary, Ids
  <2>1. /\ ~HeldBySlowMode(last[u].time, slowMode, now)
        /\ ~HeldByFollowMode(createdAt[u], followMode, now)
    BY <1>1, <1>2, <1>3 DEF InTime, Levels, MOD, USER, ADMIN
  <2>2. ~(last[u].time + Signed(slowMode) > now) /\ ~(createdAt[u] + Signed(followMode) > now)
    BY <2>1, ModesMean DEF ModesAsEntered
  <2>3. /\ last[u].time \in Int /\ createdAt[u] \in Int
        /\ Signed(slowMode) \in Int /\ Signed(followMode) \in Int
    BY DEF MessagesTypeOK, Int32
  <2>4. \A j \in Ids : history[j].time \in Int
    BY TimesType
  <2>5. u \notin unnoted =>
          \A j \in Ids : history[j].user = u /\ Ordinary(history[j]) => history[j].time <= last[u].time
    BY DEF LastIsLatest
  <2>6. \A x, y, z \in Int : x <= y /\ ~(y + z > now) => x + z <= now
    BY <1>2
  <2> QED
    BY <1>2, <2>2, <2>3, <2>4, <2>5, <2>6
<1>6. \A v \in Users : last'[v].time \in Int /\ last[v].time \in Int /\ last[v].time <= last'[v].time
  <2>1. \A v \in Users : last[v].time \in Int /\ last[v].time <= now
    BY DEF MessagesTypeOK
  <2> QED
    BY <1>1, <1>2, <2>1 DEF Note, Remembered, MessagesTypeOK
<1>7. \A v \in Users \ {u} : last'[v] = last[v] /\ (v \in unnoted' <=> v \in unnoted)
  BY <1>1 DEF Note, Remembered, MessagesTypeOK
<1>8. \/ auth[u] >= MOD /\ (u \in unnoted' <=> u \in unnoted)
      \/ u \in unnoted'
      \/ last'[u].time = now
  BY <1>1 DEF Note, Remembered, MessagesTypeOK
<1>9. ASSUME NEW i \in Ids', Ordinary(history'[i]), history'[i].user \notin unnoted'
      PROVE  history'[i].time <= last'[history'[i].user].time
  <2>1. CASE i \in Ids
    <3>1. Ordinary(history[i]) /\ history'[i] = history[i] /\ history[i].user \in Users
      BY <1>4, <1>9, <2>1 DEF Ordinary
    <3>2. history[i].time \in Int /\ history[i].time <= now
      BY <2>1, TimesType DEF InThePast
    <3>3. CASE history[i].user \in unnoted
      <4>1. history[i].user = u /\ u \notin unnoted' /\ u \in unnoted
        BY <1>7, <1>9, <3>1, <3>3
      <4>2. last'[u].time = now
        BY <1>8, <4>1
      <4> QED
        BY <3>1, <3>2, <4>1, <4>2
    <3>4. CASE history[i].user \notin unnoted
      <4>1. history[i].time <= last[history[i].user].time
        BY <2>1, <3>1, <3>4 DEF LastIsLatest
      <4> QED
        BY <1>6, <3>1, <3>2, <4>1
    <3> QED
      BY <3>3, <3>4
  <2>2. CASE i \notin Ids
    <3>1. history'[i].user = u /\ auth[u] < MOD /\ history'[i].time = now
      BY <1>3, <1>9, <2>2
    <3>2. last'[u].time = now
      BY <1>2, <1>8, <1>9, <3>1 DEF Levels, USER, MOD, ADMIN
    <3> QED
      BY <1>2, <3>1, <3>2
  <2> QED
    BY <2>1, <2>2
<1> QED
  BY <1>5, <1>9 DEF LastIsLatest, Ordinary, Ids

(* A step that writes nothing the modes hold for. *)
LEMMA KeepsLatest ==
  ASSUME LastIsLatest, UNCHANGED <<history, last, unnoted>>
  PROVE  AddedInTime /\ LastIsLatest'
BY DEF LastIsLatest, AddedInTime, Ordinary, Ids

LEMMA DropKeepsLatest ==
  ASSUME MessagesTypeOK, LastIsLatest, NEW ids, NEW sent, DropMessages(ids, sent),
         UNCHANGED <<last, unnoted>>
  PROVE  AddedInTime /\ LastIsLatest'
<1>1. /\ Ids' = Ids
      /\ \A i \in Ids : /\ history'[i].user = history[i].user
                        /\ history'[i].time = history[i].time
                        /\ history'[i].level = history[i].level
                        /\ history'[i].donated = history[i].donated
  BY DroppedRows DEF MessagesTypeOK
<1>2. AddedInTime
  BY <1>1 DEF AddedInTime, Ids
<1> QED
  BY <1>1, <1>2 DEF LastIsLatest, Ordinary

LEMMA LatestStep ==
  ASSUME MessagesTypeOK, InThePast, LastIsLatest, [MessagesNext]_messagesVars
  PROVE  AddedInTime /\ LastIsLatest'
<1>1. ASSUME NEW u \in Users, NEW text \in Texts, NEW reply \in Replies,
             Speak(u, text, reply) \/ \E answer \in Texts : Ask(u, text, reply, answer)
      PROVE  AddedInTime /\ LastIsLatest'
  <2>1. Grown(history', u, auth[u], FALSE)
    BY <1>1, SpeakGrows, AskGrows
  <2>2. InTime(u, text) /\ Note(u, text)
    BY <1>1 DEF Speak, Ask
  <2> QED
    BY <2>1, <2>2, WritesStep DEF Writes
<1>2. ASSUME NEW d \in donations, NEW text \in Texts, DonationAccepted(d, text)
      PROVE  AddedInTime /\ LastIsLatest'
  <2>1. Grown(history', d.user, d.level, TRUE) /\ UNCHANGED <<last, unnoted>>
    BY <1>2, DonationGrows DEF DonationAccepted
  <2>2. \A i \in Ids' \ Ids : ~Ordinary(history'[i])
    BY <2>1, MessagesAssumption DEF Grown, Ordinary, Ids, MessagesAssumption
  <2>3. \A i \in Ids : history'[i] = history[i]
    BY <2>1 DEF Grown
  <2>4. AddedInTime
    BY <2>2 DEF AddedInTime, Ordinary, Ids
  <2> QED
    BY <2>1, <2>2, <2>3, <2>4 DEF LastIsLatest
<1>3. ASSUME NEW m \in Users, Moderate(m)
      PROVE  AddedInTime /\ LastIsLatest'
  <2>1. /\ UNCHANGED <<last, unnoted>>
        /\ (\E ids, sent : DropMessages(ids, sent)) \/ UNCHANGED history
    BY <1>3
    DEF Moderate, Ban, BanTorn, Unban, SetAuth, DelMsg, SlowMode, FollowMode, tables, failures
  <2> QED
    BY <2>1, DropKeepsLatest, KeepsLatest
<1>4. ASSUME \/ \E u \in Users : Donate(u)
             \/ \E d \in donations : DonationRejected(d)
             \/ \E c \in Conns : SignIn(c) \/ Leave(c) \/ \E lastId \in 0 .. MaxMessages : Hello(c, lastId)
             \/ Tick \/ Restart \/ UNCHANGED messagesVars
      PROVE  UNCHANGED <<history, last, unnoted>>
  BY <1>4 DEF Donate, DonationRejected, SignIn, Leave, Hello, Tick, Restart, messagesVars, tables, failures
<1> QED
  BY <1>1, <1>2, <1>3, <1>4, KeepsLatest DEF MessagesNext

-----------------------------------------------------------------------------
(* ModeratedLog.                                                           *)

Silenced == {u \in Users \ torn : Banned(u)}

View == [i \in Ids |-> [author |-> history[i].user, paid |-> history[i].donated,
                       dropped |-> history[i].dropped]]

(* A step of publish, in the name of a user who is not banned or for a     *)
(* donation, posts to the log.                                             *)
LEMMA GrownPosts ==
  ASSUME MessagesTypeOK, NEW u, NEW level, NEW donated,
         Grown(history', u, level, donated), ~Banned(u) \/ donated,
         UNCHANGED <<now, bannedUntil, torn>>
  PROVE  Log!Post
<1>1. Ids = 1 .. Len(history) /\ Ids' = 1 .. Len(history') /\ Len(history) \in Nat
      /\ Len(history') \in Nat /\ Len(history) <= Len(history')
  BY DEF MessagesTypeOK, Grown, Ids
<1>2. DOMAIN View = Ids /\ DOMAIN View' = Ids' /\ Ids \subseteq Ids'
  BY <1>1 DEF View
<1>3. Silenced' = Silenced
  BY DEF Silenced, Banned
<1>4. \A i \in Ids : View'[i] = View[i]
  BY <1>2 DEF View, Grown
<1>5. ASSUME NEW i \in Ids' \ Ids
      PROVE  /\ \A j \in Ids : j < i
             /\ View'[i].author \in Silenced => View'[i].paid \/ View'[i].dropped
  <2>1. \A j \in Ids : j < i
    BY <1>1, <1>5
  <2>2. ASSUME View'[i].author \in Silenced
        PROVE  View'[i].paid
    <3>1. View'[i].author = history'[i].user /\ View'[i].paid = history'[i].donated
      BY <1>5 DEF View
    <3>2. history'[i].user \in Users /\ Banned(history'[i].user)
      BY <2>2, <3>1 DEF Silenced
    <3>3. history'[i].user = u /\ history'[i].donated = donated
      BY <1>5, <3>2, MessagesAssumption DEF Grown, Ids, MessagesAssumption
    <3> QED
      BY <3>1, <3>2, <3>3
  <2> QED
    BY <2>1, <2>2
<1> QED
  BY <1>2, <1>3, <1>4, <1>5 DEF Log!Post, View, Silenced

(* A step that drops ids moderates the log, if they are all of those who   *)
(* are silenced by it.                                                     *)
LEMMA DropModerates ==
  ASSUME MessagesTypeOK, NEW ids, Ids' = Ids,
         \A i \in Ids : /\ history'[i].user = history[i].user
                        /\ history'[i].donated = history[i].donated
                        /\ history'[i].dropped <=> history[i].dropped \/ i \in ids,
         \A u \in Silenced' \ Silenced : Written(u) \subseteq ids
  PROVE  Log!Moderate
<1>1. DOMAIN View = Ids /\ DOMAIN View' = Ids
  BY DEF View
<1>2. Silenced' \subseteq Users
  BY DEF Silenced
<1>3. ASSUME NEW i \in Ids
      PROVE  /\ View'[i] = [View[i] EXCEPT !.dropped = View'[i].dropped]
             /\ View[i].dropped \/ View[i].author \in Silenced' \ Silenced => View'[i].dropped
  <2>1. View[i] = [author |-> history[i].user, paid |-> history[i].donated,
                   dropped |-> history[i].dropped]
    BY DEF View
  <2>2. View'[i] = [author |-> history[i].user, paid |-> history[i].donated,
                    dropped |-> history'[i].dropped]
    BY DEF View
  <2>3. View[i].author \in Silenced' \ Silenced => i \in ids
    BY <2>1 DEF Written
  <2>4. View'[i] = [View[i] EXCEPT !.dropped = View'[i].dropped]
    BY <2>1, <2>2
  <2>5. /\ View[i].dropped => history[i].dropped
        /\ history'[i].dropped => View'[i].dropped
    BY <2>1, <2>2
  <2> QED
    BY <2>3, <2>4, <2>5
<1>4. Log!Moderate <=>
        /\ DOMAIN View' = DOMAIN View
        /\ \A i \in DOMAIN View :
             /\ View'[i] = [View[i] EXCEPT !.dropped = View'[i].dropped]
             /\ View[i].dropped \/ View[i].author \in Silenced' \ Silenced => View'[i].dropped
        /\ Silenced' \subseteq Users
  BY DEF Log!Moderate, View, Silenced
<1> QED
  BY <1>1, <1>2, <1>3, <1>4, Zenon

LEMMA CallDrops ==
  ASSUME MessagesTypeOK, NEW ids, NEW sent, DropMessages(ids, sent),
         \A u \in Silenced' \ Silenced : Written(u) \subseteq ids
  PROVE  Log!Moderate
BY DroppedRows, DropModerates DEF MessagesTypeOK

(* Nobody is dropped, and nobody silenced. *)
LEMMA NothingDropped ==
  ASSUME MessagesTypeOK, UNCHANGED history, Silenced' \subseteq Silenced
  PROVE  Log!Moderate
<1>1. Ids' = Ids
  BY DEF Ids
<1> DEFINE none == {}
<1>2. /\ \A i \in Ids : /\ history'[i].user = history[i].user
                        /\ history'[i].donated = history[i].donated
                        /\ history'[i].dropped <=> history[i].dropped \/ i \in none
      /\ \A u \in Silenced' \ Silenced : Written(u) \subseteq none
  OBVIOUS
<1> HIDE DEF none
<1> QED
  BY <1>1, <1>2, DropModerates

LEMMA CommandModerates ==
  ASSUME MessagesTypeOK, NEW m \in Users, Moderate(m)
  PROVE  Log!Moderate
<1>1. ASSUME NEW u \in Users, NEW until, Ban(m, u, until)
      PROVE  Log!Moderate
  <2>1. \A v \in Users \ {u} : Banned(v)' <=> Banned(v)
    BY <1>1 DEF Ban, Bans, Banned, MessagesTypeOK
  <2>2. CASE DropMessages(Written(u), Written(u) \cap Visible) /\ torn' = torn \ {u}
    <3>1. Silenced' \ Silenced \subseteq {u}
      BY <2>1, <2>2 DEF Silenced
    <3> QED
      BY <2>2, <3>1, CallDrops
  <2>3. CASE DropMessages({}, Written(u) \cap Visible) /\ torn' = torn \cup {u}
    <3>1. Silenced' \ Silenced = {}
      BY <2>1, <2>3 DEF Silenced
    <3> QED
      BY <2>3, <3>1, CallDrops
  <2> QED
    BY <1>1, <2>2, <2>3 DEF Ban
<1>2. ASSUME NEW u \in Users, NEW until, BanTorn(m, u, until)
      PROVE  Log!Moderate
  <2>1. \A v \in Users \ {u} : Banned(v)' <=> Banned(v)
    BY <1>2 DEF BanTorn, Bans, Banned, MessagesTypeOK
  <2>2. Silenced' \subseteq Silenced /\ UNCHANGED history
    BY <1>2, <2>1 DEF BanTorn, Silenced
  <2> QED
    BY <2>2, NothingDropped
<1>3. ASSUME NEW u \in Users, Unban(m, u)
      PROVE  Log!Moderate
  <2>1. ~Banned(u)' /\ \A v \in Users \ {u} : Banned(v)' <=> Banned(v)
    <3>1. now \in Nat
      BY MessagesAssumption DEF MessagesTypeOK, MessagesAssumption
    <3> QED
      BY <1>3, <3>1 DEF Unban, Banned, MessagesTypeOK
  <2>2. Silenced' \subseteq Silenced /\ UNCHANGED history
    BY <1>3, <2>1 DEF Unban, Silenced
  <2> QED
    BY <2>2, NothingDropped
<1>4. ASSUME NEW ids, DelMsg(m, ids)
      PROVE  Log!Moderate
  <2>1. PICK dropped : DropMessages(dropped, ids)
    BY <1>4 DEF DelMsg
  <2>2. Silenced' = Silenced
    BY <1>4 DEF DelMsg, failures, Silenced, Banned
  <2> QED
    BY <2>1, <2>2, CallDrops
<1>5. ASSUME (\E u, level : SetAuth(m, u, level)) \/ \E n : SlowMode(m, n) \/ FollowMode(m, n)
      PROVE  Log!Moderate
  <2>1. UNCHANGED <<history, now, bannedUntil, torn>>
    BY <1>5 DEF SetAuth, SlowMode, FollowMode, tables, failures
  <2>2. Silenced' = Silenced
    BY <2>1 DEF Silenced, Banned
  <2> QED
    BY <2>1, <2>2, NothingDropped
<1> QED
  BY <1>1, <1>2, <1>3, <1>4, <1>5 DEF Moderate

LEMMA LogStep ==
  ASSUME MessagesTypeOK, [MessagesNext]_messagesVars
  PROVE  Log!Post \/ Log!Moderate
<1>1. CASE Tick
  <2>1. now \in Int /\ now' = now + 1 /\ UNCHANGED <<history, bannedUntil, torn>>
    BY <1>1, MessagesAssumption DEF Tick, MessagesTypeOK, MessagesAssumption, tables, failures
  <2>2. \A v \in Users : Banned(v)' => Banned(v)
    BY <2>1 DEF Banned, MessagesTypeOK
  <2>3. Silenced' \subseteq Silenced
    BY <2>1, <2>2 DEF Silenced
  <2> QED
    BY <2>1, <2>3, NothingDropped
<1>2. ASSUME UNCHANGED <<now, history, bannedUntil, torn>>
      PROVE  Log!Moderate
  <2>1. Silenced' = Silenced
    BY <1>2 DEF Silenced, Banned
  <2> QED
    BY <1>2, <2>1, NothingDropped
<1>3. ASSUME NEW u \in Users, Donate(u)
      PROVE  Log!Moderate
  BY <1>2, <1>3 DEF Donate, tables, failures
<1> QED
  BY <1>1, <1>2, <1>3, GrownPosts, CommandModerates, TableSteps

-----------------------------------------------------------------------------
(* The theorems.                                                           *)

MessagesInv == MessagesTypeOK /\ FeedInSync /\ BannedSilenced /\ AdminsImmune

LEMMA InitInv == MessagesInit => MessagesInv
<1> SUFFICES ASSUME MessagesInit PROVE MessagesInv
  OBVIOUS
<1>1. MessagesTypeOK
  BY InitType
<1>2. Visible = {} /\ \A u : Written(u) = {}
  BY DEF MessagesInit, Visible, Written, Ids
<1> QED
  BY <1>1, <1>2 DEF MessagesInit, MessagesInv, FeedInSync, BannedSilenced, AdminsImmune

(* The four hold together in every reachable state: each step keeps them,  *)
(* with the types of the users, the table and the screens (chatserver.cpp  *)
(* and the commands of moderators).                                        *)
THEOREM MessagesInvCorrect == MessagesSpec => []MessagesInv
<1>1. MessagesInv /\ [MessagesNext]_messagesVars => MessagesInv'
  BY TypeStep, SyncStep, SilenceStep, AdminsStep DEF MessagesInv
<1> QED
  BY InitInv, <1>1, PTL DEF MessagesSpec

(* The table, the users, the modes and the screens keep their types, with  *)
(* every mode a value that fits the int it was read as.                    *)
THEOREM MessagesTypeCorrect == MessagesSpec => []MessagesTypeOK
<1>1. MessagesInv => MessagesTypeOK
  BY DEF MessagesInv
<1> QED
  BY <1>1, MessagesInvCorrect, PTL

(* publish, dropMessages, ban and processHello keep every screen equal to  *)
(* the table, but those on which a statement failed.                       *)
THEOREM FeedCorrect == MessagesSpec => []FeedInSync
<1>1. MessagesInv => FeedInSync
  BY DEF MessagesInv
<1> QED
  BY <1>1, MessagesInvCorrect, PTL

(* ban() leaves no visible message of the user, and none comes after it,   *)
(* but for donations and unless the ban was half done (torn).              *)
THEOREM SilencedCorrect == MessagesSpec => []BannedSilenced
<1>1. MessagesInv => BannedSilenced
  BY DEF MessagesInv
<1> QED
  BY <1>1, MessagesInvCorrect, PTL

(* No command bans, demotes or makes an administrator.                     *)
THEOREM AdminsCorrect == MessagesSpec => []AdminsImmune
<1>1. MessagesInv => AdminsImmune
  BY DEF MessagesInv
<1> QED
  BY <1>1, MessagesInvCorrect, PTL

(* The unsigned arithmetic of slow mode and follow mode holds back exactly *)
(* who has to wait, for any integers that leave room for a mode after the  *)
(* time (MessagesAssumption).                                              *)
THEOREM ModesEnteredCorrect == MessagesSpec => []ModesAsEntered
BY ModesMean, MessagesTypeCorrect, PTL

(* A reply names an earlier message, except where the statement that       *)
(* repairs its id failed: publish stores no other bad reply id with a      *)
(* message that is shown.                                                  *)
THEOREM RepliesCorrect == MessagesSpec => []RepliesPointBack
<1>1. MessagesInit => PointsBack(history, unrepaired)
  BY DEF MessagesInit, PointsBack
<1>2. /\ MessagesTypeOK /\ PointsBack(history, unrepaired) /\ [MessagesNext]_messagesVars
      => PointsBack(history, unrepaired)'
  BY RepliesStep
<1>3. PointsBack(history, unrepaired) => RepliesPointBack
  BY DEF PointsBack, RepliesPointBack, Visible, Ids
<1> QED
  BY <1>1, <1>2, <1>3, MessagesTypeCorrect, PTL DEF MessagesSpec

(* Every step of a user who is no moderator keeps the distances that slow  *)
(* mode and follow mode ask for: last_message_time is never behind what    *)
(* that user wrote, but for users whose last message could not be noted.   *)
THEOREM ModesCorrect == MessagesSpec => ModesHonoured
<1>1. MessagesInit => InThePast /\ LastIsLatest
  BY DEF MessagesInit, InThePast, LastIsLatest, Ids
<1>2. MessagesTypeOK /\ InThePast /\ [MessagesNext]_messagesVars => InThePast'
  BY PastStep
<1>3. MessagesTypeOK /\ InThePast /\ LastIsLatest /\ [MessagesNext]_messagesVars
        => LastIsLatest' /\ [AddedInTime]_messagesVars
  BY LatestStep
<1> QED
  BY <1>1, <1>2, <1>3, MessagesTypeCorrect, PTL DEF MessagesSpec, ModesHonoured

(* ChatMessages implements ModeratedLog: publish, dropMessages, ban, unban *)
(* and what fails in them post to the log or moderate it, and no step does *)
(* anything else to it.                                                    *)
THEOREM LogCorrect == MessagesSpec => ImplementsLog
<1>1. MessagesInit => Log!LogInit
  <2> SUFFICES ASSUME MessagesInit PROVE Log!LogInit
    OBVIOUS
  <2>1. Ids = {}
    BY DEF MessagesInit, Ids
  <2>2. View = [i \in {} |-> {}]
    BY <2>1 DEF View
  <2>3. Silenced = {}
    BY MessagesAssumption DEF MessagesInit, Silenced, Banned, MessagesAssumption
  <2> QED
    BY <2>2, <2>3 DEF Log!LogInit, View, Silenced
<1>2. MessagesTypeOK /\ [MessagesNext]_messagesVars => [Log!Post \/ Log!Moderate]_(Log!logVars)
  BY LogStep
<1> QED
  BY <1>1, <1>2, MessagesTypeCorrect, PTL DEF MessagesSpec, ImplementsLog, Log!LogSpec

=============================================================================
