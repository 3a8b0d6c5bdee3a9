--------------------------- MODULE HostBansProofs ---------------------------
(***************************************************************************)
(* Proofs about HostBans, for any users, connections and addresses, any    *)
(* lengths of bans and any number of frames under way.                     *)
(*                                                                         *)
(* That no frame passes from a banned address rests on Listed: the list    *)
(* ipban goes through holds every connection that has signed in as the     *)
(* user.  That no other address is banned rests on OneUserEach: where      *)
(* nothing unruly happened, the lists hold nothing else.                   *)
(***************************************************************************)
EXTENDS HostBans, TLAPS

Covered == \A h \in Hosts : exile[h] <= hostUntil[h]

(* A connection is in the list of every user it has signed in as. *)
Listed == \A s \in Sockets : \A u \in accounts[s] : s \in idSocket[u]

HostInv == HostTypeOK /\ Listed /\ Covered

(* At an address where nothing unruly happened, the entries of the map and *)
(* the frames under way are those of the connection that is open there,    *)
(* and of one user.                                                        *)
OneUser(s) ==
  /\ \A u \in Users : s \in idSocket[u] <=> u \in accounts[s]
  /\ \A u \in accounts[s] : socketId[s] = u
  /\ \A p \in pending : p.socket = s => ~p.late /\ UsersOf(s) \subseteq {p.user}

OneUserEach == \A s \in Sockets \ soiled : OneUser(s)

-----------------------------------------------------------------------------
LEMMA MaxOfTwo ==
  ASSUME NEW a \in Int, NEW b \in Int
  PROVE  Max({a, b}) \in {a, b} /\ Max({a, b}) >= a /\ Max({a, b}) >= b
<1>1. CASE a >= b
  <2>1. a \in {a, b} /\ \A y \in {a, b} : a >= y
    BY <1>1
  <2> QED
    BY <2>1 DEF Max
<1>2. CASE ~(a >= b)
  <2>1. b \in {a, b} /\ \A y \in {a, b} : b >= y
    BY <1>2
  <2> QED
    BY <2>1 DEF Max
<1> QED
  BY <1>1, <1>2

(* Rows that are inserted take nothing back. *)
LEMMA RowsAdded ==
  ASSUME NEW table \in [Hosts -> Nat], NEW hs, NEW until \in Int
  PROVE  /\ WithRows(table, hs, until) \in [Hosts -> Nat]
         /\ \A h \in hs \cap Hosts : WithRows(table, hs, until)[h] = Max({table[h], until})
         /\ \A h \in Hosts \ hs : WithRows(table, hs, until)[h] = table[h]
         /\ \A h \in Hosts : WithRows(table, hs, until)[h] >= table[h]
<1>1. ASSUME NEW h \in Hosts
      PROVE  Max({table[h], until}) \in Nat /\ Max({table[h], until}) >= table[h]
  <2>1. table[h] \in Nat /\ table[h] \in Int
    OBVIOUS
  <2>2. Max({table[h], until}) \in {table[h], until} /\ Max({table[h], until}) >= table[h]
    BY <2>1, MaxOfTwo
  <2> QED
    BY <2>1, <2>2
<1> QED
  BY <1>1 DEF WithRows

(* Where more rows are inserted, later ends come of it. *)
LEMMA RowsMonotone ==
  ASSUME NEW t1 \in [Hosts -> Nat], NEW t2 \in [Hosts -> Nat], \A h \in Hosts : t1[h] <= t2[h],
         NEW hs1, NEW hs2, hs1 \cap Hosts \subseteq hs2, NEW until \in Int
  PROVE  \A h \in Hosts : WithRows(t1, hs1, until)[h] <= WithRows(t2, hs2, until)[h]
<1> SUFFICES ASSUME NEW h \in Hosts
             PROVE  WithRows(t1, hs1, until)[h] <= WithRows(t2, hs2, until)[h]
  OBVIOUS
<1>1. t1[h] \in Nat /\ t2[h] \in Nat /\ t1[h] <= t2[h]
  OBVIOUS
<1>2. /\ WithRows(t1, hs1, until)[h] \in Nat
      /\ WithRows(t2, hs2, until)[h] \in Nat /\ WithRows(t2, hs2, until)[h] >= t2[h]
  BY RowsAdded
<1>3. CASE h \in hs1
  <2>1. /\ WithRows(t1, hs1, until)[h] = Max({t1[h], until})
        /\ WithRows(t2, hs2, until)[h] = Max({t2[h], until})
    BY <1>3, RowsAdded
  <2>2. Max({t1[h], until}) \in {t1[h], until}
        /\ Max({t2[h], until}) >= t2[h] /\ Max({t2[h], until}) >= until
    <3>1. t1[h] \in Int /\ t2[h] \in Int
      BY <1>1
    <3> QED
      BY <3>1, MaxOfTwo
  <2> QED
    BY <1>1, <1>2, <2>1, <2>2
<1>4. CASE h \notin hs1
  <2>1. WithRows(t1, hs1, until)[h] = t1[h]
    BY <1>4, RowsAdded
  <2> QED
    BY <1>1, <1>2, <2>1
<1> QED
  BY <1>3, <1>4

-----------------------------------------------------------------------------
(* The map.                                                                *)

LEMMA InsertSocketMap ==
  ASSUME MapTypeOK, NEW u \in Users \cup {Anon}, NEW s \in Sockets, InsertSocket(u, s)
  PROVE  /\ MapTypeOK'
         /\ \A r \in Sockets, v \in Users :
              r \in idSocket'[v] <=> r \in idSocket[v] \/ (r = s /\ v = u)
         /\ \A r \in Sockets : socketId'[r] = IF r = s THEN u ELSE socketId[r]
<1>1. CASE u \in Users
  BY <1>1 DEF MapTypeOK, InsertSocket, Indexed
<1>2. CASE u = Anon
  BY <1>2, MapAssumption DEF MapAssumption, MapTypeOK, InsertSocket, Indexed
<1> QED
  BY <1>1, <1>2

LEMMA RemoveSocketMap ==
  ASSUME MapTypeOK, NEW s \in Sockets, RemoveSocket(s)
  PROVE  /\ MapTypeOK'
         /\ \A r \in Sockets, v \in Users :
              r \in idSocket'[v] <=> r \in idSocket[v] /\ ~(r = s /\ v = socketId[s])
         /\ \A r \in Sockets : socketId'[r] = IF r = s THEN NoEntry ELSE socketId[r]
<1>1. CASE socketId[s] \in Users
  BY <1>1 DEF MapTypeOK, RemoveSocket, Unindexed
<1>2. CASE socketId[s] \notin Users
  BY <1>2 DEF MapTypeOK, RemoveSocket, Unindexed
<1> QED
  BY <1>1, <1>2

(* What an answer says of the user it is for, if it is not late. *)
LEMMA AnsweredMap ==
  ASSUME HostTypeOK, NEW p \in pending, Answered(p)
  PROVE  /\ p.user \in Users /\ p.socket \in Sockets /\ p.late \in BOOLEAN
         /\ MapTypeOK'
         /\ \A r \in Sockets, v \in Users :
              r \in idSocket'[v] <=> r \in idSocket[v] \/ (r = p.socket /\ v = p.user)
         /\ \A r \in Sockets : socketId'[r] = IF r = p.socket THEN p.user ELSE socketId[r]
         /\ accounts' \in [Sockets -> SUBSET Users]
         /\ \A r \in Sockets :
              accounts'[r] = IF r = p.socket /\ ~p.late THEN accounts[r] \cup {p.user} ELSE accounts[r]
         /\ pending' = pending \ {p}
         /\ UNCHANGED <<now, host, soiled>> /\ Open' = Open
<1>1. /\ p.user \in Users /\ p.socket \in Sockets /\ p.late \in BOOLEAN
      /\ MapTypeOK /\ accounts \in [Sockets -> SUBSET Users]
  BY DEF HostTypeOK
<1>2. InsertSocket(p.user, p.socket)
  BY DEF Answered
<1>3. /\ MapTypeOK'
      /\ \A r \in Sockets, v \in Users :
           r \in idSocket'[v] <=> r \in idSocket[v] \/ (r = p.socket /\ v = p.user)
      /\ \A r \in Sockets : socketId'[r] = IF r = p.socket THEN p.user ELSE socketId[r]
  BY <1>1, <1>2, InsertSocketMap
<1>4. /\ accounts' \in [Sockets -> SUBSET Users]
      /\ \A r \in Sockets :
           accounts'[r] = IF r = p.socket /\ ~p.late THEN accounts[r] \cup {p.user} ELSE accounts[r]
  BY <1>1 DEF Answered
<1> QED
  BY <1>1, <1>3, <1>4 DEF Answered, Open

-----------------------------------------------------------------------------
(* The answers.                                                            *)

LEMMA BanEndType ==
  ASSUME HostTypeOK, NEW until \in BanEnds
  PROVE  until \in Int /\ now \in 0 .. MaxTime /\ now \in Int
BY HostAssumption DEF HostAssumption, HostTypeOK, BanEnds

LEMMA AnswerInv ==
  ASSUME HostInv, NEW p \in pending, Answer(p)
  PROVE  HostInv'
<1> USE DEF HostInv, HostTypeOK
<1>1. CASE Refused(p)
  BY <1>1 DEF Refused, mapVars, bans, MapTypeOK, Listed, Covered, Open
<1>2. ASSUME Answered(p)
      PROVE  /\ MapTypeOK' /\ Listed'
             /\ UNCHANGED <<now, host, soiled>>
             /\ pending' \subseteq [socket : Sockets, user : Users, late : BOOLEAN]
             /\ \A q \in pending' : q.socket \in Open' \/ q.late
             /\ accounts' \in [Sockets -> SUBSET Users]
             /\ \A s \in Sockets \ Open' : accounts'[s] = {}
             /\ soiled' \subseteq Sockets
  <2>1. /\ p.user \in Users /\ p.socket \in Sockets
        /\ MapTypeOK'
        /\ \A r \in Sockets, v \in Users :
             r \in idSocket'[v] <=> r \in idSocket[v] \/ (r = p.socket /\ v = p.user)
        /\ accounts' \in [Sockets -> SUBSET Users]
        /\ \A r \in Sockets :
             accounts'[r] = IF r = p.socket /\ ~p.late THEN accounts[r] \cup {p.user} ELSE accounts[r]
        /\ pending' = pending \ {p}
        /\ UNCHANGED <<now, host, soiled>> /\ Open' = Open
    <3> HIDE DEF HostInv, HostTypeOK
    <3>1. HostTypeOK
      BY DEF HostInv
    <3> QED
      BY <1>2, <3>1, AnsweredMap
  <2>2. Listed'
    BY <2>1 DEF Listed
  <2>3. \A s \in Sockets \ Open' : accounts'[s] = {}
    BY <2>1
  <2> QED
    BY <2>1, <2>2, <2>3
<1>3. CASE SignsIn(p) \/ \E u \in Users, until \in BanEnds : NotFound(p, u, until)
  BY <1>2, <1>3 DEF SignsIn, NotFound, Moderates, bans, Covered
<1>4. ASSUME NEW u \in Users, NEW until \in BanEnds, Bans(p, u, until)
      PROVE  /\ Answered(p)
             /\ bannedAt' \in [Users -> 0 .. MaxTime] /\ bannedUntil' \in [Users -> Int]
  BY <1>4, BanEndType DEF Bans, Moderates
<1>5. ASSUME NEW u \in Users, NEW until \in BanEnds, Ban(p, u, until)
      PROVE  HostInv'
  BY <1>2, <1>4, <1>5 DEF Ban, Covered
<1>6. ASSUME NEW u \in Users, NEW until \in BanEnds, IpBan(p, u, until)
      PROVE  HostInv'
  <2>0. PICK stray \in SUBSET Hosts :
          hostUntil' = WithRows(hostUntil, Addresses(idSocket'[u] \cap Open) \cup stray, until)
    BY <1>6 DEF IpBan
  <2> DEFINE hit == Addresses(idSocket'[u] \cap Open) \cup stray
             due == {host[s] : s \in {s \in Open : u \in accounts'[s]}}
  <2>1. Bans(p, u, until) /\ until \in Int
    BY <1>6, BanEndType DEF IpBan
  <2>2. Answered(p) /\ Listed'
    BY <1>2, <1>4, <2>1
  <2>3. due \cap Hosts \subseteq hit
    BY <2>2 DEF Listed, Addresses, Open
  <2>4. hostUntil' = WithRows(hostUntil, hit, until) /\ exile' = WithRows(exile, due, until)
    BY <1>6, <2>0 DEF IpBan
  <2> HIDE DEF hit, due
  <2>5. hostUntil' \in [Hosts -> Nat] /\ exile' \in [Hosts -> Nat]
    BY <2>1, <2>4, RowsAdded
  <2>6. Covered'
    <3>1. \A h \in Hosts : exile[h] <= hostUntil[h]
      BY DEF Covered
    <3> QED
      BY <2>1, <2>3, <2>4, <3>1, RowsMonotone DEF Covered
  <2> QED
    BY <1>2, <1>4, <2>1, <2>2, <2>5, <2>6
<1>7. ASSUME NEW u \in Users, Unban(p, u)
      PROVE  HostInv'
  BY <1>2, <1>7 DEF Unban, Moderates, Covered
<1> QED
  BY <1>1, <1>3, <1>5, <1>6, <1>7 DEF Answer

(* The other steps leave the bans alone, but for the clock. *)
LEMMA ConnectionInv ==
  ASSUME HostInv, NEW s \in Sockets,
         \/ \E h \in Hosts : Connect(s, h)
         \/ Hello(s)
         \/ Disconnect(s)
         \/ \E u \in Users : Frame(s, u)
  PROVE  HostInv'
<1> USE DEF HostInv, HostTypeOK
<1>1. ASSUME NEW h \in Hosts, Connect(s, h)
      PROVE  HostInv'
  <2>1. host' \in [Sockets -> Hosts \cup {NoHost}] /\ Open \subseteq Open'
    BY <1>1, HostAssumption DEF Connect, Open, HostAssumption
  <2>2. \A r \in Sockets \ Open' : accounts'[r] = {}
    BY <1>1, <2>1 DEF Connect
  <2> QED
    BY <1>1, <2>1, <2>2 DEF Connect, mapVars, bans, MapTypeOK, Listed, Covered
<1>2. CASE Hello(s)
  <2>1. InsertSocket(Anon, s) /\ Anon \in Users \cup {Anon} /\ MapTypeOK
    BY <1>2 DEF Hello
  <2>2. /\ MapTypeOK'
        /\ \A r \in Sockets, v \in Users : r \in idSocket[v] => r \in idSocket'[v]
    BY <2>1, InsertSocketMap
  <2>3. soiled' \subseteq Sockets
    BY <1>2 DEF Hello, Conduct
  <2> QED
    BY <1>2, <2>2, <2>3 DEF Hello, bans, Listed, Covered, Open
<1>3. CASE Disconnect(s)
  <2>1. RemoveSocket(s) /\ MapTypeOK
    BY <1>3 DEF Disconnect
  <2>2. /\ MapTypeOK'
        /\ \A r \in Sockets, v \in Users : r \in idSocket[v] /\ r # s => r \in idSocket'[v]
    BY <2>1, RemoveSocketMap
  <2>3. host' \in [Sockets -> Hosts \cup {NoHost}] /\ Open \ {s} \subseteq Open'
    BY <1>3 DEF Disconnect, Open
  <2>4. pending' = {[p EXCEPT !.late = @ \/ p.socket = s] : p \in pending}
    BY <1>3 DEF Disconnect
  <2>5. ASSUME NEW q \in pending'
        PROVE  /\ q \in [socket : Sockets, user : Users, late : BOOLEAN]
               /\ q.socket \in Open' \/ q.late
    <3>1. PICK p \in pending : q = [p EXCEPT !.late = @ \/ p.socket = s]
      BY <2>4
    <3>2. p \in [socket : Sockets, user : Users, late : BOOLEAN]
      OBVIOUS
    <3>3. q.socket = p.socket /\ q.user = p.user /\ q.late = (p.late \/ p.socket = s)
          /\ q \in [socket : Sockets, user : Users, late : BOOLEAN]
      BY <3>1, <3>2
    <3> QED
      BY <2>3, <3>2, <3>3
  <2>6. accounts' \in [Sockets -> SUBSET Users] /\ accounts'[s] = {}
        /\ \A r \in Sockets : r # s => accounts'[r] = accounts[r]
    BY <1>3 DEF Disconnect
  <2>7. (\A r \in Sockets \ Open' : accounts'[r] = {}) /\ Listed'
    BY <2>2, <2>3, <2>6 DEF Listed
  <2>8. soiled' \subseteq Sockets
    BY <1>3 DEF Disconnect, Conduct
  <2> QED
    BY <1>3, <2>2, <2>3, <2>5, <2>6, <2>7, <2>8 DEF Disconnect, bans, Covered
<1>4. ASSUME NEW u \in Users, Frame(s, u)
      PROVE  HostInv'
  <2>1. soiled' \subseteq Sockets
    BY <1>4 DEF Frame, Conduct
  <2>2. pending' = pending \cup {Asked(s, u)} /\ Open' = Open /\ s \in Open
    BY <1>4 DEF Frame, Open
  <2>3. Asked(s, u) \in [socket : Sockets, user : Users, late : BOOLEAN] /\ Asked(s, u).socket = s
    BY DEF Asked
  <2> QED
    BY <1>4, <2>1, <2>2, <2>3 DEF Frame, mapVars, bans, MapTypeOK, Listed, Covered
<1> QED
  BY <1>1, <1>2, <1>3, <1>4

LEMMA HostStep ==
  ASSUME HostInv, [HostNext]_hostVars
  PROVE  HostInv'
<1>1. CASE Tick
  <2>1. now' \in 0 .. MaxTime
    BY <1>1, HostAssumption DEF Tick, HostInv, HostTypeOK, HostAssumption
  <2> QED
    BY <1>1, <2>1
    DEF Tick, served, mapVars, bans, HostInv, HostTypeOK, MapTypeOK, Listed, Covered, Open
<1>2. CASE Restart
  BY <1>2, HostAssumption, MapAssumption
  DEF Restart, bans, HostInv, HostTypeOK, MapTypeOK, Listed, Covered
<1>3. CASE UNCHANGED hostVars
  BY <1>3 DEF hostVars, served, mapVars, bans, HostInv, HostTypeOK, MapTypeOK, Listed, Covered, Open
<1> QED
  BY <1>1, <1>2, <1>3, AnswerInv, ConnectionInv DEF HostNext

(* Types, the lists of the map and the coverage of banned_hosts hold in    *)
(* every reachable state.                                                  *)
THEOREM HostInvCorrect == HostSpec => []HostInv
<1>1. HostInit => HostInv
  BY MapAssumption, HostAssumption
  DEF MapAssumption, HostAssumption, HostInit, MapInit, HostInv, HostTypeOK, MapTypeOK,
      Listed, Covered
<1> QED
  BY <1>1, HostStep, PTL DEF HostSpec

(* The map, the addresses, the frames and the bans keep their types.       *)
THEOREM HostTypeCorrect == HostSpec => []HostTypeOK
<1>1. HostInv => HostTypeOK
  BY DEF HostInv
<1> QED
  BY <1>1, HostInvCorrect, PTL

(* No frame passes from the address of a connection that had signed in as  *)
(* a banned user before the ban is over, whatever clients do               *)
(* (processClientMessage).                                                 *)
THEOREM EvasionCorrect == HostSpec => EvasionStopped
<1>1. ASSUME HostInv, [HostNext]_hostVars
      PROVE  [\A p \in pending' \ pending : p.late \/ exile[host[p.socket]] <= now]_hostVars
  <2>1. ASSUME NEW s \in Sockets, NEW u \in Users, Frame(s, u)
        PROVE  \A p \in pending' \ pending : exile[host[p.socket]] <= now
    <3>1. pending' = pending \cup {Asked(s, u)} /\ s \in Open /\ Asked(s, u).socket = s
          /\ ~(hostUntil[host[s]] > now)
      BY <2>1 DEF Frame, HostBanned, Asked
    <3>2. host[s] \in Hosts
      BY <1>1, <3>1 DEF HostInv, HostTypeOK, Open
    <3>3. exile[host[s]] <= hostUntil[host[s]] /\ exile[host[s]] \in Nat /\ hostUntil[host[s]] \in Nat
          /\ now \in Int
      BY <1>1, <3>2 DEF HostInv, HostTypeOK, Covered
    <3>4. exile[host[s]] <= now
      BY <3>1, <3>3
    <3> QED
      BY <3>1, <3>4
  <2>2. ASSUME NEW s \in Sockets, Disconnect(s)
        PROVE  \A p \in pending' \ pending : p.late
    <3> SUFFICES ASSUME NEW q \in pending', q \notin pending
                 PROVE  q.late
      OBVIOUS
    <3>1. PICK p \in pending : q = [p EXCEPT !.late = @ \/ p.socket = s]
      BY <2>2 DEF Disconnect
    <3>2. p \in [socket : Sockets, user : Users, late : BOOLEAN]
      BY <1>1 DEF HostInv, HostTypeOK
    <3>3. p.late \/ p.socket = s
      <4>1. CASE ~(p.late \/ p.socket = s)
        <5>1. q = [p EXCEPT !.late = FALSE] /\ p.late = FALSE
          BY <3>1, <3>2, <4>1
        <5>2. q = p
          BY <3>2, <5>1
        <5> QED
          BY <5>2
      <4> QED
        BY <4>1
    <3> QED
      BY <3>1, <3>2, <3>3
  <2>3. \/ pending' \subseteq pending \/ UNCHANGED hostVars
        \/ \E s \in Sockets : Disconnect(s) \/ \E u \in Users : Frame(s, u)
    BY <1>1 DEF HostNext, Connect, Hello, Answer, Refused, SignsIn, Ban, IpBan, NotFound, Bans,
      Unban, Moderates, Answered, Tick, Restart, served
  <2> QED
    BY <2>1, <2>2, <2>3
<1> QED
  BY <1>1, HostInvCorrect, PTL DEF HostSpec, EvasionStopped

-----------------------------------------------------------------------------
(* Addresses where nothing unruly happened.                                *)

(* What happens at the address s leaves the others as they are. *)
LEMMA OthersKept ==
  ASSUME HostInv, OneUserEach, NEW s \in Sockets, soiled \subseteq soiled',
         \A r \in Sockets : r # s =>
           /\ socketId'[r] = socketId[r] /\ accounts'[r] = accounts[r]
           /\ \A v \in Users : r \in idSocket'[v] <=> r \in idSocket[v],
         \A p \in pending' : p.socket # s => p \in pending,
         s \notin soiled' => OneUser(s)'
  PROVE  OneUserEach'
<1> SUFFICES ASSUME NEW r \in Sockets, r \notin soiled'
             PROVE  OneUser(r)'
  BY DEF OneUserEach
<1>1. CASE r = s
  BY <1>1
<1>2. CASE r # s
  <2>1. OneUser(r)
    BY DEF OneUserEach
  <2>2. UsersOf(r)' \subseteq UsersOf(r)
    BY <1>2 DEF UsersOf
  <2>3. \A p \in pending' : p.socket = r => ~p.late /\ UsersOf(r)' \subseteq {p.user}
    BY <1>2, <2>1, <2>2 DEF OneUser
  <2> QED
    BY <1>2, <2>1, <2>3 DEF OneUser
<1> QED
  BY <1>1, <1>2

LEMMA InsertKeepsOne ==
  ASSUME HostInv, OneUserEach, NEW p \in pending, Answered(p)
  PROVE  OneUserEach'
<1> DEFINE s == p.socket
           u == p.user
<1>1. /\ u \in Users /\ s \in Sockets /\ p.late \in BOOLEAN
      /\ \A r \in Sockets, v \in Users : r \in idSocket'[v] <=> r \in idSocket[v] \/ (r = s /\ v = u)
      /\ \A r \in Sockets : socketId'[r] = IF r = s THEN u ELSE socketId[r]
      /\ \A r \in Sockets : accounts'[r] = IF r = s /\ ~p.late THEN accounts[r] \cup {u} ELSE accounts[r]
      /\ accounts' \in [Sockets -> SUBSET Users]
      /\ pending' = pending \ {p} /\ soiled' = soiled
  <2>1. HostTypeOK
    BY DEF HostInv
  <2> QED
    BY <2>1, AnsweredMap
<1>2. ASSUME s \notin soiled
      PROVE  OneUser(s)'
  <2>1. OneUser(s)
    BY <1>1, <1>2 DEF OneUserEach
  <2>2. ~p.late /\ UsersOf(s) \subseteq {u}
    BY <2>1 DEF OneUser
  <2>3. accounts[s] \subseteq {u} /\ accounts'[s] = accounts[s] \cup {u}
    BY <1>1, <2>2 DEF UsersOf
  <2>4. \A v \in Users : s \in idSocket'[v] <=> v \in accounts'[s]
    BY <1>1, <2>1, <2>3 DEF OneUser
  <2>5. \A v \in accounts'[s] : socketId'[s] = v
    BY <1>1, <2>3
  <2>6. ASSUME NEW q \in pending', q.socket = s
        PROVE  ~q.late /\ UsersOf(s)' \subseteq {q.user}
    <3>1. q \in pending /\ ~q.late /\ UsersOf(s) \subseteq {q.user}
      BY <1>1, <2>1, <2>6 DEF OneUser
    <3>2. q.user = u
      BY <2>2, <2>6, <3>1 DEF UsersOf
    <3>3. UsersOf(s)' \subseteq UsersOf(s) \cup {u}
      BY <1>1, <2>3 DEF UsersOf
    <3> QED
      BY <3>1, <3>2, <3>3
  <2> QED
    BY <2>4, <2>5, <2>6 DEF OneUser
<1> HIDE DEF s, u
<1>3. /\ soiled \subseteq soiled'
      /\ \A r \in Sockets : r # s =>
           /\ socketId'[r] = socketId[r] /\ accounts'[r] = accounts[r]
           /\ \A v \in Users : r \in idSocket'[v] <=> r \in idSocket[v]
      /\ \A q \in pending' : q.socket # s => q \in pending
  BY <1>1
<1>4. s \in Sockets /\ (s \notin soiled' => OneUser(s)')
  BY <1>1, <1>2
<1> QED
  BY <1>3, <1>4, OthersKept

LEMMA HelloKeepsOne ==
  ASSUME HostInv, OneUserEach, NEW s \in Sockets, Hello(s)
  PROVE  OneUserEach'
<1>1. InsertSocket(Anon, s) /\ Anon \in Users \cup {Anon} /\ MapTypeOK
  BY DEF Hello, HostInv, HostTypeOK
<1>2. /\ \A r \in Sockets, v \in Users : r \in idSocket'[v] <=> r \in idSocket[v]
      /\ \A r \in Sockets : r # s => socketId'[r] = socketId[r]
  BY <1>1, InsertSocketMap, MapAssumption DEF MapAssumption
<1>3. /\ UNCHANGED <<pending, accounts>>
      /\ soiled \subseteq soiled'
      /\ s \notin soiled' => socketId[s] \notin Users /\ s \notin soiled
  BY DEF Hello, Conduct
<1>4. ASSUME s \notin soiled'
      PROVE  OneUser(s)'
  <2>1. OneUser(s) /\ accounts[s] \subseteq Users
    BY <1>3, <1>4 DEF OneUserEach, HostInv, HostTypeOK
  <2>2. accounts[s] = {}
    BY <1>3, <1>4, <2>1 DEF OneUser
  <2>3. UsersOf(s)' = UsersOf(s)
    BY <1>3 DEF UsersOf
  <2> QED
    BY <1>2, <1>3, <2>1, <2>2, <2>3 DEF OneUser
<1> QED
  BY <1>2, <1>3, <1>4, OthersKept

LEMMA DisconnectKeepsOne ==
  ASSUME HostInv, OneUserEach, NEW s \in Sockets, Disconnect(s)
  PROVE  OneUserEach'
<1>1. RemoveSocket(s) /\ MapTypeOK
  BY DEF Disconnect, HostInv, HostTypeOK
<1>2. /\ \A r \in Sockets, v \in Users :
           r \in idSocket'[v] <=> r \in idSocket[v] /\ ~(r = s /\ v = socketId[s])
      /\ \A r \in Sockets : r # s => socketId'[r] = socketId[r]
  BY <1>1, RemoveSocketMap
<1>3. /\ accounts' = [accounts EXCEPT ![s] = {}]
      /\ accounts \in [Sockets -> SUBSET Users]
      /\ pending' = {[p EXCEPT !.late = @ \/ p.socket = s] : p \in pending}
      /\ soiled \subseteq soiled'
      /\ s \notin soiled' => s \notin soiled /\ \A p \in pending : p.socket # s
  BY DEF Disconnect, Conduct, HostInv, HostTypeOK
<1>4. ASSUME NEW q \in pending'
      PROVE  \E p \in pending : p.socket = q.socket /\ (q.socket # s => q = p)
  <2>1. PICK p \in pending : q = [p EXCEPT !.late = @ \/ p.socket = s]
    BY <1>3
  <2>2. p \in [socket : Sockets, user : Users, late : BOOLEAN]
    BY DEF HostInv, HostTypeOK
  <2>3. p.socket # s => (p.late \/ p.socket = s) = p.late
    BY <2>2
  <2>4. p.socket # s => q = p
    <3>1. p.socket # s => q = [p EXCEPT !.late = p.late]
      BY <2>1, <2>3
    <3> QED
      BY <2>2, <3>1
  <2> QED
    BY <2>1, <2>2, <2>4
<1>5. ASSUME s \notin soiled'
      PROVE  OneUser(s)'
  <2>1. OneUser(s)
    BY <1>3, <1>5 DEF OneUserEach
  <2>2. accounts'[s] = {}
    BY <1>3
  <2>3. \A v \in Users : s \notin idSocket'[v]
    BY <1>2, <2>1 DEF OneUser
  <2>4. \A q \in pending' : q.socket # s
    BY <1>3, <1>4, <1>5
  <2> QED
    BY <2>2, <2>3, <2>4 DEF OneUser
<1>6. \A q \in pending' : q.socket # s => q \in pending
  BY <1>4
<1>7. \A r \in Sockets : r # s => accounts'[r] = accounts[r]
  BY <1>3
<1> QED
  BY <1>2, <1>3, <1>5, <1>6, <1>7, OthersKept

LEMMA FrameKeepsOne ==
  ASSUME HostInv, OneUserEach, NEW s \in Sockets, NEW u \in Users, Frame(s, u)
  PROVE  OneUserEach'
<1>1. /\ pending' = pending \cup {Asked(s, u)}
      /\ UNCHANGED <<idSocket, socketId, accounts>>
      /\ soiled \subseteq soiled'
      /\ s \notin soiled' => s \notin soiled /\ UsersOf(s) \subseteq {u}
  BY DEF Frame, Conduct, mapVars
<1>2. Asked(s, u).socket = s /\ Asked(s, u).user = u /\ Asked(s, u).late = FALSE
  BY DEF Asked
<1>3. ASSUME s \notin soiled'
      PROVE  OneUser(s)'
  <2>1. OneUser(s)
    BY <1>1, <1>3 DEF OneUserEach
  <2>2. UsersOf(s)' \subseteq {u}
    BY <1>1, <1>2, <1>3 DEF UsersOf
  <2>3. \A p \in pending : p.socket = s => p.user = u /\ ~p.late
    BY <1>1, <1>3, <2>1 DEF UsersOf, OneUser
  <2> QED
    BY <1>1, <1>2, <2>1, <2>2, <2>3 DEF OneUser
<1> QED
  BY <1>1, <1>2, <1>3, OthersKept

LEMMA OneUserStep ==
  ASSUME HostInv, OneUserEach, [HostNext]_hostVars
  PROVE  OneUserEach'
<1>1. ASSUME NEW p \in pending, Answer(p)
      PROVE  OneUserEach'
  <2>1. CASE Refused(p)
    BY <2>1 DEF Refused, mapVars, OneUserEach, OneUser, UsersOf
  <2>2. CASE Answered(p)
    BY <2>2, InsertKeepsOne
  <2> QED
    BY <1>1, <2>1, <2>2 DEF Answer, SignsIn, Ban, IpBan, NotFound, Bans, Unban, Moderates
<1>2. CASE Restart
  BY <1>2 DEF Restart, OneUserEach, OneUser
<1>3. ASSUME \/ \E s \in Sockets, h \in Hosts : Connect(s, h)
             \/ Tick \/ UNCHANGED hostVars
      PROVE  OneUserEach'
  <2>1. UNCHANGED <<idSocket, socketId, pending, accounts, soiled>>
    BY <1>3 DEF Connect, Tick, hostVars, served, mapVars
  <2> QED
    BY <2>1 DEF OneUserEach, OneUser, UsersOf
<1> QED
  BY <1>1, <1>2, <1>3, HelloKeepsOne, DisconnectKeepsOne, FrameKeepsOne DEF HostNext

(* BansExact, of one step. *)
ExactRows ==
  \A h \in Hosts :
    /\ exile'[h] <= hostUntil'[h]
    /\ hostUntil'[h] \in {hostUntil[h], exile'[h]}
       \/ \E s \in soiled : Misplaced(s)' /\ (s \in Open => host[s] = h)

LEMMA IpBanExact ==
  ASSUME HostInv, OneUserEach, NEW p \in pending, NEW u \in Users, NEW until \in BanEnds,
         IpBan(p, u, until)
  PROVE  ExactRows
<1>1. Answered(p) /\ until \in Int
  BY BanEndType DEF IpBan, Bans, Moderates, HostInv
<1>2. HostInv' /\ OneUserEach' /\ Open' = Open /\ soiled' = soiled
  <2>1. HostTypeOK
    BY DEF HostInv
  <2> QED
    BY <1>1, <2>1, AnswerInv, InsertKeepsOne, AnsweredMap DEF Answer
<1> SUFFICES ASSUME NEW h \in Hosts
             PROVE  hostUntil'[h] \in {hostUntil[h], exile'[h]}
                    \/ \E s \in soiled : Misplaced(s)' /\ (s \in Open => host[s] = h)
  BY <1>2 DEF ExactRows, HostInv, Covered
<1> DEFINE open == Addresses(idSocket'[u] \cap Open)
           due == {host[s] : s \in {s \in Open : u \in accounts'[s]}}
<1>3. PICK stray \in (IF idSocket'[u] \subseteq Open THEN {{}} ELSE SUBSET Hosts) :
        hostUntil' = WithRows(hostUntil, open \cup stray, until)
  BY DEF IpBan
<1>4. exile' = WithRows(exile, due, until)
  BY DEF IpBan
<1>5. /\ hostUntil \in [Hosts -> Nat] /\ exile \in [Hosts -> Nat] /\ exile[h] <= hostUntil[h]
  BY DEF HostInv, HostTypeOK, Covered
(* A socket in the list of u whose connection has not signed in as u. *)
<1>6. ASSUME NEW s \in idSocket'[u], u \notin accounts'[s], s \in Open => host[s] = h
      PROVE  \E r \in soiled : Misplaced(r)' /\ (r \in Open => host[r] = h)
  <2>1. s \in Sockets
    BY <1>2 DEF HostInv, HostTypeOK, MapTypeOK
  <2>2. s \in soiled
    BY <1>2, <1>6, <2>1 DEF OneUserEach, OneUser
  <2>3. Misplaced(s)'
    BY <1>6 DEF Misplaced
  <2> QED
    BY <1>6, <2>2, <2>3
<1>7. CASE h \in open
  <2>1. PICK s \in idSocket'[u] \cap Open : h = host[s]
    BY <1>7 DEF Addresses
  <2>2. CASE u \notin accounts'[s]
    BY <1>6, <2>1, <2>2
  <2>3. CASE u \in accounts'[s]
    <3>1. h \in due
      BY <2>1, <2>3
    <3>2. /\ hostUntil'[h] = Max({hostUntil[h], until}) /\ exile'[h] = Max({exile[h], until})
      <4> HIDE DEF open, due
      <4> QED
        BY <1>1, <1>3, <1>4, <1>5, <1>7, <3>1, RowsAdded
    <3>3. /\ Max({hostUntil[h], until}) \in {hostUntil[h], until}
          /\ Max({hostUntil[h], until}) >= hostUntil[h]
          /\ Max({exile[h], until}) \in {exile[h], until} /\ Max({exile[h], until}) >= until
      <4>1. hostUntil[h] \in Int /\ exile[h] \in Int
        BY <1>5
      <4> QED
        BY <1>1, <4>1, MaxOfTwo
    <3> QED
      BY <1>1, <1>5, <3>2, <3>3
  <2> QED
    BY <2>2, <2>3
<1>8. CASE h \in stray
  <2>1. PICK s \in idSocket'[u] : s \notin Open
    BY <1>3, <1>8
  <2>2. u \notin accounts'[s]
    BY <1>2, <2>1 DEF HostInv, HostTypeOK, MapTypeOK
  <2> QED
    BY <1>6, <2>1, <2>2
<1>9. CASE h \notin open \cup stray
  <2> HIDE DEF open
  <2> QED
    BY <1>1, <1>3, <1>5, <1>9, RowsAdded
<1> QED
  BY <1>7, <1>8, <1>9

(* ipban misses no address of a connection that has signed in as the user, *)
(* and bans no other, but through an entry that an unruly connection left. *)
THEOREM ExactCorrect == HostSpec => BansExact
<1>1. HostInit => OneUserEach
  BY MapAssumption DEF MapAssumption, HostInit, MapInit, OneUserEach, OneUser
<1>2. HostInv /\ OneUserEach /\ [HostNext]_hostVars => OneUserEach'
  BY OneUserStep
<1>3. ASSUME HostInv, OneUserEach, [HostNext]_hostVars
      PROVE  [ExactRows]_hostVars
  <2>1. UNCHANGED hostUntil => ExactRows
    <3>1. HostInv'
      BY <1>3, HostStep
    <3> QED
      BY <3>1 DEF ExactRows, HostInv, Covered
  <2>2. \/ \E p \in pending, u \in Users, until \in BanEnds : IpBan(p, u, until)
        \/ UNCHANGED hostUntil \/ UNCHANGED hostVars
    BY <1>3 DEF HostNext, Connect, Hello, Disconnect, Frame, Tick, Restart, Answer, Refused,
      SignsIn, Ban, NotFound, Unban, bans
  <2> QED
    BY <1>3, <2>1, <2>2, IpBanExact
<1>4. ExactRows <=> \A h \in Hosts :
       /\ exile'[h] <= hostUntil'[h]
       /\ hostUntil'[h] \in {hostUntil[h], exile'[h]}
          \/ \E s \in soiled : Misplaced(s)' /\ (s \in Open => host[s] = h)
  BY DEF ExactRows
<1> QED
  BY <1>1, <1>2, <1>3, <1>4, HostInvCorrect, PTL DEF HostSpec, BansExact, ExactRows

=============================================================================
