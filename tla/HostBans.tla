------------------------------ MODULE HostBans ------------------------------
(***************************************************************************)
(* Address bans (chatserver.cpp:684-701 and ban()): ipban bans a user and, *)
(* in the table banned_hosts, the address of every connection of the user; *)
(* processClientMessage looks a frame's address up before its token is     *)
(* authenticated, and processChatMessage the user's own ban after it.      *)
(* Between the two, bans of other connections are answered.                *)
(*                                                                         *)
(* Connections behave as in ChatSession: a hello passes both tests by and  *)
(* leaves the socket in the list of its earlier user (line 1044), a token  *)
(* of another user may come over the same connection, and an answer may    *)
(* come when its connection is gone or the address is in use again (line   *)
(* 713).  Unruly says which of these happen; accounts and soiled are       *)
(* history: whom the connection that is open now has signed in as, and at  *)
(* which addresses something unruly happened.                              *)
(*                                                                         *)
(* Every user has a name, and SQL statements succeed.  What a frame asks   *)
(* for is chosen when it is answered: nothing before depends on it.  The   *)
(* state "closed" of ChatSession is not told from "free": peerAddress() of *)
(* a socket that is not open is anybody's either way.                      *)
(***************************************************************************)
EXTENDS UserSocketMap, Integers, FiniteSetsExt

CONSTANTS
  Hosts,       \* addresses clients connect from
  NoHost,      \* in place of the address of a connection that is not open
  Mods,        \* users of level AUTH_MOD
  Admins,      \* users of level AUTH_ADMIN
  Unruly,      \* what clients and the network may do: see ChatSession
  BanTimes,    \* seconds a moderator bans for
  Forever,     \* the end of a ban without a time
  MaxTime,     \* bounds: the clock stops at MaxTime,
  MaxPending   \* and MaxPending frames are being authenticated

ASSUME HostAssumption ==
  /\ NoHost \notin Hosts /\ Mods \subseteq Users /\ Admins \subseteq Users
  /\ Mods \cap Admins = {}
  /\ Unruly \subseteq {"rehello", "switch", "hangup"}
  /\ BanTimes \subseteq Int /\ MaxTime \in Nat /\ MaxPending \in Nat
  /\ Forever \in Nat /\ Forever > MaxTime

VARIABLES
  now,          \* the clock, in seconds
  host,         \* peerAddress() of each connection
  pending,      \* frames whose address was not banned, being authenticated;
                \* late (history): the connection it came over has ended
  accounts,     \* history: whom the connection open at each address signed in as
  soiled,       \* history: the addresses where something unruly happened
  bannedAt,     \* users.banned_at
  bannedUntil,  \* users.banned_until
  hostUntil,    \* the latest until of banned_hosts for each address, or 0
  exile         \* until when users an address served are banned with it

bans == <<bannedAt, bannedUntil, hostUntil, exile>>
served == <<mapVars, host, pending, accounts, soiled>>
hostVars == <<served, now, bans>>

Open == {s \in Sockets : host[s] # NoHost}

HostInit ==
  /\ MapInit
  /\ now = 0
  /\ host = [s \in Sockets |-> NoHost]
  /\ pending = {}
  /\ accounts = [s \in Sockets |-> {}]
  /\ soiled = {}
  /\ bannedAt = [u \in Users |-> 0]
  /\ bannedUntil = [u \in Users |-> 0]
  /\ hostUntil = [h \in Hosts |-> 0]
  /\ exile = [h \in Hosts |-> 0]

-----------------------------------------------------------------------------
Connect(s, h) ==
  /\ s \notin Open
  /\ host' = [host EXCEPT ![s] = h]
  /\ UNCHANGED <<mapVars, now, pending, accounts, soiled, bans>>

(* As in ChatSession: at an address that is soiled nobody is to blame. *)
Conduct(way, s, is) ==
  /\ is => way \in Unruly \/ s \in soiled
  /\ soiled' = IF is THEN soiled \cup {s} ELSE soiled

(* processHello: before the address is looked up. *)
Hello(s) ==
  /\ s \in Open
  /\ Conduct("rehello", s, socketId[s] \in Users)
  /\ InsertSocket(Anon, s)
  /\ UNCHANGED <<now, host, pending, accounts, bans>>

Disconnect(s) ==
  /\ s \in Open
  /\ Conduct("hangup", s, \E p \in pending : p.socket = s)
  /\ host' = [host EXCEPT ![s] = NoHost]
  /\ accounts' = [accounts EXCEPT ![s] = {}]
  /\ pending' = {[p EXCEPT !.late = @ \/ p.socket = s] : p \in pending}
  /\ RemoveSocket(s)
  /\ UNCHANGED <<now, bans>>

(* The accounts the client at s presented a token of. *)
UsersOf(s) == accounts[s] \cup {p.user : p \in {q \in pending : q.socket = s}}

Asked(s, u) == [socket |-> s, user |-> u, late |-> FALSE]

HostBanned(h) == hostUntil[h] > now

(* Bug: the ban of the user is looked up in place of that of the address. *)
BugFrame(s, u) ==
  /\ s \in Open
  /\ Conduct("switch", s, ~ UsersOf(s) \subseteq {u})
  /\ ~(bannedUntil[u] > now)
  /\ Cardinality(pending) < MaxPending
  /\ pending' = pending \cup {Asked(s, u)}
  /\ UNCHANGED <<mapVars, now, host, accounts, bans>>

(* processClientMessage hands a token of u to its AuthModule. *)
Frame(s, u) ==
  /\ s \in Open
  /\ Conduct("switch", s, ~ UsersOf(s) \subseteq {u})
  /\ ~HostBanned(host[s])
  /\ Cardinality(pending) < MaxPending
  /\ pending' = pending \cup {Asked(s, u)}
  /\ UNCHANGED <<mapVars, now, host, accounts, bans>>

-----------------------------------------------------------------------------
(* The answer comes, and processAuthenticatedMessage runs to its end, on   *)
(* whatever is at the address by now (if the process dies of it, that is   *)
(* Restart).                                                               *)
Answered(p) ==
  /\ p \in pending
  /\ pending' = pending \ {p}
  /\ InsertSocket(p.user, p.socket)
  /\ accounts' = IF p.late THEN accounts ELSE [accounts EXCEPT ![p.socket] = @ \cup {p.user}]
  /\ UNCHANGED <<now, host, soiled>>

Banned(u) == bannedUntil[u] > now

(* handleAuthFailure. *)
Refused(p) ==
  /\ p \in pending
  /\ pending' = pending \ {p}
  /\ UNCHANGED <<mapVars, now, host, accounts, soiled, bans>>

(* A frame that signs in and bans or unbans nobody. *)
SignsIn(p) ==
  /\ Answered(p)
  /\ UNCHANGED bans

BanEnds == {Forever} \cup {now + d : d \in BanTimes}

Moderates(p) ==
  /\ Answered(p)
  /\ ~Banned(p.user) /\ p.user \in Mods \cup Admins

(* The UPDATE of ban() changes a row: one that has both values already is  *)
(* not counted by numRowsAffected(), nor is that of an administrator.      *)
Affects(u, until) == u \notin Admins /\ (bannedAt[u] # now \/ bannedUntil[u] # until)

(* Otherwise ban() answers "Couldn't find user" and ends there: an ipban   *)
(* in the second of a ban to the same end bans no address.                 *)
NotFound(p, u, until) ==
  /\ Moderates(p)
  /\ ~Affects(u, until)
  /\ UNCHANGED bans

(* Bug: the two values of the UPDATE are bound in the wrong order. *)
BugBans(p, u, until) ==
  /\ Moderates(p)
  /\ Affects(u, until)
  /\ bannedAt' = [bannedAt EXCEPT ![u] = until]
  /\ bannedUntil' = [bannedUntil EXCEPT ![u] = now]

Bans(p, u, until) ==
  /\ Moderates(p)
  /\ Affects(u, until)
  /\ bannedAt' = [bannedAt EXCEPT ![u] = now]
  /\ bannedUntil' = [bannedUntil EXCEPT ![u] = until]

Ban(p, u, until) ==
  /\ Bans(p, u, until)
  /\ UNCHANGED <<hostUntil, exile>>

(* Bug: the address of one connection is banned. *)
BugAddresses(sockets) ==
  {host[s] : s \in {s \in sockets : socketId[s] # NoEntry}}

Addresses(sockets) == {host[s] : s \in sockets}

(* The table after a row (h, until) was inserted for every h of hs. *)
WithRows(table, hs, until) ==
  [h \in Hosts |-> IF h \in hs THEN Max({table[h], until}) ELSE table[h]]

(* socketsForAuthor is asked after insertSocket of this very frame.  A     *)
(* socket that is no longer open has been deleted, and what peerAddress()  *)
(* of it reads may be the address of anybody.                              *)
IpBan(p, u, until) ==
  /\ Bans(p, u, until)
  /\ \E stray \in (IF idSocket'[u] \subseteq Open THEN {{}} ELSE SUBSET Hosts) :
       hostUntil' = WithRows(hostUntil, Addresses(idSocket'[u] \cap Open) \cup stray, until)
  /\ exile' = WithRows(exile, {host[s] : s \in {s \in Open : u \in accounts'[s]}}, until)

(* Rows of banned_hosts are never taken back. *)
Unban(p, u) ==
  /\ Moderates(p)
  /\ bannedUntil' = [bannedUntil EXCEPT ![u] = 0]
  /\ UNCHANGED <<bannedAt, hostUntil, exile>>

Tick ==
  /\ now < MaxTime
  /\ now' = now + 1
  /\ UNCHANGED <<served, bans>>

(* The process ends and is started again: bans are in the database. *)
Restart ==
  /\ idSocket' = [u \in Users |-> {}]
  /\ socketId' = [s \in Sockets |-> NoEntry]
  /\ host' = [s \in Sockets |-> NoHost]
  /\ pending' = {}
  /\ accounts' = [s \in Sockets |-> {}]
  /\ soiled' = {}
  /\ UNCHANGED <<now, bans>>

Answer(p) ==
  \/ Refused(p)
  \/ SignsIn(p)
  \/ \E u \in Users, until \in BanEnds :
       Ban(p, u, until) \/ IpBan(p, u, until) \/ NotFound(p, u, until)
  \/ \E u \in Users : Unban(p, u)

HostNext ==
  \/ \E s \in Sockets : \/ \E h \in Hosts : Connect(s, h)
                        \/ Hello(s)
                        \/ Disconnect(s)
                        \/ \E u \in Users : Frame(s, u)
  \/ \E p \in pending : Answer(p)
  \/ Tick
  \/ Restart

HostSpec == HostInit /\ [][HostNext]_hostVars

-----------------------------------------------------------------------------
HostTypeOK ==
  /\ MapTypeOK
  /\ now \in 0 .. MaxTime
  /\ host \in [Sockets -> Hosts \cup {NoHost}]
  /\ pending \subseteq [socket : Sockets, user : Users, late : BOOLEAN]
  /\ \A p \in pending : p.socket \in Open \/ p.late
  /\ accounts \in [Sockets -> SUBSET Users]
  /\ \A s \in Sockets \ Open : accounts[s] = {}
  /\ soiled \subseteq Sockets
  /\ bannedAt \in [Users -> 0 .. MaxTime]
  /\ bannedUntil \in [Users -> Int]
  /\ hostUntil \in [Hosts -> Nat] /\ exile \in [Hosts -> Nat]

(* Once a user was banned with the address, no frame passes from any       *)
(* address of a connection that had signed in as that user, in whatever    *)
(* name and over whatever connection, until the ban is over: only frames   *)
(* that had passed the test before are still answered (ban,                *)
(* processClientMessage).                                                  *)
EvasionStopped ==
  [][\A p \in pending' \ pending : p.late \/ exile[host[p.socket]] <= now]_hostVars

(* A socket in the list of a user the connection open there has not signed *)
(* in as, if one is open at all: an entry of an earlier connection.        *)
Misplaced(s) == \E u \in Users : s \in idSocket[u] /\ u \notin accounts[s]

(* ipban bans the addresses of the connections that have signed in as the  *)
(* user, each to the latest end: none is missed.  An address that served   *)
(* only others is banned with them through nothing but an entry that an    *)
(* unruly connection left at the same QWebSocket address: from where the   *)
(* connection there is now or, when there is none, from anywhere.          *)
BansExact ==
  [][\A h \in Hosts :
       /\ exile'[h] <= hostUntil'[h]
       /\ hostUntil'[h] \in {hostUntil[h], exile'[h]}
          \/ \E s \in soiled : Misplaced(s)' /\ (s \in Open => host[s] = h)]_hostVars

=============================================================================
