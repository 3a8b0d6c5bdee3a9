----------------------------- MODULE ChatSession -----------------------------
(***************************************************************************)
(* The connections of ChatServer (src/src/chatserver.cpp): accepting them, *)
(* hello, signing in through an authentication module that may answer much *)
(* later, renaming, disconnecting, and the join and part packets that keep *)
(* the user list of every client up to date.                               *)
(*                                                                         *)
(* ChatServer lives in one thread, so a slot or a callback is one step.    *)
(* What interleaves is events: frames and disconnects of several clients,  *)
(* deferred deletions, and answers of the authentication service, each of  *)
(* which runs a callback that std::bind gave a raw QWebSocket* (line 713). *)
(* The QPointer parameter of processAuthenticatedMessage is made from that *)
(* raw pointer when the callback runs, so its null test (599) stops        *)
(* nothing: on a socket that is gone the outcome is undefined.  Either the *)
(* callback goes on as if the object were there (AuthSucceeds, which does  *)
(* not look at conn) or the process dies (Restart).  An address can be     *)
(* allocated again for another connection while the answer is on its way.  *)
(*                                                                         *)
(* Three things a client or the network may do upset the map: a hello on a *)
(* connection that is signed in ("rehello"), a token of a second user on   *)
(* one connection ("switch"), and an end of the connection while an answer *)
(* is under way ("hangup").  The server checks none of them.  Unruly says  *)
(* which happen at all, so that a run can tell what depends on which;      *)
(* soiled remembers the addresses where one did.                           *)
(*                                                                         *)
(* getUserInfoFromUserId may fail (lines 245-252).  The join or part       *)
(* packet about that user is then not sent, and every client the packet    *)
(* was for is left with a list that is wrong about the user, until the     *)
(* next packet about it.  missed remembers whom each client was not told   *)
(* about.  Both are history variables: no guard of the server reads them.  *)
(***************************************************************************)
EXTENDS UserSocketMap, Naturals, FiniteSets

CONSTANTS
  Names,       \* display names up to the collation of users.display_name, so a
               \* rename that changes case only is not one here
  NoName,      \* display_name IS NULL
  Unruly,      \* what clients and the network may do of the above, anywhere
  MaxPending   \* bound: authentications under way

ASSUME SessionAssumption ==
  /\ NoName \notin Names
  /\ Unruly \subseteq {"rehello", "switch", "hangup"}
  /\ MaxPending \in Nat

VARIABLES
  conn,     \* "free": no object at the address; "closed": waits for deleteLater
  pending,  \* callbacks held by the authentication module
  name,     \* users.display_name
  cooling,  \* the users renamed less than 30 days ago
  greeted,  \* the connections whose hello was answered
  roster,   \* the names each client lists after the packets it was sent
  missed,   \* history: the users about whom its last packet was not made
  soiled    \* history: the addresses where something unruly happened, since the start

sessionVars ==
  <<idSocket, socketId, conn, pending, name, cooling, greeted, roster, missed, soiled>>

(* A frame of a signed-in client; want is the name a setuserconf asks for, *)
(* NoName in every other message (and in a setuserconf the length and      *)
(* character tests of lines 902-920 reject).                               *)
Auths == [skt : Sockets, user : Users, want : Names \cup {NoName}]

SessionTypeOK ==
  /\ MapTypeOK
  /\ conn \in [Sockets -> {"free", "open", "closed"}]
  /\ pending \subseteq Auths
  /\ name \in [Users -> Names \cup {NoName}]
  /\ cooling \subseteq Users
  /\ greeted \subseteq Sockets
  /\ roster \in [Sockets -> SUBSET Names]
  /\ missed \in [Sockets -> SUBSET Users]
  /\ soiled \subseteq Sockets

SessionInit ==
  /\ MapInit
  /\ conn = [s \in Sockets |-> "free"]
  /\ pending = {}
  /\ name = [u \in Users |-> NoName]
  /\ cooling = {}
  /\ greeted = {}
  /\ roster = [s \in Sockets |-> {}]
  /\ missed = [s \in Sockets |-> {}]
  /\ soiled = {}

-----------------------------------------------------------------------------
(* Packets.  A client drops the names of part packets from its list and    *)
(* adds those of join packets.                                             *)

(* Those users among on that have a name. *)
NamesIn(on) == {name[u] : u \in on} \ {NoName}

(* The clients a broadcast reaches: the keys of m_socketId, but what is    *)
(* written to a closed or deleted socket reaches no client.                *)
Reached == {r \in Sockets : socketId'[r] # NoEntry /\ conn'[r] = "open"}

(* A client keeps what it has while its connection is open. *)
Kept(f, r) == IF conn'[r] = "open" THEN f[r] ELSE {}

(* Part packets for gone and then join packets for come; heard are the     *)
(* users they are about, unheard those whose packet was not made.          *)
Packets(gone, come, heard, unheard) ==
  /\ roster' = [r \in Sockets |-> IF r \in Reached THEN (roster[r] \ gone) \cup come
                                  ELSE Kept(roster, r)]
  /\ missed' = [r \in Sockets |-> IF r \in Reached THEN (missed[r] \ heard) \cup unheard
                                  ELSE Kept(missed, r)]

(* insertSocket or removeSocket looks u up to announce that it came or     *)
(* went: the packet is sent, or the lookup fails and it is not.            *)
Announced(u, gone, come) ==
  \/ /\ gone \cup come = {}
     /\ Packets({}, {}, {}, {})
  \/ /\ gone \cup come # {}
     /\ Packets(gone, come, {u}, {}) \/ Packets({}, {}, {}, {u})

(* A step at connection s that is unruly in that way if is holds.  At an   *)
(* address that is soiled nobody is to blame: the entry or the answer may  *)
(* be left from an earlier connection.                                     *)
Conduct(way, s, is) ==
  /\ is => way \in Unruly \/ s \in soiled
  /\ soiled' = IF is THEN soiled \cup {s} ELSE soiled

-----------------------------------------------------------------------------
(* handleNewConnection: the map is not told. *)
NewConnection(s) ==
  /\ conn[s] = "free"
  /\ conn' = [conn EXCEPT ![s] = "open"]
  /\ UNCHANGED <<idSocket, socketId, pending, name, cooling, greeted, roster, missed, soiled>>

(* processHello: one join packet for every author with a name whose lookup *)
(* succeeds, and only then insertSocket(0, client), whatever the           *)
(* connection was before.                                                  *)
Hello(s) ==
  /\ conn[s] = "open"
  /\ Conduct("rehello", s, socketId[s] \in Users)
  /\ \E found \in SUBSET Authors :
       /\ roster' = [roster EXCEPT ![s] = @ \cup NamesIn(found)]
       /\ missed' = [missed EXCEPT ![s] = (@ \cup {u \in Authors : name[u] # NoName}) \ found]
  /\ greeted' = greeted \cup {s}
  /\ InsertSocket(Anon, s)
  /\ UNCHANGED <<conn, pending, name, cooling>>

(* The user a connection is known to belong to, by an earlier answer or a  *)
(* question that is still open.                                            *)
UsersOf(s) == ({socketId[s]} \cap Users) \cup {p.user : p \in {q \in pending : q.skt = s}}

(* A client sends a token of u on s. *)
Presents(s, u) ==
  /\ conn[s] = "open"
  /\ Conduct("switch", s, ~ UsersOf(s) \subseteq {u})

(* processClientMessage, for a token whose validity must be asked of the   *)
(* service: authenticate() returns and keeps the callback.                 *)
Request(s, u, want) ==
  /\ Presents(s, u)
  /\ Cardinality(pending) < MaxPending
  /\ pending' = pending \cup {[skt |-> s, user |-> u, want |-> want]}
  /\ UNCHANGED <<idSocket, socketId, conn, name, cooling, greeted, roster, missed>>

(* Bug: the join packet is sent for a user without a name too. *)
BugArriving(u) == IF Joins(u) THEN {name[u]} ELSE {}

(* The name a join packet announces when u signs in on one more socket. *)
Arriving(u) == IF Joins(u) THEN {name[u]} \ {NoName} ELSE {}

(* processSetUserConfig changes the name: it is not the one u has, the     *)
(* last change is long ago and the unique index has no such name.          *)
Renames(u, want) ==
  /\ want \notin {NoName, name[u]}
  /\ u \notin cooling
  /\ \A v \in Users : name[v] # want

(* processAuthenticatedMessage, for any other outcome than a new name:     *)
(* another message, a name that is refused, or a statement of              *)
(* processSetUserConfig that fails.                                        *)
SignedIn(s, u) ==
  /\ InsertSocket(u, s)
  /\ UNCHANGED <<conn, name, cooling, greeted>>
  /\ Announced(u, {}, Arriving(u))

(* Bug: clients are told the new name, never that the old one is gone. *)
BugRenamed(s, u, want) ==
  /\ Renames(u, want)
  /\ InsertSocket(u, s)
  /\ name' = [name EXCEPT ![u] = want]
  /\ cooling' = cooling \cup {u}
  /\ UNCHANGED <<conn, greeted>>
  /\ Packets({}, Arriving(u) \cup {want}, {u}, {})

(* The same with a new name: insertSocket may announce the old one, or     *)
(* fail to, and part(old) and join(want) follow in the same callback.      *)
Renamed(s, u, want) ==
  /\ Renames(u, want)
  /\ InsertSocket(u, s)
  /\ name' = [name EXCEPT ![u] = want]
  /\ cooling' = cooling \cup {u}
  /\ UNCHANGED <<conn, greeted>>
  /\ Packets({name[u]}, {want}, {u}, {})

Authenticated(s, u, want) == SignedIn(s, u) \/ Renamed(s, u, want)

(* The token is in google_tokens and has not expired: the callback runs    *)
(* inside processClientMessage.                                            *)
AuthenticateCached(s, u, want) ==
  /\ Presents(s, u)
  /\ Authenticated(s, u, want)
  /\ pending' = pending

(* The service answered, at any time and in any order. *)
AuthSucceeds(p) ==
  /\ p \in pending
  /\ pending' = pending \ {p}
  /\ Authenticated(p.skt, p.user, p.want)
  /\ soiled' = soiled

(* handleAuthFailure only writes to the socket; an answer may also be lost *)
(* (createNewUser returned 0, or the reply never finishes).                *)
AuthFails(p) ==
  /\ p \in pending
  /\ pending' = pending \ {p}
  /\ UNCHANGED <<idSocket, socketId, conn, name, cooling, greeted, roster, missed, soiled>>

(* The name a part packet announces when connection s goes. *)
Leaving(s) == IF Parts(s) THEN {name[socketId[s]]} \ {NoName} ELSE {}

(* clientDisconnected and removeSocket. *)
Disconnect(s) ==
  /\ conn[s] = "open"
  /\ Conduct("hangup", s, \E p \in pending : p.skt = s)
  /\ RemoveSocket(s)
  /\ conn' = [conn EXCEPT ![s] = "closed"]
  /\ greeted' = greeted \ {s}
  /\ UNCHANGED <<pending, name, cooling>>
  /\ Announced(socketId[s], Leaving(s), {})

(* The deferred deletion; the address can be allocated again. *)
DeleteSocket(s) ==
  /\ conn[s] = "closed"
  /\ conn' = [conn EXCEPT ![s] = "free"]
  /\ UNCHANGED <<idSocket, socketId, pending, name, cooling, greeted, roster, missed, soiled>>

(* Thirty days have passed since the last change of name. *)
CooldownOver(u) ==
  /\ u \in cooling
  /\ cooling' = cooling \ {u}
  /\ UNCHANGED <<idSocket, socketId, conn, pending, name, greeted, roster, missed, soiled>>

(* The process ends, by stop() or a crash, and is started again: what is   *)
(* not in the database is lost.                                            *)
Restart ==
  /\ idSocket' = [u \in Users |-> {}]
  /\ socketId' = [s \in Sockets |-> NoEntry]
  /\ conn' = [s \in Sockets |-> "free"]
  /\ pending' = {}
  /\ greeted' = {}
  /\ roster' = [s \in Sockets |-> {}]
  /\ missed' = [s \in Sockets |-> {}]
  /\ soiled' = {}
  /\ UNCHANGED <<name, cooling>>

SessionNext ==
  \/ \E s \in Sockets : NewConnection(s) \/ Hello(s) \/ Disconnect(s) \/ DeleteSocket(s)
  \/ \E s \in Sockets, u \in Users, want \in Names \cup {NoName} :
       Request(s, u, want) \/ AuthenticateCached(s, u, want)
  \/ \E p \in pending : AuthSucceeds(p) \/ AuthFails(p)
  \/ \E u \in Users : CooldownOver(u)
  \/ Restart

SessionSpec == SessionInit /\ [][SessionNext]_sessionVars

-----------------------------------------------------------------------------
(* Names are what the unique index users.display_name says: no two users   *)
(* share one.  Renaming checks it against the whole table, online or not.  *)
UniqueNames ==
  \A u, v \in Users : name[u] = name[v] /\ u # v => name[u] = NoName

(* The list a client that said hello has built from its own hello and the  *)
(* join and part packets after it is the names of the users in m_idSocket  *)
(* (processHello, insertSocket, removeSocket, processSetUserConfig),       *)
(* however frames, answers that outlive their connection, renames and      *)
(* disconnects interleave.  It is wrong at most about users of whom the    *)
(* client was not told because a lookup failed.  A connection that is      *)
(* signed in without hello lists no one else who is not there, and one the *)
(* map does not know was sent nothing.                                     *)
RosterInSync ==
  \A s \in Sockets :
    /\ s \in greeted => conn[s] = "open" /\ socketId[s] # NoEntry
    /\ s \in greeted => NamesIn(Authors \ missed[s]) \subseteq roster[s]
    /\ conn[s] = "open" => roster[s] \subseteq NamesIn(Authors \cup missed[s])
    /\ conn[s] = "open" /\ socketId[s] = NoEntry => roster[s] = {}
    /\ conn[s] # "open" => roster[s] = {} /\ missed[s] = {}

(* At an address where every connection so far served one user, said hello *)
(* only before that and stayed until it was answered, the two maps are     *)
(* inverse to each other, whatever happens at other addresses: the         *)
(* connection is listed for the user it signed in as and for nobody else,  *)
(* so that user parts when the last of them goes (insertSocket,            *)
(* removeSocket).  An unruly connection may harm the later ones at its own *)
(* address, orderly or not, and no others.                                 *)
OrderlyPaired ==
  \A s \in Sockets \ soiled : \A u \in Users : s \in idSocket[u] <=> socketId[s] = u

(* Once a connection at such an address has ended, the map names it        *)
(* nowhere, so no broadcast, ban notice or private reply writes to its     *)
(* closed or deleted QWebSocket, and the next connection that is given the *)
(* address starts unknown to the map.                                      *)
MapOnlyLive ==
  \A s \in Sockets \ soiled : conn[s] # "open" =>
     /\ socketId[s] = NoEntry
     /\ \A u \in Users : s \notin idSocket[u]

(* The comment on processAuthenticatedMessage (chatserver.cpp:596-598):    *)
(* the client may have disconnected by then, "leading to a deleted         *)
(* socket", and a check stops the callback "before proceeding".  So no     *)
(* step puts a socket that is not there into the map.                      *)
DeletedSocketSkipped ==
  [][\A s \in Sockets : conn[s] = "free" /\ socketId[s] = NoEntry => socketId'[s] = NoEntry]_sessionVars

(* ChatPresence is what the clients are promised; the list of a client     *)
(* that has not said hello is not part of it.                              *)
Presence == INSTANCE ChatPresence WITH
  Clients <- Sockets, online <- Authors, watching <- greeted,
  list <- [s \in Sockets |-> IF s \in greeted THEN roster[s] ELSE {}]

ImplementsPresence == Presence!PresenceSpec

=============================================================================
