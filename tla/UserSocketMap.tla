---------------------------- MODULE UserSocketMap ----------------------------
(***************************************************************************)
(* The class UserSocketMap (src/src/usersocketmap.h): two hash maps that   *)
(* pair WebSocket connections with user ids.  m_idSocket maps a user to    *)
(* the connections it owns, m_socketId maps a connection to the user (or   *)
(* to id 0 while it is anonymous).  ChatServer calls it from one thread,   *)
(* so each operation is one step; the module has operations and no Next,   *)
(* and ChatSession composes them into handlers.                            *)
(*                                                                         *)
(* A key of m_idSocket always has a nonempty list (insertSocket appends,   *)
(* removeSocket erases the key with the last element), and no socket is    *)
(* listed twice, so a list is a set here and an absent key the empty set.  *)
(***************************************************************************)

CONSTANTS
  Users,    \* ids of rows of table users
  Sockets,  \* addresses at which a QWebSocket object can be allocated
  Anon,     \* the id 0 of a connection that presented no token
  NoEntry   \* "not a key of m_socketId"

ASSUME MapAssumption ==
  /\ Anon \notin Users
  /\ NoEntry \notin Users
  /\ Anon # NoEntry

VARIABLES
  idSocket,  \* m_idSocket
  socketId   \* m_socketId

mapVars == <<idSocket, socketId>>

MapTypeOK ==
  /\ idSocket \in [Users -> SUBSET Sockets]
  /\ socketId \in [Sockets -> Users \cup {Anon, NoEntry}]

MapInit ==
  /\ idSocket = [u \in Users |-> {}]
  /\ socketId = [s \in Sockets |-> NoEntry]

(* authors(): the keys of m_idSocket. *)
Authors == {u \in Users : idSocket[u] # {}}

(***************************************************************************)
(* insertSocket(author, skt).  Its return value, "joined", is Joins.  The  *)
(* socket is never taken out of the list of the user it had before.        *)
(***************************************************************************)

(* Bug: the socket is listed only for a user that is not online yet. *)
BugIndexed(u, s) ==
  IF u \in Users /\ idSocket[u] = {} THEN [idSocket EXCEPT ![u] = {s}] ELSE idSocket

Indexed(u, s) ==
  IF u \in Users THEN [idSocket EXCEPT ![u] = @ \cup {s}] ELSE idSocket

InsertSocket(u, s) ==
  /\ idSocket' = Indexed(u, s)
  /\ socketId' = [socketId EXCEPT ![s] = u]

Joins(u) == u \in Users /\ idSocket[u] = {}

(***************************************************************************)
(* removeSocket(skt).  It returns the user whose last socket this was      *)
(* (Parts), or 0.  A socket whose current id is 0 is erased from           *)
(* m_socketId only.                                                        *)
(***************************************************************************)

(* Bug: the socket stays listed under its user. *)
BugUnindexed(s) == idSocket

Unindexed(s) ==
  IF socketId[s] \in Users THEN [idSocket EXCEPT ![socketId[s]] = @ \ {s}] ELSE idSocket

(* Bug: a socket that is anonymous by now is kept. *)
BugRemoveSocket(s) ==
  /\ idSocket' = Unindexed(s)
  /\ socketId' = [socketId EXCEPT ![s] = IF @ \in Users THEN NoEntry ELSE @]

RemoveSocket(s) ==
  /\ idSocket' = Unindexed(s)
  /\ socketId' = [socketId EXCEPT ![s] = NoEntry]

(* Bug: "parted" is reported whenever a signed-in socket goes away. *)
BugParts(s) == socketId[s] \in Users

Parts(s) == socketId[s] \in Users /\ idSocket[socketId[s]] \subseteq {s}

-----------------------------------------------------------------------------
(* The connection a user last signed in on is listed for that user, so a   *)
(* reply, a ban notice or an unban notice sent through socketsForAuthor     *)
(* reaches every connection whose m_socketId names the user.               *)
SocketIndexed ==
  \A s \in Sockets : \A u \in Users : socketId[s] = u => s \in idSocket[u]

(* What the class is for (usersocketmap.h:7): the two maps are inverse to  *)
(* each other.                                                             *)
Pairing ==
  \A s \in Sockets : \A u \in Users : s \in idSocket[u] <=> socketId[s] = u

=============================================================================
