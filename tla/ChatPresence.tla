---------------------------- MODULE ChatPresence ----------------------------
(***************************************************************************)
(* What the server promises about who is in the chat, without sockets,     *)
(* maps, packets or authentication: every client that asked for it has, at *)
(* all times, the list of the named users that are online, but for those   *)
(* the server failed to tell it about.  ChatSession implements this module *)
(* with join and part packets.                                             *)
(***************************************************************************)

CONSTANTS
  Users,    \* everyone with an account
  Clients,  \* those that may watch the list
  Names,    \* display names
  NoName    \* the name of a user that chose none

VARIABLES
  online,    \* the users in the chat
  name,      \* their display names
  watching,  \* the clients that asked for the list
  list,      \* the list each of them has
  missed     \* the users it was not told about when they last came or went

presenceVars == <<online, name, watching, list, missed>>

NamesOf(on) == {name[u] : u \in on} \ {NoName}

(* A list is right about everyone the client was told about. *)
ListsRight ==
  \A c \in Clients :
    IF c \in watching
      THEN NamesOf(online \ missed[c]) \subseteq list[c] /\ list[c] \subseteq NamesOf(online \cup missed[c])
      ELSE list[c] = {}

PresenceInit ==
  /\ online = {}
  /\ name \in [Users -> {NoName}]
  /\ watching = {}
  /\ list = [c \in Clients |-> {}]
  /\ missed = [c \in Clients |-> {}]

(* Every client that watches, and some that do not yet, is told about u,   *)
(* or is not; the clients in out leave.                                    *)
Told(u, out) ==
  \E cs \in SUBSET Clients :
    /\ watching' \subseteq cs
    /\ missed' = [c \in Clients |-> IF c \in out THEN {}
                                  ELSE IF c \in cs THEN missed[c] \ {u} ELSE missed[c]]

Untold(u, out) ==
  \E cs \in SUBSET Clients :
    /\ watching' \subseteq cs
    /\ missed' = [c \in Clients |-> IF c \in out THEN {}
                                  ELSE IF c \in cs THEN missed[c] \cup {u} ELSE missed[c]]

(* A user acts: it is online from now on, and may take a name nobody has.  *)
(* Only the news that a user came may get lost.                            *)
Appear(u) ==
  /\ online' = online \cup {u}
  /\ watching' = watching
  /\ \/ /\ name' = name
        /\ IF u \in online \/ name[u] = NoName THEN missed' = missed
                                              ELSE Told(u, {}) \/ Untold(u, {})
     \/ /\ \E n \in Names : /\ \A v \in Users : name[v] # n
                            /\ name' = [name EXCEPT ![u] = n]
        /\ Told(u, {})

(* A client asks for the list and is told about some of those online. *)
Watch(c) ==
  /\ watching' = watching \cup {c}
  /\ \E m \in SUBSET (missed[c] \cup online) : missed' = [missed EXCEPT ![c] = m]
  /\ UNCHANGED <<online, name>>

(* A client leaves, and with it at most one user. *)
Depart(c) ==
  /\ watching' = watching \ {c}
  /\ name' = name
  /\ \/ /\ \/ online' = online
           \/ \E u \in online : name[u] = NoName /\ online' = online \ {u}
        /\ missed' = [missed EXCEPT ![c] = {}]
     \/ \E u \in online : online' = online \ {u} /\ (Told(u, {c}) \/ Untold(u, {c}))

(* The server starts again: nobody is online, names are kept. *)
StartAgain ==
  /\ online' = {}
  /\ watching' = {}
  /\ missed' = [c \in Clients |-> {}]
  /\ name' = name

PresenceNext ==
  /\ \/ \E u \in Users : Appear(u)
     \/ \E c \in Clients : Watch(c) \/ Depart(c)
     \/ StartAgain
  /\ ListsRight'

PresenceSpec == PresenceInit /\ [][PresenceNext]_presenceVars

=============================================================================
