-------------------------- MODULE ChatSessionProofs --------------------------
(***************************************************************************)
(* Proofs about ChatSession for any number of users, connections, names    *)
(* and authentications under way, and for every subset Unruly of what      *)
(* clients and the network may do.                                         *)
(*                                                                         *)
(* The inductive invariant is the conjunction of the type invariant,       *)
(* UniqueNames and RosterInSync.  UniqueNames is needed because a part     *)
(* packet carries a name and not a user: were a name shared, the departure *)
(* of one user would take the other off every list.                        *)
(***************************************************************************)
EXTENDS ChatSession, TLAPS

-----------------------------------------------------------------------------
(* What the two operations of the map do. *)

(* insertSocket keeps the types, and its user is an author afterwards. *)
LEMMA InsertSocketMap ==
  ASSUME MapTypeOK, NEW u \in Users \cup {Anon}, NEW s \in Sockets, InsertSocket(u, s)
  PROVE  /\ MapTypeOK'
         /\ Authors' = Authors \cup ({u} \cap Users)
         /\ socketId'[s] = u
         /\ \A r \in Sockets : r # s => socketId'[r] = socketId[r]
<1>1. CASE u \in Users
  BY <1>1 DEF MapTypeOK, InsertSocket, Indexed, Authors
<1>2. CASE u = Anon
  BY <1>2, MapAssumption DEF MapTypeOK, InsertSocket, Indexed, Authors
<1> QED BY <1>1, <1>2

(* removeSocket keeps the types, and ends the presence of the user it      *)
(* reports and of nobody else.                                             *)
LEMMA RemoveSocketMap ==
  ASSUME MapTypeOK, NEW s \in Sockets, RemoveSocket(s)
  PROVE  /\ MapTypeOK'
         /\ Authors' = Authors \ (IF Parts(s) THEN {socketId[s]} ELSE {})
         /\ socketId'[s] = NoEntry
         /\ \A r \in Sockets : r # s => socketId'[r] = socketId[r]
<1>1. CASE socketId[s] \in Users
  BY <1>1 DEF MapTypeOK, RemoveSocket, Unindexed, Authors, Parts
<1>2. CASE socketId[s] \notin Users
  BY <1>2 DEF MapTypeOK, RemoveSocket, Unindexed, Authors, Parts
<1> QED BY <1>1, <1>2

(* Every socket the map gives to a user is listed for that user after      *)
(* insertSocket and after removeSocket.                                    *)
LEMMA MapIndexed ==
  ASSUME MapTypeOK, SocketIndexed, NEW s \in Sockets,
         RemoveSocket(s) \/ \E u \in Users \cup {Anon} : InsertSocket(u, s)
  PROVE  SocketIndexed'
<1>1. CASE RemoveSocket(s)
  BY <1>1, MapAssumption DEF MapTypeOK, SocketIndexed, RemoveSocket, Unindexed
<1>2. ASSUME NEW u \in Users \cup {Anon}, InsertSocket(u, s) PROVE SocketIndexed'
  BY <1>2, MapAssumption DEF MapTypeOK, SocketIndexed, InsertSocket, Indexed
<1> QED BY <1>1, <1>2

-----------------------------------------------------------------------------
(* Packets keep the types of what clients have. *)
LEMMA PacketsTypes ==
  ASSUME SessionTypeOK, NEW gone, NEW come \in SUBSET Names, NEW heard,
         NEW unheard \in SUBSET Users, Packets(gone, come, heard, unheard)
  PROVE  roster' \in [Sockets -> SUBSET Names] /\ missed' \in [Sockets -> SUBSET Users]
BY DEF SessionTypeOK, Packets, Kept

LEMMA AnnouncedTypes ==
  ASSUME SessionTypeOK, NEW u, NEW gone, NEW come \in SUBSET Names,
         gone \cup come # {} => u \in Users, Announced(u, gone, come)
  PROVE  roster' \in [Sockets -> SUBSET Names] /\ missed' \in [Sockets -> SUBSET Users]
BY PacketsTypes DEF Announced

(* The type invariant is inductive. *)
LEMMA TypeStep == SessionTypeOK /\ [SessionNext]_sessionVars => SessionTypeOK'
<1> SUFFICES ASSUME SessionTypeOK, [SessionNext]_sessionVars PROVE SessionTypeOK'
  OBVIOUS
<1> USE DEF SessionTypeOK
<1>1. ASSUME NEW s \in Sockets, NewConnection(s) PROVE SessionTypeOK'
  BY <1>1 DEF NewConnection, MapTypeOK
<1>2. ASSUME NEW s \in Sockets, Hello(s) PROVE SessionTypeOK'
  <2>1. MapTypeOK'
    BY <1>2, InsertSocketMap DEF Hello
  <2>2. PICK found \in SUBSET Authors :
          /\ roster' = [roster EXCEPT ![s] = @ \cup NamesIn(found)]
          /\ missed' = [missed EXCEPT ![s] = (@ \cup {u \in Authors : name[u] # NoName}) \ found]
    BY <1>2 DEF Hello
  <2>3. NamesIn(found) \subseteq Names /\ Authors \subseteq Users
    BY <2>2 DEF NamesIn, Authors
  <2>4. roster' \in [Sockets -> SUBSET Names] /\ missed' \in [Sockets -> SUBSET Users]
    BY <2>2, <2>3
  <2> QED BY <1>2, <2>1, <2>4 DEF Hello, Conduct
<1>3. ASSUME NEW s \in Sockets, Disconnect(s) PROVE SessionTypeOK'
  <2>1. MapTypeOK'
    BY <1>3, RemoveSocketMap DEF Disconnect
  <2>2. Leaving(s) # {} => socketId[s] \in Users
    BY DEF Leaving, Parts
  <2>3. roster' \in [Sockets -> SUBSET Names] /\ missed' \in [Sockets -> SUBSET Users]
    <3>1. /\ Announced(socketId[s], Leaving(s), {})
          /\ Leaving(s) \cup {} # {} => socketId[s] \in Users
      BY <1>3, <2>2 DEF Disconnect
    <3>2. {} \in SUBSET Names /\ SessionTypeOK
      OBVIOUS
    <3> HIDE DEF SessionTypeOK
    <3> QED BY <3>1, <3>2, AnnouncedTypes
  <2> QED BY <1>3, <2>1, <2>3 DEF Disconnect, Conduct
<1>4. ASSUME NEW s \in Sockets, DeleteSocket(s) PROVE SessionTypeOK'
  BY <1>4 DEF DeleteSocket, MapTypeOK
<1>5. ASSUME NEW s \in Sockets, NEW u \in Users, NEW want \in Names \cup {NoName},
             Request(s, u, want)
      PROVE  SessionTypeOK'
  BY <1>5 DEF Request, Presents, Conduct, MapTypeOK, Auths
<1>6. ASSUME NEW s \in Sockets, NEW u \in Users, NEW want \in Names \cup {NoName},
             Authenticated(s, u, want), pending' \subseteq pending, soiled' \subseteq Sockets
      PROVE  SessionTypeOK'
  <2>1. MapTypeOK'
    BY <1>6, InsertSocketMap DEF Authenticated, SignedIn, Renamed
  <2>2. CASE SignedIn(s, u)
    <3>1. Arriving(u) \subseteq Names
      BY DEF Arriving
    <3>2. roster' \in [Sockets -> SUBSET Names] /\ missed' \in [Sockets -> SUBSET Users]
      BY <2>2, <3>1, AnnouncedTypes DEF SignedIn
    <3> QED BY <1>6, <2>1, <2>2, <3>2 DEF SignedIn
  <2>3. CASE Renamed(s, u, want)
    <3>1. want \in Names
      BY <2>3 DEF Renamed, Renames
    <3>2. roster' \in [Sockets -> SUBSET Names] /\ missed' \in [Sockets -> SUBSET Users]
      <4>1. Packets({name[u]}, {want}, {u}, {})
        BY <2>3 DEF Renamed
      <4>2. {want} \in SUBSET Names /\ {} \in SUBSET Users /\ SessionTypeOK
        BY <3>1
      <4> HIDE DEF SessionTypeOK
      <4> QED BY <4>1, <4>2, PacketsTypes
    <3> QED BY <1>6, <2>1, <2>3, <3>1, <3>2 DEF Renamed
  <2> QED BY <1>6, <2>2, <2>3 DEF Authenticated
<1>7. ASSUME NEW s \in Sockets, NEW u \in Users, NEW want \in Names \cup {NoName},
             AuthenticateCached(s, u, want)
      PROVE  SessionTypeOK'
  BY <1>6, <1>7 DEF AuthenticateCached, Presents, Conduct
<1>8. ASSUME NEW p \in pending, AuthSucceeds(p) PROVE SessionTypeOK'
  BY <1>6, <1>8 DEF AuthSucceeds, Auths
<1>9. ASSUME NEW p \in pending, AuthFails(p) PROVE SessionTypeOK'
  BY <1>9 DEF AuthFails, MapTypeOK
<1>10. ASSUME NEW u \in Users, CooldownOver(u) PROVE SessionTypeOK'
  BY <1>10 DEF CooldownOver, MapTypeOK
<1>11. CASE Restart
  BY <1>11 DEF Restart, MapTypeOK
<1>12. CASE UNCHANGED sessionVars
  BY <1>12 DEF sessionVars, MapTypeOK
<1> QED
  BY <1>1, <1>2, <1>3, <1>4, <1>5, <1>7, <1>8, <1>9, <1>10, <1>11, <1>12 DEF SessionNext

(* The variables of the map, the connections, the names and the lists have *)
(* the values their C++ types and the database allow.                      *)
THEOREM TypeCorrect == SessionSpec => []SessionTypeOK
<1>1. SessionInit => SessionTypeOK
  BY MapAssumption DEF SessionInit, MapInit, SessionTypeOK, MapTypeOK
<1> QED BY <1>1, TypeStep, PTL DEF SessionSpec

-----------------------------------------------------------------------------
(* Indexing needs nothing but the types: it survives answers that come     *)
(* after the connection is gone and connections that change their user.    *)
LEMMA IndexedStep ==
  SessionTypeOK /\ SocketIndexed /\ [SessionNext]_sessionVars => SocketIndexed'
<1> SUFFICES ASSUME SessionTypeOK, SocketIndexed, [SessionNext]_sessionVars
             PROVE  SocketIndexed'
  OBVIOUS
<1>1. MapTypeOK
  BY DEF SessionTypeOK
<1>2. ASSUME NEW s \in Sockets, Hello(s) \/ Disconnect(s) PROVE SocketIndexed'
  BY <1>1, <1>2, MapIndexed DEF Hello, Disconnect
<1>3. ASSUME NEW s \in Sockets, NEW u \in Users, NEW want \in Names \cup {NoName},
             Authenticated(s, u, want)
      PROVE  SocketIndexed'
  BY <1>1, <1>3, MapIndexed DEF Authenticated, SignedIn, Renamed
<1>4. ASSUME NEW p \in pending, AuthSucceeds(p) PROVE SocketIndexed'
  BY <1>3, <1>4 DEF AuthSucceeds, SessionTypeOK, Auths
<1>5. CASE Restart
  BY <1>5, MapAssumption DEF Restart, SocketIndexed
<1>6. CASE UNCHANGED <<idSocket, socketId>>
  BY <1>6 DEF SocketIndexed
<1> QED
  BY <1>2, <1>3, <1>4, <1>5, <1>6
  DEF SessionNext, NewConnection, DeleteSocket, Request, AuthenticateCached, AuthFails,
      CooldownOver, sessionVars

(* A ban notice, an unban notice or a private reply, which go through      *)
(* socketsForAuthor, reaches every connection that m_socketId gives to the *)
(* user.                                                                   *)
THEOREM IndexedCorrect == SessionSpec => []SocketIndexed
<1>1. SessionInit => SocketIndexed
  BY MapAssumption DEF SessionInit, MapInit, SocketIndexed
<1> QED BY <1>1, IndexedStep, TypeCorrect, PTL DEF SessionSpec

-----------------------------------------------------------------------------
(* A step changes no name, or gives one user a name that nobody has.       *)
LEMMA NameStep ==
  ASSUME SessionTypeOK, [SessionNext]_sessionVars
  PROVE  \/ name' = name
         \/ \E u \in Users, n \in Names : /\ \A v \in Users : name[v] # n
                                          /\ name' = [name EXCEPT ![u] = n]
<1>1. ASSUME NEW s \in Sockets, NEW u \in Users, NEW want \in Names \cup {NoName},
             Authenticated(s, u, want)
      PROVE  \/ name' = name
             \/ \E v \in Users, n \in Names : /\ \A w \in Users : name[w] # n
                                              /\ name' = [name EXCEPT ![v] = n]
  BY <1>1 DEF Authenticated, SignedIn, Renamed, Renames
<1>2. ASSUME NEW p \in pending, AuthSucceeds(p)
      PROVE  \/ name' = name
             \/ \E v \in Users, n \in Names : /\ \A w \in Users : name[w] # n
                                              /\ name' = [name EXCEPT ![v] = n]
  BY <1>1, <1>2 DEF AuthSucceeds, SessionTypeOK, Auths
<1> QED
  BY <1>1, <1>2
  DEF SessionNext, NewConnection, Hello, Disconnect, DeleteSocket, Request,
      AuthenticateCached, AuthFails, CooldownOver, Restart, sessionVars

LEMMA UniqueStep ==
  SessionTypeOK /\ UniqueNames /\ [SessionNext]_sessionVars => UniqueNames'
<1> SUFFICES ASSUME SessionTypeOK, UniqueNames, [SessionNext]_sessionVars
             PROVE  UniqueNames'
  OBVIOUS
<1>1. CASE name' = name
  BY <1>1 DEF UniqueNames
<1>2. ASSUME NEW u \in Users, NEW n \in Names, \A v \in Users : name[v] # n,
             name' = [name EXCEPT ![u] = n]
      PROVE  UniqueNames'
  BY <1>2, SessionAssumption DEF UniqueNames, SessionTypeOK
<1> QED BY <1>1, <1>2, NameStep

-----------------------------------------------------------------------------
(* The names of the users on after the step. *)
NamesNext(on) == {name'[u] : u \in on} \ {NoName}

(* The packets are the difference that the step makes, for a client that   *)
(* missed any set of users.                                                *)
Truthful(gone, come, heard, unheard) ==
  \A m \in SUBSET Users :
    /\ NamesNext(Authors' \ ((m \ heard) \cup unheard)) \subseteq (NamesIn(Authors \ m) \ gone) \cup come
    /\ (NamesIn(Authors \cup m) \ gone) \cup come \subseteq NamesNext(Authors' \cup ((m \ heard) \cup unheard))

(* If the packets of a step turn the old list of names into the new one,   *)
(* those about the users heard only, every list that was right but for     *)
(* some users stays so, that of the served connection s included.          *)
LEMMA PacketsSync ==
  ASSUME SessionTypeOK, RosterInSync,
         NEW s \in Sockets, NEW gone, NEW come, NEW heard, NEW unheard,
         Packets(gone, come, heard, unheard),
         Truthful(gone, come, heard, unheard),
         greeted' \subseteq greeted,
         \A r \in Sockets : r # s => socketId'[r] = socketId[r] /\ conn'[r] = conn[r],
         \/ socketId'[s] # NoEntry /\ conn' = conn
         \/ s \notin greeted' /\ conn'[s] # "open"
  PROVE  RosterInSync'
<1> SUFFICES ASSUME NEW r \in Sockets
             PROVE  /\ r \in greeted' => conn'[r] = "open" /\ socketId'[r] # NoEntry
                    /\ r \in greeted' => NamesIn(Authors \ missed[r])' \subseteq roster'[r]
                    /\ conn'[r] = "open" => roster'[r] \subseteq NamesIn(Authors \cup missed[r])'
                    /\ conn'[r] = "open" /\ socketId'[r] = NoEntry => roster'[r] = {}
                    /\ conn'[r] # "open" => roster'[r] = {} /\ missed'[r] = {}
  BY DEF RosterInSync
<1>1. CASE r \in Reached
  <2>1. /\ roster'[r] = (roster[r] \ gone) \cup come
        /\ missed'[r] = (missed[r] \ heard) \cup unheard
        /\ missed[r] \in SUBSET Users
    BY <1>1 DEF Packets, SessionTypeOK
  <2>2. socketId'[r] # NoEntry /\ conn'[r] = "open" /\ conn[r] = "open"
    BY <1>1 DEF Reached
  <2>3. roster[r] \subseteq NamesIn(Authors \cup missed[r])
    BY <2>2 DEF RosterInSync
  <2>4. r \in greeted => NamesIn(Authors \ missed[r]) \subseteq roster[r]
    BY DEF RosterInSync
  <2>5. NamesIn(Authors \ missed[r])' \subseteq (NamesIn(Authors \ missed[r]) \ gone) \cup come
    <3> DEFINE m == missed[r]
    <3>1. NamesIn(Authors \ missed[r])' = NamesNext(Authors' \ ((m \ heard) \cup unheard))
      BY <2>1 DEF NamesIn, NamesNext
    <3> QED BY <2>1, <3>1 DEF Truthful
  <2>6. (NamesIn(Authors \cup missed[r]) \ gone) \cup come \subseteq NamesIn(Authors \cup missed[r])'
    BY <2>1 DEF NamesIn, NamesNext, Truthful
  <2> QED BY <2>1, <2>2, <2>3, <2>4, <2>5, <2>6
<1>2. CASE r \notin Reached
  <2>1. conn'[r] = "open" => /\ roster'[r] = roster[r] /\ missed'[r] = missed[r]
                             /\ conn[r] = "open" /\ socketId'[r] = NoEntry /\ socketId[r] = NoEntry
    BY <1>2 DEF Packets, Kept, Reached
  <2>2. r \notin greeted' /\ (conn'[r] = "open" => roster[r] = {})
    BY <1>2, <2>1 DEF RosterInSync, Reached
  <2>3. conn'[r] # "open" => roster'[r] = {} /\ missed'[r] = {}
    BY <1>2 DEF Packets, Kept
  <2> QED BY <2>1, <2>2, <2>3
<1> QED BY <1>1, <1>2

(* What insertSocket announces, or fails to, is the difference it makes,   *)
(* and so are the packets of a rename: nobody else has the old name.       *)
LEMMA AuthenticatedSync ==
  ASSUME SessionTypeOK, UniqueNames, RosterInSync,
         NEW s \in Sockets, NEW u \in Users, NEW want \in Names \cup {NoName},
         Authenticated(s, u, want)
  PROVE  RosterInSync'
<1>1. /\ MapTypeOK
      /\ InsertSocket(u, s)
      /\ greeted' = greeted
      /\ conn' = conn
  BY DEF SessionTypeOK, Authenticated, SignedIn, Renamed
<1>2. /\ Authors' = Authors \cup {u}
      /\ socketId'[s] = u
      /\ \A r \in Sockets : r # s => socketId'[r] = socketId[r]
  BY <1>1, InsertSocketMap
<1>3. u # NoEntry
  BY MapAssumption
<1>4. CASE SignedIn(s, u)
  <2>1. name' = name
    BY <1>4 DEF SignedIn
  <2>2. CASE Arriving(u) = {}
    <3>1. Packets({}, {}, {}, {})
      BY <1>4, <2>2 DEF SignedIn, Announced
    <3>2. u \in Authors \/ name[u] = NoName
      BY <2>2 DEF Arriving, Joins, Authors
    <3>3. Truthful({}, {}, {}, {})
      BY <1>2, <2>1, <3>2 DEF Truthful, NamesNext, NamesIn
    <3> QED BY <1>1, <1>2, <1>3, <3>1, <3>3, PacketsSync
  <2>3. CASE Arriving(u) # {}
    <3>1. Arriving(u) = {name[u]} /\ name[u] # NoName
      BY <2>3 DEF Arriving
    <3>2. CASE Packets({}, Arriving(u), {u}, {})
      <4>1. Truthful({}, Arriving(u), {u}, {})
        BY <1>2, <2>1, <3>1 DEF Truthful, NamesNext, NamesIn
      <4> QED BY <1>1, <1>2, <1>3, <3>2, <4>1, PacketsSync
    <3>3. CASE Packets({}, {}, {}, {u})
      <4>1. Truthful({}, {}, {}, {u})
        BY <1>2, <2>1 DEF Truthful, NamesNext, NamesIn
      <4> QED BY <1>1, <1>2, <1>3, <3>3, <4>1, PacketsSync
    <3> QED BY <1>4, <2>3, <3>2, <3>3 DEF SignedIn, Announced
  <2> QED BY <2>2, <2>3
<1>5. CASE Renamed(s, u, want)
  <2>1. /\ want \in Names
        /\ name' = [name EXCEPT ![u] = want]
        /\ Packets({name[u]}, {want}, {u}, {})
    BY <1>5 DEF Renamed, Renames
  <2>2. \A v \in Users : v # u /\ name[v] # NoName => name[v] # name[u]
    BY DEF UniqueNames
  <2>3. /\ \A v \in Users : name'[v] = IF v = u THEN want ELSE name[v]
        /\ want # NoName
        /\ Authors \subseteq Users
    BY <2>1, SessionAssumption DEF SessionTypeOK, Authors
  <2>4. ASSUME NEW m \in SUBSET Users
        PROVE  /\ NamesNext(Authors' \ ((m \ {u}) \cup {})) \subseteq (NamesIn(Authors \ m) \ {name[u]}) \cup {want}
               /\ (NamesIn(Authors \cup m) \ {name[u]}) \cup {want} \subseteq NamesNext(Authors' \cup ((m \ {u}) \cup {}))
    <3>1. ASSUME NEW n \in NamesNext(Authors' \ ((m \ {u}) \cup {}))
          PROVE  n \in (NamesIn(Authors \ m) \ {name[u]}) \cup {want}
      <4>1. PICK v \in Authors \cup {u} : v \notin m \ {u} /\ n = name'[v] /\ n # NoName
        BY <1>2, <3>1 DEF NamesNext
      <4> QED BY <2>2, <2>3, <4>1 DEF NamesIn
    <3>2. ASSUME NEW n \in (NamesIn(Authors \cup m) \ {name[u]}) \cup {want}
          PROVE  n \in NamesNext(Authors' \cup ((m \ {u}) \cup {}))
      <4>1. CASE n = want
        BY <1>2, <2>3, <4>1 DEF NamesNext
      <4>2. CASE n # want
        <5>1. PICK v \in Authors \cup m : n = name[v] /\ n # NoName /\ v # u
          BY <3>2, <4>2 DEF NamesIn
        <5> QED BY <1>2, <2>3, <5>1 DEF NamesNext
      <4> QED BY <4>1, <4>2
    <3> QED BY <3>1, <3>2
  <2>5. Truthful({name[u]}, {want}, {u}, {})
    BY <2>4 DEF Truthful
  <2> QED BY <1>1, <1>2, <1>3, <2>1, <2>5, PacketsSync
<1> QED BY <1>4, <1>5 DEF Authenticated

(* So is the part packet of removeSocket. *)
LEMMA DisconnectSync ==
  ASSUME SessionTypeOK, UniqueNames, RosterInSync, NEW s \in Sockets, Disconnect(s)
  PROVE  RosterInSync'
<1> DEFINE u == socketId[s]
<1>1. /\ Authors' = Authors \ (IF Parts(s) THEN {u} ELSE {})
      /\ \A r \in Sockets : r # s => socketId'[r] = socketId[r]
  BY RemoveSocketMap DEF SessionTypeOK, Disconnect
<1>2. /\ Announced(u, Leaving(s), {})
      /\ greeted' = greeted \ {s}
      /\ conn' = [conn EXCEPT ![s] = "closed"]
      /\ name' = name
  BY DEF Disconnect
<1>3. /\ greeted' \subseteq greeted
      /\ \A r \in Sockets : r # s => conn'[r] = conn[r]
      /\ s \notin greeted' /\ conn'[s] # "open"
  BY <1>2 DEF SessionTypeOK
<1>4. CASE Leaving(s) = {}
  <2>1. Packets({}, {}, {}, {})
    BY <1>2, <1>4 DEF Announced
  <2>2. \/ Authors' = Authors
        \/ Authors' = Authors \ {u} /\ name[u] = NoName
    <3>1. Parts(s) => name[u] = NoName
      BY <1>4 DEF Leaving
    <3>2. ~Parts(s) => Authors' = Authors
      BY <1>1
    <3> QED BY <1>1, <3>1, <3>2
  <2>3. Truthful({}, {}, {}, {})
    BY <1>2, <2>2 DEF Truthful, NamesNext, NamesIn
  <2> QED BY <1>1, <1>3, <2>1, <2>3, PacketsSync
<1>5. CASE Leaving(s) # {}
  <2>1. /\ Leaving(s) = {name[u]} /\ name[u] # NoName
        /\ u \in Users /\ Authors' = Authors \ {u}
        /\ Authors \subseteq Users
    BY <1>1, <1>5 DEF Leaving, Parts, Authors
  <2>2. \A v \in Users : v # u /\ name[v] # NoName => name[v] # name[u]
    BY <2>1 DEF UniqueNames
  <2>3. CASE Packets(Leaving(s), {}, {u}, {})
    <3>1. Truthful(Leaving(s), {}, {u}, {})
      BY <1>2, <2>1, <2>2 DEF Truthful, NamesNext, NamesIn
    <3> QED BY <1>1, <1>3, <2>3, <3>1, PacketsSync
  <2>4. CASE Packets({}, {}, {}, {u})
    <3>1. Truthful({}, {}, {}, {u})
      BY <1>2, <2>1 DEF Truthful, NamesNext, NamesIn
    <3> QED BY <1>1, <1>3, <2>4, <3>1, PacketsSync
  <2> QED BY <1>2, <1>5, <2>3, <2>4 DEF Announced
<1> QED BY <1>4, <1>5

(* So are the join packets of a hello, to the client that said it. *)
LEMMA HelloSync ==
  ASSUME SessionTypeOK, RosterInSync, NEW s \in Sockets, Hello(s)
  PROVE  RosterInSync'
<1>1. MapTypeOK /\ InsertSocket(Anon, s) /\ Anon \in Users \cup {Anon}
  BY DEF SessionTypeOK, Hello
<1>2. /\ Authors' = Authors
      /\ socketId'[s] = Anon
      /\ \A r \in Sockets : r # s => socketId'[r] = socketId[r]
  BY <1>1, InsertSocketMap, MapAssumption
<1>3. PICK found \in SUBSET Authors :
        /\ roster' = [roster EXCEPT ![s] = @ \cup NamesIn(found)]
        /\ missed' = [missed EXCEPT ![s] = (@ \cup {u \in Authors : name[u] # NoName}) \ found]
  BY DEF Hello
<1>4. /\ conn' = conn /\ name' = name /\ conn[s] = "open"
      /\ greeted' = greeted \cup {s}
  BY DEF Hello
<1>5. Anon # NoEntry
  BY MapAssumption
<1>6. ASSUME NEW r \in Sockets, r # s
      PROVE  roster'[r] = roster[r] /\ missed'[r] = missed[r]
  BY <1>3, <1>6 DEF SessionTypeOK
<1>7. /\ roster'[s] = roster[s] \cup NamesIn(found)
      /\ missed'[s] = (missed[s] \cup {u \in Authors : name[u] # NoName}) \ found
  BY <1>3 DEF SessionTypeOK
<1>8. /\ NamesIn(Authors \ missed[s])' \subseteq roster'[s]
      /\ roster'[s] \subseteq NamesIn(Authors \cup missed[s])'
  <2>1. roster[s] \subseteq NamesIn(Authors \cup missed[s])
    BY <1>4 DEF RosterInSync
  <2>2. NamesIn(Authors \ missed[s])' \subseteq NamesIn(found)
    BY <1>2, <1>4, <1>7 DEF NamesIn
  <2>3. NamesIn(found) \subseteq NamesIn(Authors \cup missed[s])'
    BY <1>2, <1>4, <1>7 DEF NamesIn
  <2>4. NamesIn(Authors \cup missed[s]) \subseteq NamesIn(Authors \cup missed[s])'
    BY <1>2, <1>4, <1>7 DEF NamesIn
  <2> QED BY <1>7, <2>1, <2>2, <2>3, <2>4
<1>9. ASSUME NEW r \in Sockets, r # s
      PROVE  /\ NamesIn(Authors \ missed[r])' = NamesIn(Authors \ missed[r])
             /\ NamesIn(Authors \cup missed[r])' = NamesIn(Authors \cup missed[r])
  BY <1>2, <1>4, <1>6, <1>9 DEF NamesIn
<1> QED BY <1>2, <1>4, <1>5, <1>6, <1>8, <1>9 DEF RosterInSync

LEMMA RosterStep ==
  SessionTypeOK /\ UniqueNames /\ RosterInSync /\ [SessionNext]_sessionVars => RosterInSync'
<1> SUFFICES ASSUME SessionTypeOK, UniqueNames, RosterInSync, [SessionNext]_sessionVars
             PROVE  RosterInSync'
  OBVIOUS
<1>1. ASSUME NEW s \in Sockets, NewConnection(s) PROVE RosterInSync'
  <2>1. /\ UNCHANGED <<socketId, greeted, roster, missed>>
        /\ NamesIn(Authors)' = NamesIn(Authors)
        /\ \A r \in Sockets : /\ NamesIn(Authors \ missed[r])' = NamesIn(Authors \ missed[r])
                              /\ NamesIn(Authors \cup missed[r])' = NamesIn(Authors \cup missed[r])
        /\ conn' = [conn EXCEPT ![s] = "open"] /\ conn[s] = "free"
    BY <1>1 DEF NewConnection, NamesIn, Authors
  <2> QED BY <2>1 DEF RosterInSync, SessionTypeOK
<1>2. ASSUME NEW s \in Sockets, DeleteSocket(s) PROVE RosterInSync'
  BY <1>2 DEF DeleteSocket, RosterInSync, SessionTypeOK, NamesIn, Authors
<1>3. ASSUME NEW p \in pending, AuthSucceeds(p) PROVE RosterInSync'
  BY <1>3, AuthenticatedSync DEF AuthSucceeds, SessionTypeOK, Auths
<1>4. CASE Restart
  BY <1>4 DEF Restart, RosterInSync
<1>5. CASE UNCHANGED <<idSocket, socketId, conn, name, greeted, roster, missed>>
  BY <1>5 DEF RosterInSync, NamesIn, Authors
<1> QED
  BY <1>1, <1>2, <1>3, <1>4, <1>5, AuthenticatedSync, DisconnectSync, HelloSync
  DEF SessionNext, Request, AuthenticateCached, AuthFails, CooldownOver, sessionVars

SessionInv == SessionTypeOK /\ SocketIndexed /\ UniqueNames /\ RosterInSync

LEMMA SessionInvariant == SessionSpec => []SessionInv
<1>1. SessionInit => SessionInv
  BY MapAssumption
  DEF SessionInit, MapInit, SessionInv, SessionTypeOK, MapTypeOK, SocketIndexed, UniqueNames, RosterInSync
<1>2. SessionInv /\ [SessionNext]_sessionVars => SessionInv'
  BY TypeStep, IndexedStep, UniqueStep, RosterStep DEF SessionInv
<1> QED BY <1>1, <1>2, PTL DEF SessionSpec

(* No two users ever share a display name. *)
THEOREM UniqueCorrect == SessionSpec => []UniqueNames
BY SessionInvariant, PTL DEF SessionInv

(* Every client that said hello lists the named users of the map, but for  *)
(* those it was not told about because a lookup failed, whatever happens   *)
(* to the connections and however late the answers of the authentication   *)
(* service are.                                                            *)
THEOREM RosterCorrect == SessionSpec => []RosterInSync
BY SessionInvariant, PTL DEF SessionInv

-----------------------------------------------------------------------------
(* The refinement.  RosterInSync' says that the lists are right after a    *)
(* step, so what is left is what the step does to the users that are       *)
(* online, their names, the clients that watch and whom they missed.       *)
LEMMA ListsInSync ==
  ASSUME RosterInSync' PROVE Presence!ListsRight'
BY DEF RosterInSync, NamesIn, Presence!ListsRight, Presence!NamesOf

(* Packets are news for the clients they reach; those in out leave.        *)
LEMMA PacketsNews ==
  ASSUME SessionTypeOK, SessionTypeOK', RosterInSync, RosterInSync', NEW out \in SUBSET Sockets,
         \A r \in Sockets : conn'[r] = "open" <=> conn[r] = "open" /\ r \notin out,
         NEW gone, NEW come, NEW heard, NEW unheard, Packets(gone, come, heard, unheard)
  PROVE  /\ heard = {} /\ unheard = {} =>
              missed' = [c \in Sockets |-> IF c \in out THEN {} ELSE missed[c]]
         /\ \A u \in Users : heard = {u} /\ unheard = {} => Presence!Told(u, out)
         /\ \A u \in Users : heard = {} /\ unheard = {u} => Presence!Untold(u, out)
<1>1. Reached \in SUBSET Sockets /\ greeted' \subseteq Reached
  BY DEF Reached, RosterInSync, SessionTypeOK
<1>2. missed' = [c \in Sockets |-> IF c \in out THEN {}
                                  ELSE IF c \in Reached THEN (missed[c] \ heard) \cup unheard
                                       ELSE missed[c]]
  <2>1. \A c \in Sockets : c \in out => c \notin Reached /\ Kept(missed, c) = {}
    BY DEF Reached, Kept
  <2>2. \A c \in Sockets : c \notin out => Kept(missed, c) = missed[c]
    BY DEF Kept, RosterInSync
  <2>3. \A c \in Sockets :
          (IF c \in Reached THEN (missed[c] \ heard) \cup unheard ELSE Kept(missed, c))
            = IF c \in out THEN {}
              ELSE IF c \in Reached THEN (missed[c] \ heard) \cup unheard ELSE missed[c]
    BY <2>1, <2>2
  <2> QED BY <2>3 DEF Packets
<1>3. heard = {} /\ unheard = {} =>
        missed' = [c \in Sockets |-> IF c \in out THEN {} ELSE missed[c]]
  BY <1>2
<1>4. ASSUME NEW u \in Users, heard = {u}, unheard = {} PROVE Presence!Told(u, out)
  <2>1. missed' = [c \in Sockets |-> IF c \in out THEN {}
                                    ELSE IF c \in Reached THEN missed[c] \ {u} ELSE missed[c]]
    BY <1>2, <1>4
  <2> QED BY <1>1, <2>1 DEF Presence!Told
<1>5. ASSUME NEW u \in Users, heard = {}, unheard = {u} PROVE Presence!Untold(u, out)
  <2>1. missed' = [c \in Sockets |-> IF c \in out THEN {}
                                    ELSE IF c \in Reached THEN missed[c] \cup {u} ELSE missed[c]]
    BY <1>2, <1>5
  <2> QED BY <1>1, <2>1 DEF Presence!Untold
<1> QED BY <1>3, <1>4, <1>5

LEMMA AppearStep ==
  ASSUME SessionInv, SessionInv',
         NEW s \in Sockets, NEW u \in Users, NEW want \in Names \cup {NoName},
         Authenticated(s, u, want)
  PROVE  Presence!Appear(u)
<1>1. /\ SessionTypeOK /\ SessionTypeOK' /\ RosterInSync /\ RosterInSync'
      /\ MapTypeOK /\ InsertSocket(u, s) /\ greeted' = greeted /\ conn' = conn
  BY DEF SessionInv, SessionTypeOK, Authenticated, SignedIn, Renamed
<1>2. Authors' = Authors \cup {u}
  BY <1>1, InsertSocketMap
<1>3. CASE SignedIn(s, u)
  <2>1. name' = name
    BY <1>3 DEF SignedIn
  <2>2. CASE Arriving(u) = {}
    <3>1. Packets({}, {}, {}, {})
      BY <1>3, <2>2 DEF SignedIn, Announced
    <3>2. missed' = [c \in Sockets |-> IF c \in {} THEN {} ELSE missed[c]]
      BY <1>1, <3>1, PacketsNews
    <3>3. missed' = missed
      BY <1>1, <3>2 DEF SessionTypeOK
    <3>4. u \in Authors \/ name[u] = NoName
      BY <2>2 DEF Arriving, Joins, Authors
    <3> QED BY <1>1, <1>2, <2>1, <3>3, <3>4 DEF Presence!Appear
  <2>3. CASE Arriving(u) # {}
    <3>1. u \notin Authors /\ name[u] # NoName
      BY <2>3 DEF Arriving, Joins, Authors
    <3>2. CASE Packets({}, Arriving(u), {u}, {})
      <4>1. Presence!Told(u, {})
        BY <1>1, <3>2, PacketsNews
      <4> QED BY <1>1, <1>2, <2>1, <3>1, <4>1 DEF Presence!Appear
    <3>3. CASE Packets({}, {}, {}, {u})
      <4>1. Presence!Untold(u, {})
        BY <1>1, <3>3, PacketsNews
      <4> QED BY <1>1, <1>2, <2>1, <3>1, <4>1 DEF Presence!Appear
    <3> QED BY <1>3, <2>3, <3>2, <3>3 DEF SignedIn, Announced
  <2> QED BY <2>2, <2>3
<1>4. CASE Renamed(s, u, want)
  <2>1. Packets({name[u]}, {want}, {u}, {})
    BY <1>4 DEF Renamed
  <2>2. Presence!Told(u, {})
    BY <1>1, <2>1, PacketsNews
  <2>3. \E n \in Names : /\ \A v \in Users : name[v] # n
                         /\ name' = [name EXCEPT ![u] = n]
    BY <1>4 DEF Renamed, Renames
  <2> QED BY <1>1, <1>2, <2>2, <2>3 DEF Presence!Appear
<1> QED BY <1>3, <1>4 DEF Authenticated

LEMMA DepartStep ==
  ASSUME SessionInv, SessionInv', NEW s \in Sockets, Disconnect(s)
  PROVE  Presence!Depart(s)
<1> DEFINE u == socketId[s]
<1>1. /\ SessionTypeOK /\ SessionTypeOK' /\ RosterInSync /\ RosterInSync'
      /\ Authors' = Authors \ (IF Parts(s) THEN {u} ELSE {})
      /\ Announced(u, Leaving(s), {})
      /\ greeted' = greeted \ {s} /\ name' = name
      /\ conn' = [conn EXCEPT ![s] = "closed"]
  BY RemoveSocketMap DEF SessionInv, SessionTypeOK, Disconnect
<1>2. \A r \in Sockets : conn'[r] = "open" <=> conn[r] = "open" /\ r \notin {s}
  BY <1>1 DEF SessionTypeOK
<1>3. CASE Leaving(s) = {}
  <2>1. Packets({}, {}, {}, {})
    BY <1>1, <1>3 DEF Announced
  <2>2. missed' = [c \in Sockets |-> IF c \in {s} THEN {} ELSE missed[c]]
    BY <1>1, <1>2, <2>1, PacketsNews
  <2>3. missed' = [missed EXCEPT ![s] = {}]
    BY <1>1, <2>2 DEF SessionTypeOK
  <2>4. Authors' = Authors \/ \E v \in Authors : name[v] = NoName /\ Authors' = Authors \ {v}
    BY <1>1, <1>3 DEF Leaving, Parts
  <2> QED BY <1>1, <2>3, <2>4 DEF Presence!Depart
<1>4. CASE Leaving(s) # {}
  <2>1. u \in Users /\ Authors' = Authors \ {u} /\ Parts(s)
    BY <1>1, <1>4 DEF Leaving, Parts
  <2>2. u \in Authors
    BY <1>1, <2>1 DEF SessionInv, SocketIndexed, Authors
  <2>3. CASE Packets(Leaving(s), {}, {u}, {})
    <3>1. Presence!Told(u, {s})
      BY <1>1, <1>2, <2>1, <2>3, PacketsNews
    <3> QED BY <1>1, <2>1, <2>2, <3>1 DEF Presence!Depart
  <2>4. CASE Packets({}, {}, {}, {u})
    <3>1. Presence!Untold(u, {s})
      BY <1>1, <1>2, <2>1, <2>4, PacketsNews
    <3> QED BY <1>1, <2>1, <2>2, <3>1 DEF Presence!Depart
  <2> QED BY <1>1, <1>4, <2>3, <2>4 DEF Announced
<1> QED BY <1>3, <1>4

LEMMA WatchStep ==
  ASSUME SessionInv, NEW s \in Sockets, Hello(s)
  PROVE  Presence!Watch(s)
<1>1. MapTypeOK /\ InsertSocket(Anon, s) /\ Anon \in Users \cup {Anon}
  BY DEF SessionInv, SessionTypeOK, Hello
<1>2. Authors' = Authors
  BY <1>1, InsertSocketMap, MapAssumption
<1>3. PICK found \in SUBSET Authors :
        missed' = [missed EXCEPT ![s] = (@ \cup {u \in Authors : name[u] # NoName}) \ found]
  BY DEF Hello
<1>4. (missed[s] \cup {u \in Authors : name[u] # NoName}) \ found \in SUBSET (missed[s] \cup Authors)
  OBVIOUS
<1> QED BY <1>2, <1>3, <1>4 DEF Hello, Presence!Watch

(* What a step is for those who do not see packets. *)
LEMMA PresenceMove ==
  ASSUME SessionInv, SessionInv', [SessionNext]_sessionVars
  PROVE  \/ \E u \in Users : Presence!Appear(u)
         \/ \E s \in Sockets : Presence!Watch(s) \/ Presence!Depart(s)
         \/ Presence!StartAgain
         \/ Authors' = Authors /\ UNCHANGED <<name, greeted, roster, missed>>
<1>1. CASE Restart
  BY <1>1 DEF Restart, Presence!StartAgain, Authors
<1>2. ASSUME NEW p \in pending, AuthSucceeds(p) PROVE Presence!Appear(p.user) /\ p.user \in Users
  BY <1>2, AppearStep DEF AuthSucceeds, SessionInv, SessionTypeOK, Auths
<1>3. ASSUME NEW s \in Sockets, NEW u \in Users, NEW want \in Names \cup {NoName},
             AuthenticateCached(s, u, want)
      PROVE  Presence!Appear(u)
  BY <1>3, AppearStep DEF AuthenticateCached
<1>4. CASE UNCHANGED <<idSocket, name, greeted, roster, missed>>
  BY <1>4 DEF Authors
<1> QED
  BY <1>1, <1>2, <1>3, <1>4, DepartStep, WatchStep
  DEF SessionNext, NewConnection, DeleteSocket, Request, AuthFails, CooldownOver,
      sessionVars

LEMMA PresenceStep ==
  ASSUME SessionInv, SessionInv', [SessionNext]_sessionVars
  PROVE  [Presence!PresenceNext]_(Presence!presenceVars)
<1>1. Presence!ListsRight'
  BY ListsInSync DEF SessionInv
<1>2. CASE \/ \E u \in Users : Presence!Appear(u)
           \/ \E s \in Sockets : Presence!Watch(s) \/ Presence!Depart(s)
           \/ Presence!StartAgain
  BY <1>1, <1>2 DEF Presence!PresenceNext
<1>3. CASE Authors' = Authors /\ UNCHANGED <<name, greeted, roster, missed>>
  BY <1>3 DEF Presence!presenceVars
<1> QED BY <1>2, <1>3, PresenceMove

(* ChatSession implements ChatPresence: every client that said hello has,  *)
(* at all times, the list of the named users that are online, but for      *)
(* those the server failed to tell it about when they last came or went.   *)
THEOREM PresenceImplemented == SessionSpec => ImplementsPresence
<1>1. SessionInit => Presence!PresenceInit
  BY MapAssumption DEF SessionInit, MapInit, Presence!PresenceInit, Authors
<1>2. SessionInv /\ SessionInv' /\ [SessionNext]_sessionVars
        => [Presence!PresenceNext]_(Presence!presenceVars)
  BY PresenceStep
<1> QED
  BY <1>1, <1>2, SessionInvariant, PTL
  DEF SessionSpec, ImplementsPresence, Presence!PresenceSpec

-----------------------------------------------------------------------------
(* The map at the addresses that are not soiled.  Every question that is   *)
(* open for one will be answered to the connection that put it, and names  *)
(* its only user.                                                          *)

PendingLive ==
  \A p \in pending : p.skt \notin soiled =>
    conn[p.skt] = "open" /\ UsersOf(p.skt) \subseteq {p.user}

OrderlyParts == OrderlyPaired /\ MapOnlyLive /\ PendingLive
OrderlyInv == SessionTypeOK /\ OrderlyParts

(* What happens at the address s leaves the others orderly. *)
LEMMA OthersKept ==
  ASSUME OrderlyInv, NEW s \in Sockets, soiled \subseteq soiled',
         \A r \in Sockets \ {s} :
           /\ socketId'[r] = socketId[r] /\ conn'[r] = conn[r]
           /\ \A v \in Users : r \in idSocket'[v] <=> r \in idSocket[v],
         \A p \in pending' : p.skt # s => p \in pending,
         s \notin soiled' =>
           /\ \A v \in Users : s \in idSocket'[v] <=> socketId'[s] = v
           /\ conn'[s] # "open" =>
                socketId'[s] = NoEntry /\ \A v \in Users : s \notin idSocket'[v]
           /\ \A p \in pending' : p.skt = s =>
                conn'[s] = "open" /\ UsersOf(s)' \subseteq {p.user}
  PROVE  OrderlyParts'
<1> USE DEF OrderlyInv, OrderlyParts
<1>1. OrderlyPaired'
  BY DEF OrderlyPaired
<1>2. MapOnlyLive'
  BY DEF MapOnlyLive
<1>3. ASSUME NEW p \in pending', p.skt \notin soiled'
      PROVE  conn'[p.skt] = "open" /\ UsersOf(p.skt)' \subseteq {p.user}
  <2>1. CASE p.skt = s
    BY <1>3, <2>1
  <2>2. CASE p.skt # s
    <3>1. p \in pending /\ p.skt \in Sockets
      BY <2>2 DEF SessionTypeOK, Auths
    <3>2. conn[p.skt] = "open" /\ UsersOf(p.skt) \subseteq {p.user}
      BY <1>3, <3>1 DEF PendingLive
    <3>3. UsersOf(p.skt)' \subseteq UsersOf(p.skt)
      BY <2>2, <3>1 DEF UsersOf
    <3> QED BY <2>2, <3>1, <3>2, <3>3
  <2> QED BY <2>1, <2>2
<1>4. PendingLive'
  BY <1>3 DEF PendingLive
<1> QED BY <1>1, <1>2, <1>4

LEMMA OrderlySignIn ==
  ASSUME OrderlyInv, NEW s \in Sockets, NEW u \in Users, NEW want \in Names \cup {NoName},
         soiled \subseteq soiled',
         s \notin soiled' => conn[s] = "open" /\ UsersOf(s) \subseteq {u},
         Authenticated(s, u, want), pending' \subseteq pending
  PROVE  OrderlyParts'
<1> USE DEF OrderlyInv, OrderlyParts, SessionTypeOK, MapTypeOK
<1>1. /\ InsertSocket(u, s)
      /\ conn' = conn
  BY DEF Authenticated, SignedIn, Renamed
<1>2. \A r \in Sockets : socketId'[r] = IF r = s THEN u ELSE socketId[r]
  BY <1>1 DEF InsertSocket
<1>3. \A v \in Users : idSocket'[v] = IF v = u THEN idSocket[v] \cup {s} ELSE idSocket[v]
  BY <1>1 DEF InsertSocket, Indexed
<1>4. CASE s \in soiled'
  BY <1>1, <1>2, <1>3, <1>4, OthersKept
<1>5. CASE s \notin soiled'
  <2>1. \A v \in Users : socketId[s] = v => v = u
    BY <1>5 DEF UsersOf
  <2>7. \A v \in Users : s \in idSocket[v] <=> socketId[s] = v
    BY <1>5 DEF OrderlyPaired
  <2>2. ASSUME NEW v \in Users PROVE s \in idSocket'[v] <=> socketId'[s] = v
    <3>1. socketId'[s] = u
      BY <1>2
    <3>2. CASE v = u
      BY <1>3, <3>1, <3>2
    <3>3. CASE v # u
      <4>1. idSocket'[v] = idSocket[v]
        BY <1>3, <3>3
      <4>2. s \notin idSocket[v]
        BY <2>1, <2>7, <3>3
      <4> QED BY <3>1, <3>3, <4>1, <4>2
    <3> QED BY <3>2, <3>3
  <2>3. ASSUME NEW p \in pending', p.skt = s PROVE UsersOf(s)' \subseteq {p.user}
    <3>1. p \in pending
      OBVIOUS
    <3>2. p.user = u
      BY <1>5, <2>3, <3>1 DEF UsersOf
    <3>3. UsersOf(s)' \subseteq UsersOf(s) \cup {u}
      BY <1>2 DEF UsersOf
    <3>4. UsersOf(s) \subseteq {u}
      BY <1>5
    <3> QED BY <3>2, <3>3, <3>4
  <2>4. conn'[s] = "open" /\ \A p \in pending' : p.skt # s => p \in pending
    BY <1>1, <1>5
  <2>5. \A r \in Sockets \ {s} : socketId'[r] = socketId[r] /\ conn'[r] = conn[r]
    BY <1>1, <1>2
  <2>6. \A r \in Sockets \ {s} : \A v \in Users : r \in idSocket'[v] <=> r \in idSocket[v]
    BY <1>3
  <2> QED BY <2>2, <2>3, <2>4, <2>5, <2>6, OthersKept
<1> QED BY <1>4, <1>5

(* A question at an address that stays unsoiled comes while the connection *)
(* is open, and names its user.                                            *)
LEMMA OrderlyPresents ==
  ASSUME NEW s \in Sockets, NEW u \in Users, Presents(s, u)
  PROVE  /\ soiled \subseteq soiled'
         /\ s \notin soiled' => conn[s] = "open" /\ UsersOf(s) \subseteq {u}
BY DEF Presents, Conduct

LEMMA OrderlyStep ==
  ASSUME OrderlyInv, [SessionNext]_sessionVars
  PROVE  OrderlyInv'
<1> USE DEF OrderlyInv
<1>1. SessionTypeOK'
  BY TypeStep
<1>2. ASSUME NEW s \in Sockets, NewConnection(s) \/ DeleteSocket(s) PROVE OrderlyParts'
  <2>1. /\ UNCHANGED <<idSocket, socketId, pending, soiled>>
        /\ conn[s] # "open"
        /\ \A r \in Sockets \ {s} : conn'[r] = conn[r]
    BY <1>2 DEF NewConnection, DeleteSocket, SessionTypeOK
  <2>2. s \notin soiled => \A p \in pending : p.skt # s
    BY <2>1 DEF OrderlyParts, PendingLive
  <2>3. s \notin soiled => socketId[s] = NoEntry /\ \A v \in Users : s \notin idSocket[v]
    BY <2>1 DEF OrderlyParts, MapOnlyLive
  <2> QED BY <2>1, <2>2, <2>3, MapAssumption, OthersKept
<1>3. ASSUME NEW s \in Sockets, Hello(s) PROVE OrderlyParts'
  <2>1. /\ idSocket' = idSocket
        /\ socketId' = [socketId EXCEPT ![s] = Anon]
        /\ UNCHANGED <<conn, pending>>
        /\ conn[s] = "open"
        /\ soiled \subseteq soiled'
        /\ s \notin soiled' => socketId[s] \notin Users
    BY <1>3, MapAssumption DEF Hello, Conduct, InsertSocket, Indexed
  <2>2. \A r \in Sockets : socketId'[r] = IF r = s THEN Anon ELSE socketId[r]
    BY <2>1 DEF SessionTypeOK, MapTypeOK
  <2>3. UsersOf(s)' \subseteq UsersOf(s)
    BY <2>1, <2>2, MapAssumption DEF UsersOf
  <2>4. s \notin soiled' => \A v \in Users : s \notin idSocket[v]
    BY <2>1 DEF OrderlyParts, OrderlyPaired
  <2>5. s \notin soiled' => \A p \in pending : p.skt = s => UsersOf(s) \subseteq {p.user}
    BY <2>1 DEF OrderlyParts, PendingLive
  <2> QED BY <2>1, <2>2, <2>3, <2>4, <2>5, MapAssumption, OthersKept
<1>4. ASSUME NEW s \in Sockets, Disconnect(s) PROVE OrderlyParts'
  <2>1. /\ RemoveSocket(s)
        /\ conn' = [conn EXCEPT ![s] = "closed"]
        /\ pending' = pending
        /\ soiled \subseteq soiled'
        /\ s \notin soiled' => \A p \in pending : p.skt # s
    BY <1>4 DEF Disconnect, Conduct
  <2>2. \A r \in Sockets : socketId'[r] = IF r = s THEN NoEntry ELSE socketId[r]
    BY <2>1 DEF RemoveSocket, SessionTypeOK, MapTypeOK
  <2>3. \A v \in Users : idSocket'[v] = IF v = socketId[s] THEN idSocket[v] \ {s} ELSE idSocket[v]
    BY <2>1 DEF RemoveSocket, Unindexed, SessionTypeOK, MapTypeOK
  <2>4. s \notin soiled' => \A v \in Users : s \notin idSocket'[v]
    BY <2>1, <2>3 DEF OrderlyParts, OrderlyPaired
  <2>5. \A r \in Sockets \ {s} : socketId'[r] = socketId[r] /\ conn'[r] = conn[r]
    BY <2>1, <2>2 DEF SessionTypeOK
  <2>6. \A r \in Sockets \ {s} : \A v \in Users : r \in idSocket'[v] <=> r \in idSocket[v]
    BY <2>3
  <2>7. socketId'[s] = NoEntry /\ NoEntry \notin Users
    BY <2>2, MapAssumption
  <2>8. \A p \in pending' : p \in pending /\ (s \notin soiled' => p.skt # s)
    BY <2>1
  <2> QED BY <2>1, <2>4, <2>5, <2>6, <2>7, <2>8, OthersKept
<1>5. ASSUME NEW s \in Sockets, NEW u \in Users, NEW want \in Names \cup {NoName},
             Request(s, u, want)
      PROVE  OrderlyParts'
  <2>1. /\ UNCHANGED <<idSocket, socketId, conn>>
        /\ pending' = pending \cup {[skt |-> s, user |-> u, want |-> want]}
        /\ soiled \subseteq soiled'
        /\ s \notin soiled' => conn[s] = "open" /\ UsersOf(s) \subseteq {u}
    BY <1>5, OrderlyPresents DEF Request
  <2>2. UsersOf(s)' \subseteq UsersOf(s) \cup {u}
    BY <2>1 DEF UsersOf
  <2>3. ASSUME s \notin soiled', NEW p \in pending', p.skt = s
        PROVE  UsersOf(s)' \subseteq {p.user}
    <3>1. p.user = u
      BY <2>1, <2>3 DEF UsersOf
    <3>2. UsersOf(s) \subseteq {u}
      BY <2>1, <2>3
    <3> QED BY <2>2, <3>1, <3>2
  <2>4. s \notin soiled' =>
          /\ \A v \in Users : s \in idSocket[v] <=> socketId[s] = v
          /\ conn[s] # "open" => socketId[s] = NoEntry /\ \A v \in Users : s \notin idSocket[v]
    BY <2>1 DEF OrderlyParts, OrderlyPaired, MapOnlyLive
  <2> QED BY <2>1, <2>3, <2>4, OthersKept
<1>6. ASSUME NEW s \in Sockets, NEW u \in Users, NEW want \in Names \cup {NoName},
             AuthenticateCached(s, u, want)
      PROVE  OrderlyParts'
  BY <1>6, OrderlySignIn, OrderlyPresents DEF AuthenticateCached
<1>7. ASSUME NEW p \in pending, AuthSucceeds(p) PROVE OrderlyParts'
  <2>1. p.skt \in Sockets /\ p.user \in Users /\ p.want \in Names \cup {NoName}
    BY DEF SessionTypeOK, Auths
  <2>2. p.skt \notin soiled' => conn[p.skt] = "open" /\ UsersOf(p.skt) \subseteq {p.user}
    BY <1>7 DEF OrderlyParts, PendingLive, AuthSucceeds
  <2> QED BY <1>7, <2>1, <2>2, OrderlySignIn DEF AuthSucceeds
<1>8. ASSUME NEW p \in pending, AuthFails(p) PROVE OrderlyParts'
  BY <1>8 DEF AuthFails, OrderlyParts, OrderlyPaired, MapOnlyLive, PendingLive, UsersOf
<1>9. ASSUME Restart PROVE OrderlyParts'
  BY <1>9, MapAssumption DEF Restart, OrderlyParts, OrderlyPaired, MapOnlyLive, PendingLive
<1>10. ASSUME UNCHANGED <<idSocket, socketId, conn, pending, soiled>> PROVE OrderlyParts'
  BY <1>10 DEF OrderlyParts, OrderlyPaired, MapOnlyLive, PendingLive, UsersOf
<1> QED
  BY <1>1, <1>2, <1>3, <1>4, <1>5, <1>6, <1>7, <1>8, <1>9, <1>10
  DEF SessionNext, CooldownOver, sessionVars

LEMMA OrderlyInvariant == SessionSpec => []OrderlyInv
<1>1. SessionInit => OrderlyInv
  BY MapAssumption, SessionAssumption
  DEF SessionInit, MapInit, OrderlyInv, OrderlyParts, SessionTypeOK, MapTypeOK, OrderlyPaired,
      MapOnlyLive, PendingLive
<1>2. OrderlyInv /\ [SessionNext]_sessionVars => OrderlyInv'
  BY OrderlyStep
<1> QED BY <1>1, <1>2, PTL DEF SessionSpec

(* At the addresses where nothing unruly happened the two maps stay        *)
(* inverse to each other, however connections behave at the others.        *)
THEOREM OrderlyCorrect == SessionSpec => []OrderlyPaired
BY OrderlyInvariant, PTL DEF OrderlyInv, OrderlyParts

(* The map never names a connection that has ended at such an address.  At *)
(* one that is soiled it may (runs late_answer and rehello), and then the  *)
(* next connection that is given the address starts with that entry.       *)
THEOREM LiveCorrect == SessionSpec => []MapOnlyLive
BY OrderlyInvariant, PTL DEF OrderlyInv, OrderlyParts

=============================================================================
