------------------------- MODULE RelayServerProofs -------------------------
(***************************************************************************)
(* Proofs about RelayServer, for any number of connections, channel ids    *)
(* and channels.                                                           *)
(***************************************************************************)
EXTENDS RelayServer, FiniteSetTheorems, TLAPS

-----------------------------------------------------------------------------
(* The inductive invariant, part by part. *)

\* A connection that has been accepted knows its channel; one that is not
\* connected yet has done nothing; one that has been cleaned up is not open; a
\* peer has said hello.
Placed ==
    \A c \in Conns :
        /\ sock[c] \in {"open", "closing"}
             => obj[c] \in Conns /\ channelId[c] \in Ids
        /\ sock[c] = "none" => role[c] = NoRole /\ c \notin cleaned
        /\ sock[c] = "open" => c \notin cleaned
        /\ c \in authed => role[c] # NoRole

\* Holders: connections that have said hello and not been cleaned up.  Their
\* roles are in use and no two of one object have the same.
Holds(c) == role[c] # NoRole /\ c \notin cleaned

RolesHeld ==
    \A c \in Conns :
        Holds(c) =>
            /\ obj[c] \in Conns
            /\ role[c] \in connecting[obj[c]]
            /\ \A d \in Conns :
                 Holds(d) /\ obj[d] = obj[c] /\ role[d] = role[c] => c = d

\* A peer stays among the peers of its object until it is cleaned up.
PeersKept ==
    \A c \in authed : c \notin cleaned => c \in peers[obj[c]]

Inv == TypeOK /\ Placed /\ RolesHeld /\ PeersKept

-----------------------------------------------------------------------------
(* Types and the limit on the map. *)

\* Taking an entry out of the map leaves no more in use.
LEMMA FewerUsed ==
    ASSUME NEW tab \in [Ids -> Conns \union {None}],
           NEW new \in [Ids -> Conns \union {None}],
           \A id \in Ids : new[id] \in {tab[id], None}
    PROVE  /\ Cardinality(Used(new)) <= Cardinality(Used(tab))
           /\ Cardinality(Used(new)) \in Nat
           /\ Cardinality(Used(tab)) \in Nat
  <1>1. Used(new) \subseteq Used(tab) /\ Used(tab) \subseteq Ids
    BY DEF Used
  <1>2. IsFiniteSet(Used(tab)) /\ IsFiniteSet(Used(new))
    BY <1>1, RelayAssumption, FS_Subset
  <1>3. QED
    BY <1>1, <1>2, FS_Subset, FS_CardinalityType

\* Filling a free entry of a map below the limit keeps it within the limit.
LEMMA OneMoreUsed ==
    ASSUME NEW tab \in [Ids -> Conns \union {None}], NEW id \in Ids,
           NEW o \in Conns, tab[id] = None,
           ~(Cardinality(Used(tab)) >= MaxChannels)
    PROVE  Cardinality(Used([tab EXCEPT ![id] = o])) <= MaxChannels
  <1>1. Used(tab) \subseteq Ids /\ id \notin Used(tab)
    BY DEF Used
  <1>2. IsFiniteSet(Used(tab))
    BY <1>1, RelayAssumption, FS_Subset
  <1>3. Used([tab EXCEPT ![id] = o]) = Used(tab) \union {id}
    BY RelayAssumption DEF Used
  <1>4. Cardinality(Used(tab) \union {id}) = Cardinality(Used(tab)) + 1
    BY <1>1, <1>2, FS_AddElement
  <1>5. Cardinality(Used(tab)) \in Nat
    BY <1>2, FS_CardinalityType
  <1>6. ASSUME NEW n \in Nat, NEW m \in Nat, ~(n >= m) PROVE n + 1 <= m
    BY <1>6
  <1>7. Cardinality(Used(tab)) + 1 <= MaxChannels
    BY <1>5, <1>6, RelayAssumption
  <1>8. QED
    BY <1>3, <1>4, <1>7

\* What the end of a connection leaves is well typed.
LEMMA CleanUpTyped ==
    ASSUME TypeOK, Placed, NEW c \in Conns, sock[c] \in {"open", "closing"},
           CleanUp(c)
    PROVE  /\ table' \in [Ids -> Conns \union {None}]
           /\ peers' \in [Conns -> SUBSET Conns]
           /\ connecting' \in [Conns -> SUBSET Roles]
           /\ cleaned' \subseteq Conns
           /\ Cardinality(Used(table')) <= MaxChannels
  <1>1. obj[c] \in Conns /\ channelId[c] \in Ids
    BY DEF Placed
  <1>2. /\ table' \in [Ids -> Conns \union {None}]
        /\ \A id \in Ids : table'[id] \in {table[id], None}
    BY <1>1 DEF CleanUp, TypeOK
  <1>3. Active(c) \in Conns
    BY <1>1 DEF Active, TypeOK
  <1>4. /\ peers' \in [Conns -> SUBSET Conns]
        /\ connecting' \in [Conns -> SUBSET Roles]
        /\ cleaned' \subseteq Conns
    BY <1>1, <1>3 DEF CleanUp, TypeOK, PeersLeft, RolesLeft
  <1>5. Cardinality(Used(table')) <= MaxChannels
    BY <1>2, FewerUsed, RelayAssumption DEF TypeOK
  <1>6. QED
    BY <1>2, <1>4, <1>5

\* A socket that is told to close was open.
LEMMA ClosingSockets ==
    ASSUME TypeOK, NEW S
    PROVE  /\ Closing(S) \in [Conns -> {"none", "open", "closing", "closed"}]
           /\ \A c \in Conns :
                /\ Closing(S)[c] = "none" <=> sock[c] = "none"
                /\ Closing(S)[c] = "open" <=> sock[c] = "open" /\ c \notin S
                /\ Closing(S)[c] = "closing" =>
                     sock[c] \in {"open", "closing"}
  BY DEF Closing, TypeOK

LEMMA ConnectTyped ==
    ASSUME TypeOK, NEW c \in Conns, NEW id \in Ids, Connect(c, id)
    PROVE  /\ table' \in [Ids -> Conns \union {None}]
           /\ Cardinality(Used(table')) <= MaxChannels
           /\ sock' \in [Conns -> {"none", "open", "closing", "closed"}]
           /\ channelId' \in [Conns -> Ids \union {None}]
           /\ obj' \in [Conns -> Conns \union {None}]
           /\ \/ sock'[c] = "closed"
              \/ sock'[c] = "open" /\ obj'[c] \in Conns /\ channelId'[c] = id
  <1> DEFINE gone == table[id] # None /\ table[id] \in expired
             tab == IF gone THEN [table EXCEPT ![id] = None] ELSE table
             closed == Closing(IF gone THEN peers[table[id]] ELSE {})
             o == IF tab[id] = None THEN c ELSE tab[id]
  <1>1. tab \in [Ids -> Conns \union {None}]
    BY DEF TypeOK
  <1>2. \A i \in Ids : tab[i] \in {table[i], None}
    BY DEF TypeOK
  <1>3. Cardinality(Used(tab)) <= MaxChannels
    <2> HIDE DEF tab
    <2>1. table \in [Ids -> Conns \union {None}]
      BY DEF TypeOK
    <2>2. Cardinality(Used(table)) <= MaxChannels
      BY DEF TypeOK
    <2>3. /\ Cardinality(Used(tab)) <= Cardinality(Used(table))
          /\ Cardinality(Used(tab)) \in Nat
          /\ Cardinality(Used(table)) \in Nat
      BY <1>1, <1>2, <2>1, FewerUsed
    <2>4. QED
      BY <2>2, <2>3, RelayAssumption
  <1>4. closed \in [Conns -> {"none", "open", "closing", "closed"}]
    BY ClosingSockets
  <1>5. o \in Conns
    <2> HIDE DEF tab
    <2>1. QED
      BY <1>1
  <1>6. CASE Refused(tab, id)
    <2>1. /\ table' = tab
          /\ sock' = [closed EXCEPT ![c] = "closed"]
          /\ UNCHANGED <<channelId, obj>>
      BY <1>6 DEF Connect
    <2>2. QED
      BY <1>1, <1>3, <1>4, <2>1 DEF TypeOK
  <1>7. CASE ~Refused(tab, id)
    <2>1. /\ table' = [tab EXCEPT ![id] = o]
          /\ sock' = [closed EXCEPT ![c] = "open"]
          /\ channelId' = [channelId EXCEPT ![c] = id]
          /\ obj' = [obj EXCEPT ![c] = o]
      BY <1>7 DEF Connect
    <2>2. Cardinality(Used(table')) <= MaxChannels
      <3>1. CASE tab[id] = None
        BY <1>1, <1>5, <1>7, <2>1, <3>1, OneMoreUsed DEF Refused
      <3>2. CASE tab[id] # None
        <4>1. table' = tab
          BY <1>1, <2>1, <3>2
        <4>2. QED
          BY <1>3, <4>1
      <3>3. QED
        BY <3>1, <3>2
    <2>3. QED
      BY <1>1, <1>4, <1>5, <2>1, <2>2 DEF TypeOK
  <1>8. QED
    BY <1>6, <1>7

LEMMA NextTyped == TypeOK /\ Placed /\ [Next]_vars => TypeOK'
  <1> SUFFICES ASSUME TypeOK, Placed, [Next]_vars PROVE TypeOK'
    OBVIOUS
  <1>1. ASSUME NEW c \in Conns, NEW id \in Ids, Connect(c, id) PROVE TypeOK'
    BY <1>1, ConnectTyped DEF Connect, TypeOK
  <1>2. ASSUME NEW c \in Conns, NEW r \in Roles, Hello(c, r) PROVE TypeOK'
    BY <1>2 DEF Hello, Receives, Placed, TypeOK
  <1>3. ASSUME NEW c \in Conns, Authenticate(c) PROVE TypeOK'
    BY <1>3 DEF Authenticate, Receives, Placed, TypeOK
  <1>4. ASSUME NEW c \in Conns,
               BadFrame(c) \/ HandshakeTimeout(c) \/ Close(c)
        PROVE  TypeOK'
    <2>1. sock[c] \in {"open", "closing"} /\ CleanUp(c)
      BY <1>4 DEF BadFrame, HandshakeTimeout, Close, Fail, Receives
    <2>2. sock' \in [Conns -> {"none", "open", "closing", "closed"}]
      BY <1>4, ClosingSockets
      DEF BadFrame, HandshakeTimeout, Close, Fail, TypeOK
    <2>3. UNCHANGED <<expired, channelId, obj, role, authed, stopped>>
      BY <1>4 DEF BadFrame, HandshakeTimeout, Close
    <2>4. QED
      BY <2>1, <2>2, <2>3, CleanUpTyped DEF TypeOK
  <1>5. CASE Sweep \/ Stop
    <2>1. /\ table' \in [Ids -> Conns \union {None}]
          /\ \A id \in Ids : table'[id] \in {table[id], None}
      BY <1>5 DEF Sweep, Stop, TypeOK
    <2>2. Cardinality(Used(table')) <= MaxChannels
      BY <2>1, FewerUsed, RelayAssumption DEF TypeOK
    <2>3. sock' \in [Conns -> {"none", "open", "closing", "closed"}]
      BY <1>5, ClosingSockets DEF Sweep, Stop
    <2>4. QED
      BY <1>5, <2>1, <2>2, <2>3 DEF Sweep, Stop, TypeOK
  <1>6. ASSUME NEW id \in Ids, GrowOld(id) PROVE TypeOK'
    BY <1>6 DEF GrowOld, TypeOK
  <1>7. CASE UNCHANGED vars
    BY <1>7 DEF TypeOK, Used, vars
  <1>8. QED
    BY <1>1, <1>2, <1>3, <1>4, <1>5, <1>6, <1>7 DEF Next

-----------------------------------------------------------------------------
(* Roles and peers. *)

LEMMA InitInv == Init => Inv
  <1> SUFFICES ASSUME Init PROVE Inv
    OBVIOUS
  <1>1. Used(table) = {}
    BY DEF Init, Used
  <1>2. Cardinality(Used(table)) <= MaxChannels
    BY <1>1, FS_EmptySet, RelayAssumption
  <1>3. TypeOK
    BY <1>2 DEF Init, TypeOK
  <1>4. Placed /\ RolesHeld /\ PeersKept
    BY DEF Init, Placed, RolesHeld, Holds, PeersKept
  <1>5. QED
    BY <1>3, <1>4 DEF Inv

\* The end of a connection - by a bad frame, the timer or its socket.
Ends(c) == BadFrame(c) \/ HandshakeTimeout(c) \/ Close(c)

LEMMA EndsFacts ==
    ASSUME Inv, NEW c \in Conns, Ends(c)
    PROVE  /\ sock[c] \in {"open", "closing"}
           /\ sock'[c] \in {"closing", "closed"}
           /\ \A d \in Conns \ {c} : sock'[d] = sock[d]
           /\ CleanUp(c)
           /\ cleaned' = cleaned \union {c}
           /\ UNCHANGED <<expired, channelId, obj, role, authed, stopped>>
  BY DEF Ends, BadFrame, HandshakeTimeout, Close, Receives, Fail, Closing,
         CleanUp, Inv, TypeOK

LEMMA NextPlaced == Inv /\ [Next]_vars => Placed'
  <1> SUFFICES ASSUME Inv, [Next]_vars PROVE Placed'
    OBVIOUS
  <1> USE DEF Inv
  <1>1. ASSUME NEW c \in Conns, NEW id \in Ids, Connect(c, id) PROVE Placed'
    <2>1. PICK S : \/ /\ sock' = [Closing(S) EXCEPT ![c] = "closed"]
                      /\ UNCHANGED <<channelId, obj>>
                   \/ /\ sock' = [Closing(S) EXCEPT ![c] = "open"]
                      /\ channelId' = [channelId EXCEPT ![c] = id]
                      /\ \E o : obj' = [obj EXCEPT ![c] = o]
      BY <1>1 DEF Connect
    <2>2. /\ Closing(S) \in [Conns -> {"none", "open", "closing", "closed"}]
          /\ \A d \in Conns :
               /\ Closing(S)[d] = "none" <=> sock[d] = "none"
               /\ Closing(S)[d] = "open" => sock[d] = "open"
               /\ Closing(S)[d] = "closing" => sock[d] \in {"open", "closing"}
      BY ClosingSockets
    <2>3. \A d \in Conns \ {c} :
            /\ obj'[d] = obj[d] /\ channelId'[d] = channelId[d]
            /\ sock'[d] = Closing(S)[d]
      BY <2>1, <2>2 DEF TypeOK
    <2>4. sock[c] = "none" /\ UNCHANGED <<role, authed, cleaned>>
      BY <1>1 DEF Connect
    <2>5. QED
      BY <1>1, <2>2, <2>3, <2>4, ConnectTyped DEF Placed
  <1>2. ASSUME NEW c \in Conns, NEW r \in Roles, Hello(c, r) PROVE Placed'
    BY <1>2 DEF Hello, Receives, Placed, TypeOK, Roles, NoRole
  <1>3. ASSUME NEW c \in Conns, Authenticate(c) PROVE Placed'
    BY <1>3 DEF Authenticate, Receives, Placed, TypeOK
  <1>4. ASSUME NEW c \in Conns, Ends(c) PROVE Placed'
    BY <1>4, EndsFacts DEF Placed
  <1>5. CASE Sweep \/ Stop
    BY <1>5, ClosingSockets DEF Sweep, Stop, Placed
  <1>6. ASSUME NEW id \in Ids, GrowOld(id) PROVE Placed'
    BY <1>6 DEF GrowOld, Placed
  <1>7. CASE UNCHANGED vars
    BY <1>7 DEF Placed, vars
  <1>8. QED
    BY <1>1, <1>2, <1>3, <1>4, <1>5, <1>6, <1>7 DEF Next, Ends

LEMMA NextRolesHeld == Inv /\ [Next]_vars => RolesHeld'
  <1> SUFFICES ASSUME Inv, [Next]_vars PROVE RolesHeld'
    OBVIOUS
  <1> USE DEF Inv
  <1>1. ASSUME NEW c \in Conns, NEW id \in Ids, Connect(c, id) PROVE RolesHeld'
    <2>1. UNCHANGED <<role, cleaned, connecting>> /\ ~Holds(c)
      BY <1>1 DEF Connect, Placed, Holds
    <2>2. \A d \in Conns \ {c} : obj'[d] = obj[d]
      BY <1>1 DEF Connect, TypeOK
    <2>3. QED
      BY <2>1, <2>2 DEF RolesHeld, Holds
  <1>2. ASSUME NEW c \in Conns, NEW r \in Roles, Hello(c, r) PROVE RolesHeld'
    <2>1. obj[c] \in Conns /\ role[c] = NoRole /\ r \notin connecting[obj[c]]
      BY <1>2 DEF Hello, Receives, Placed
    <2>2. /\ role' = [role EXCEPT ![c] = r]
          /\ connecting' = [connecting EXCEPT ![obj[c]] = @ \union {r}]
          /\ UNCHANGED <<obj, cleaned>>
      BY <1>2 DEF Hello
    <2>3. \A o \in Conns : connecting[o] \subseteq connecting'[o]
      BY <2>1, <2>2 DEF TypeOK
    <2>4. \A d \in Conns : Holds(d) /\ obj[d] = obj[c] => role[d] # r
      BY <2>1 DEF RolesHeld
    <2>5. \A d \in Conns \ {c} : role'[d] = role[d] /\ (Holds(d)' <=> Holds(d))
      BY <2>2 DEF Holds, TypeOK
    <2>6. role'[c] = r /\ r \in connecting'[obj[c]]
      BY <2>1, <2>2 DEF TypeOK
    <2>7. QED
      BY <2>1, <2>2, <2>3, <2>4, <2>5, <2>6 DEF RolesHeld
  <1>3. ASSUME NEW c \in Conns, Authenticate(c) PROVE RolesHeld'
    BY <1>3 DEF Authenticate, RolesHeld, Holds
  <1>4. ASSUME NEW c \in Conns, Ends(c) PROVE RolesHeld'
    <2>1. /\ obj[c] \in Conns
          /\ CleanUp(c)
          /\ cleaned' = cleaned \union {c}
          /\ UNCHANGED <<obj, role>>
      BY <1>4, EndsFacts DEF Placed
    <2>2. \A d \in Conns : Holds(d)' => Holds(d) /\ d # c
      BY <2>1 DEF Holds
    <2>3. ASSUME NEW d \in Conns, Holds(d), d # c
          PROVE  role[d] \in connecting'[obj[d]]
      <3>1. CASE c \in cleaned
        BY <2>1, <2>3, <3>1 DEF CleanUp, RolesHeld
      <3>2. CASE c \notin cleaned
        <4>1. connecting' = [connecting EXCEPT ![obj[c]] = RolesLeft(c)]
          BY <2>1, <3>2 DEF CleanUp
        <4>2. obj[d] = obj[c] => role[d] # role[c]
          BY <2>3, <3>2 DEF RolesHeld, Holds
        <4>3. role[d] \in connecting[obj[d]] /\ obj[d] \in Conns
          BY <2>3 DEF RolesHeld
        <4>4. QED
          BY <2>1, <4>1, <4>2, <4>3 DEF RolesLeft, TypeOK
      <3>3. QED
        BY <3>1, <3>2
    <2>4. QED
      BY <2>1, <2>2, <2>3 DEF RolesHeld
  <1>5. CASE Sweep \/ Stop
    BY <1>5 DEF Sweep, Stop, RolesHeld, Holds
  <1>6. ASSUME NEW id \in Ids, GrowOld(id) PROVE RolesHeld'
    BY <1>6 DEF GrowOld, RolesHeld, Holds
  <1>7. CASE UNCHANGED vars
    BY <1>7 DEF RolesHeld, Holds, vars
  <1>8. QED
    BY <1>1, <1>2, <1>3, <1>4, <1>5, <1>6, <1>7 DEF Next, Ends

LEMMA NextPeersKept == Inv /\ [Next]_vars => PeersKept'
  <1> SUFFICES ASSUME Inv, [Next]_vars PROVE PeersKept'
    OBVIOUS
  <1> USE DEF Inv
  <1>1. ASSUME NEW c \in Conns, NEW id \in Ids, Connect(c, id) PROVE PeersKept'
    <2>1. UNCHANGED <<peers, authed, cleaned>> /\ c \notin authed
      BY <1>1 DEF Connect, Placed
    <2>2. \A d \in Conns \ {c} : obj'[d] = obj[d]
      BY <1>1 DEF Connect, TypeOK
    <2>3. QED
      BY <2>1, <2>2 DEF PeersKept, TypeOK
  <1>2. ASSUME NEW c \in Conns, NEW r \in Roles, Hello(c, r) PROVE PeersKept'
    BY <1>2 DEF Hello, PeersKept
  <1>3. ASSUME NEW c \in Conns, Authenticate(c) PROVE PeersKept'
    <2>1. obj[c] \in Conns
      BY <1>3 DEF Authenticate, Receives, Placed
    <2>2. /\ \A o \in Conns : peers[o] \subseteq peers'[o]
          /\ c \in peers'[obj[c]]
          /\ authed' = authed \union {c}
          /\ UNCHANGED <<obj, cleaned>>
      BY <1>3, <2>1 DEF Authenticate, TypeOK
    <2>3. \A d \in authed : d \notin cleaned => obj[d] \in Conns
      BY DEF RolesHeld, Holds, Placed, TypeOK
    <2>4. QED
      BY <2>2, <2>3 DEF PeersKept
  <1>4. ASSUME NEW c \in Conns, Ends(c) PROVE PeersKept'
    <2>1. /\ obj[c] \in Conns
          /\ CleanUp(c)
          /\ cleaned' = cleaned \union {c}
          /\ UNCHANGED <<obj, authed>>
      BY <1>4, EndsFacts DEF Placed
    <2>2. \A o \in Conns : peers[o] \ {c} \subseteq peers'[o]
      BY <2>1 DEF CleanUp, PeersLeft, TypeOK
    <2>3. \A d \in authed : d \notin cleaned => obj[d] \in Conns
      BY DEF RolesHeld, Holds, Placed, TypeOK
    <2>4. QED
      BY <2>1, <2>2, <2>3 DEF PeersKept
  <1>5. CASE Sweep \/ Stop
    BY <1>5 DEF Sweep, Stop, PeersKept
  <1>6. ASSUME NEW id \in Ids, GrowOld(id) PROVE PeersKept'
    BY <1>6 DEF GrowOld, PeersKept
  <1>7. CASE UNCHANGED vars
    BY <1>7 DEF PeersKept, vars
  <1>8. QED
    BY <1>1, <1>2, <1>3, <1>4, <1>5, <1>6, <1>7 DEF Next, Ends

LEMMA Invariance == Spec => []Inv
  <1>1. Inv /\ [Next]_vars => Inv'
    BY NextTyped, NextPlaced, NextRolesHeld, NextPeersKept DEF Inv
  <1>2. QED
    BY <1>1, InitInv, PTL DEF Spec

\* The variables keep to their types, and the map to its limit.
THEOREM TypeCorrect == Spec => []TypeOK
  BY Invariance, PTL DEF Inv

\* However the ends of connections, their late frames and the sweep interleave,
\* a channel object has at most one open peer of each role.
THEOREM RolesExclusive == Spec => []RoleExclusive
  <1>1. Inv => RoleExclusive
    BY DEF Inv, TypeOK, Placed, RolesHeld, Holds, RoleExclusive, Live
  <1>2. QED
    BY <1>1, Invariance, PTL

\* An open authenticated peer is never taken out of the object it forwards in.
THEOREM PeersReached == Spec => []PeerIsReached
  <1>1. Inv => PeerIsReached
    BY DEF Inv, TypeOK, Placed, PeersKept, PeerIsReached, Live
  <1>2. QED
    BY <1>1, Invariance, PTL

\* No end of a connection drops the channel object an open peer forwards in.
THEOREM PeersKeepTheirChannel == Spec => LivePeersKeepTheirChannel
  <1> DEFINE Kept ==
        \A id \in Ids, c \in Conns :
          /\ table[id] # None
          /\ c \in peers[table[id]] /\ sock[c] = "open" /\ sock'[c] = "open"
          => table'[id] = table[id]
  <1>1. ASSUME Inv, [Next]_vars PROVE Kept
    <2> SUFFICES ASSUME NEW id \in Ids, NEW c \in Conns,
                        table[id] # None, c \in peers[table[id]],
                        sock[c] = "open", sock'[c] = "open"
                 PROVE  table'[id] = table[id]
      OBVIOUS
    <2> USE <1>1 DEF Inv
    <2>1. table[id] \in Conns
      BY DEF TypeOK
    <2>2. ASSUME NEW d \in Conns, NEW i \in Ids, Connect(d, i)
          PROVE  table'[id] = table[id]
      <3>1. CASE i = id /\ table[i] \in expired
        <4>1. d # c
          BY <2>2 DEF Connect
        <4>2. sock'[c] = Closing(peers[table[id]])[c]
          BY <2>1, <2>2, <3>1, <4>1, ClosingSockets DEF Connect
        <4>3. QED
          BY <4>2, ClosingSockets
      <3>2. CASE ~(i = id /\ table[i] \in expired)
        <4>1. i # id => table'[id] = table[id]
          BY <2>2 DEF Connect, TypeOK
        <4>2. i = id => table'[id] = table[id]
          BY <2>1, <2>2, <3>2 DEF Connect, TypeOK
        <4>3. QED
          BY <4>1, <4>2
      <3>3. QED
        BY <3>1, <3>2
    <2>3. ASSUME NEW d \in Conns, Ends(d)
          PROVE  table'[id] = table[id]
      <3>1. /\ CleanUp(d) /\ d # c /\ channelId[d] \in Ids
            /\ obj[d] \in Conns
        BY <2>3, EndsFacts DEF Placed
      <3>2. CASE channelId[d] = id
        <4>1. Active(d) = table[id]
          BY <3>2 DEF Active
        <4>2. c \in PeersLeft(d)
          BY <3>1, <4>1 DEF PeersLeft
        <4>3. QED
          BY <3>1, <4>2 DEF CleanUp
      <3>3. CASE channelId[d] # id
        BY <3>1, <3>3 DEF CleanUp, TypeOK
      <3>4. QED
        BY <3>2, <3>3
    <2>4. CASE Sweep
      <3>1. id \notin Swept
        <4>1. sock'[c] = Closing(UNION {peers[table[i]] : i \in Swept})[c]
          BY <2>4 DEF Sweep
        <4>2. c \notin UNION {peers[table[i]] : i \in Swept}
          BY <4>1, ClosingSockets
        <4>3. QED
          BY <4>2
      <3>2. QED
        BY <2>4, <3>1 DEF Sweep
    <2>5. CASE Stop
      <3>1. id \in Used(table)
        BY DEF Used
      <3>2. sock'[c] = Closing(UNION {peers[table[i]] : i \in Used(table)})[c]
        BY <2>5 DEF Stop
      <3>3. QED
        BY <3>1, <3>2, ClosingSockets
    <2>6. ASSUME NEW d \in Conns, NEW r \in Roles,
                 Hello(d, r) \/ Authenticate(d)
          PROVE  table'[id] = table[id]
      BY <2>6 DEF Hello, Authenticate
    <2>7. ASSUME NEW i \in Ids, GrowOld(i)
          PROVE  table'[id] = table[id]
      BY <2>7 DEF GrowOld
    <2>8. CASE UNCHANGED vars
      BY <2>8 DEF vars
    <2>9. CASE Next
      <3>1. ASSUME NEW d \in Conns,
                   \/ \E i \in Ids : Connect(d, i)
                   \/ \E r \in Roles : Hello(d, r)
                   \/ Authenticate(d) \/ Ends(d)
            PROVE  table'[id] = table[id]
        <4>1. CASE \E r \in Roles : Hello(d, r)
          BY <2>6, <4>1
        <4>2. CASE Authenticate(d)
          BY <2>6, <4>2 DEF Roles
        <4>3. QED
          BY <2>2, <2>3, <3>1, <4>1, <4>2
      <3>2. QED
        BY <2>4, <2>5, <2>7, <2>9, <3>1 DEF Next, Ends
    <2>10. QED
      BY <1>1, <2>8, <2>9
  <1>2. Inv /\ [Next]_vars => [Kept]_vars
    BY <1>1
  <1>3. [][Kept]_vars => LivePeersKeepTheirChannel
    BY PTL DEF LivePeersKeepTheirChannel
  <1>4. QED
    BY <1>2, <1>3, Invariance, PTL DEF Spec

=============================================================================
