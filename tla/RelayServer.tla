---------------------------- MODULE RelayServer ----------------------------
(***************************************************************************)
(* The blind relay server (packages/remote-relay/src/index.ts).            *)
(*                                                                         *)
(* this.channels maps a channel id to a channel object, which holds the    *)
(* authenticated peers and the roles in use.  A connection looks the id up *)
(* once, when it is accepted, and keeps the object it found; its end looks *)
(* the id up again.  An object that has left the map while a connection    *)
(* still holds it lives on.                                                *)
(*                                                                         *)
(* An object is named by the connection that created it.  A connection     *)
(* identity is used once (the code draws a UUID).  Every handler runs to   *)
(* its end in one turn of the event loop, so each is one action.  After    *)
(* ws.close a socket is "closing": frames already sent by the other end    *)
(* still arrive, until the close event.                                    *)
(***************************************************************************)
EXTENDS FiniteSets, Naturals

CONSTANTS
    Conns,       \* connections, each used once
    Ids,         \* channel ids
    None,        \* no channel object
    MaxChannels  \* options.maxChannels

ASSUME RelayAssumption ==
    /\ IsFiniteSet(Ids)
    /\ None \notin Conns
    /\ MaxChannels \in Nat

MaxPeers == 2

Roles == {"desktop", "client"}
NoRole == "none"

VARIABLES
    table,      \* channels: per id, the current channel object or None
    peers,      \* per object: connections that have authenticated
    connecting, \* per object: connectingRoles, the roles in use
    expired,    \* objects past their maximum age or their idle timeout
    sock,       \* per connection: "none", "open", "closing" or "closed"
    channelId,  \* per connection: the id it asked for
    obj,        \* per connection: the channel object it was given
    role,       \* per connection: the role of its hello
    authed,     \* connections that completed the handshake
    cleaned,    \* connections whose cleanup has run
    stopped     \* the server has been stopped

vars == <<table, peers, connecting, expired, sock, channelId, obj, role,
          authed, cleaned, stopped>>

Used(tab) == {id \in Ids : tab[id] # None}

\* The types, and the limit on the map.
TypeOK ==
    /\ table \in [Ids -> Conns \union {None}]
    /\ peers \in [Conns -> SUBSET Conns]
    /\ connecting \in [Conns -> SUBSET Roles]
    /\ expired \subseteq Conns
    /\ sock \in [Conns -> {"none", "open", "closing", "closed"}]
    /\ channelId \in [Conns -> Ids \union {None}]
    /\ obj \in [Conns -> Conns \union {None}]
    /\ role \in [Conns -> Roles \union {NoRole}]
    /\ authed \subseteq Conns
    /\ cleaned \subseteq Conns
    /\ stopped \in BOOLEAN
    /\ Cardinality(Used(table)) <= MaxChannels

Init ==
    /\ table = [id \in Ids |-> None]
    /\ peers = [o \in Conns |-> {}]
    /\ connecting = [o \in Conns |-> {}]
    /\ expired = {}
    /\ sock = [c \in Conns |-> "none"]
    /\ channelId = [c \in Conns |-> None]
    /\ obj = [c \in Conns |-> None]
    /\ role = [c \in Conns |-> NoRole]
    /\ authed = {}
    /\ cleaned = {}
    /\ stopped = FALSE

-----------------------------------------------------------------------------
(* Helpers. *)

\* Mutant: a channel with peers is never swept.
SweptUnused == {id \in Used(table) : table[id] \in expired
                                        /\ peers[table[id]] = {}}

\* The ids whose channel sweepChannels finds expired.
Swept == {id \in Used(table) : table[id] \in expired}

\* ws.close on those of S that are open.
Closing(S) == [c \in Conns |-> IF c \in S /\ sock[c] = "open" THEN "closing"
                               ELSE sock[c]]

\* Mutant: every role of the object is released.
RolesLeftNone(c) == {}

RolesLeft(c) == connecting[obj[c]] \ {role[c]}

\* Mutant: the end of a connection looks at the object it was given.
ActiveOwn(c) == obj[c]

\* The object whose peers a connection's end looks at: the one the id names by
\* then, if any.
Active(c) == IF table[channelId[c]] # None THEN table[channelId[c]] ELSE obj[c]

\* Mutant: peers are removed by role.
PeersLeftByRole(c) == {d \in peers[Active(c)] : role[d] # role[c]}

PeersLeft(c) == peers[Active(c)] \ {c}

\* cleanup, which runs once per connection.  What it deletes is the entry of
\* the id, whichever object that is.
CleanUp(c) ==
    IF c \in cleaned
    THEN UNCHANGED <<table, peers, connecting, cleaned>>
    ELSE /\ cleaned' = cleaned \union {c}
         /\ connecting' = [connecting EXCEPT ![obj[c]] = RolesLeft(c)]
         /\ peers' = [peers EXCEPT ![Active(c)] = PeersLeft(c)]
         /\ table' = IF PeersLeft(c) = {} /\ RolesLeft(c) = {}
                     THEN [table EXCEPT ![channelId[c]] = None]
                     ELSE table

\* fail: the socket is told to close and the connection is cleaned up.
Fail(c) == sock' = Closing({c}) /\ CleanUp(c)

-----------------------------------------------------------------------------
(* handleUpgrade and accept. *)

\* Mutant: one channel more.
RefusedLate(tab, id) ==
    IF tab[id] = None THEN Cardinality(Used(tab)) > MaxChannels
    ELSE Cardinality(peers[tab[id]]) >= MaxPeers

Refused(tab, id) ==
    IF tab[id] = None THEN Cardinality(Used(tab)) >= MaxChannels
    ELSE Cardinality(peers[tab[id]]) >= MaxPeers

Connect(c, id) ==
    /\ ~stopped
    /\ sock[c] = "none"
    /\ LET gone == table[id] # None /\ table[id] \in expired
           tab == IF gone THEN [table EXCEPT ![id] = None] ELSE table
           closed == Closing(IF gone THEN peers[table[id]] ELSE {})
           o == IF tab[id] = None THEN c ELSE tab[id]
       IN IF Refused(tab, id)
          THEN /\ table' = tab
               /\ sock' = [closed EXCEPT ![c] = "closed"]
               /\ UNCHANGED <<channelId, obj>>
          ELSE /\ table' = [tab EXCEPT ![id] = o]
               /\ sock' = [closed EXCEPT ![c] = "open"]
               /\ channelId' = [channelId EXCEPT ![c] = id]
               /\ obj' = [obj EXCEPT ![c] = o]
    /\ UNCHANGED <<peers, connecting, expired, role, authed, cleaned, stopped>>

-----------------------------------------------------------------------------
(* onMessage.  A frame that is forwarded changes nothing here and has no    *)
(* action; that it counts as activity only says when GrowOld may happen.   *)

Receives(c) == sock[c] \in {"open", "closing"}

\* A hello that takes a free role is answered with the nonce.
Hello(c, r) ==
    /\ Receives(c)
    /\ role[c] = NoRole
    /\ r \notin connecting[obj[c]]
    /\ role' = [role EXCEPT ![c] = r]
    /\ connecting' = [connecting EXCEPT ![obj[c]] = @ \union {r}]
    /\ UNCHANGED <<table, peers, expired, sock, channelId, obj, authed,
                   cleaned, stopped>>

\* The proof of the token over the nonce: the connection becomes a peer of its
\* object, also when it has been failed meanwhile.
Authenticate(c) ==
    /\ Receives(c)
    /\ role[c] # NoRole
    /\ c \notin authed
    /\ authed' = authed \union {c}
    /\ peers' = [peers EXCEPT ![obj[c]] = @ \union {c}]
    /\ UNCHANGED <<table, connecting, expired, sock, channelId, obj, role,
                   cleaned, stopped>>

\* A malformed frame, a role in use, a wrong proof, or one frame too many in a
\* second.
BadFrame(c) ==
    /\ Receives(c)
    /\ Fail(c)
    /\ UNCHANGED <<expired, channelId, obj, role, authed, stopped>>

-----------------------------------------------------------------------------
(* Timers and the ends of connections. *)

\* Mutant: the timer is cleared by the hello.
TimerRunsToHello(c) == role[c] = NoRole /\ c \notin authed \union cleaned

\* The timer of a connection is cleared when it authenticates or is cleaned up.
TimerRuns(c) == c \notin authed \union cleaned

HandshakeTimeout(c) ==
    /\ sock[c] = "open"
    /\ TimerRuns(c)
    /\ Fail(c)
    /\ UNCHANGED <<expired, channelId, obj, role, authed, stopped>>

\* The close event: the other end went away, or answered our close.
Close(c) ==
    /\ sock[c] \in {"open", "closing"}
    /\ sock' = [sock EXCEPT ![c] = "closed"]
    /\ CleanUp(c)
    /\ UNCHANGED <<expired, channelId, obj, role, authed, stopped>>

\* sweepChannels, every minute.  Connections that have not authenticated yet
\* are not closed.
Sweep ==
    /\ ~stopped
    /\ Swept # {}
    /\ table' = [id \in Ids |-> IF id \in Swept THEN None ELSE table[id]]
    /\ sock' = Closing(UNION {peers[table[id]] : id \in Swept})
    /\ UNCHANGED <<peers, connecting, expired, channelId, obj, role, authed,
                   cleaned, stopped>>

\* stop closes the peers of the channels in the map and forgets the channels.
Stop ==
    /\ ~stopped
    /\ stopped' = TRUE
    /\ table' = [id \in Ids |-> None]
    /\ sock' = Closing(UNION {peers[table[id]] : id \in Used(table)})
    /\ UNCHANGED <<peers, connecting, expired, channelId, obj, role, authed,
                   cleaned>>

\* Time passes a limit of the channel an id names, and nothing arrives on it
\* before that is noticed.
GrowOld(id) ==
    /\ table[id] # None
    /\ table[id] \notin expired
    /\ expired' = expired \union {table[id]}
    /\ UNCHANGED <<table, peers, connecting, sock, channelId, obj, role,
                   authed, cleaned, stopped>>

-----------------------------------------------------------------------------
Next ==
    \/ \E c \in Conns :
         \/ \E id \in Ids : Connect(c, id)
         \/ \E r \in Roles : Hello(c, r)
         \/ Authenticate(c) \/ BadFrame(c)
         \/ HandshakeTimeout(c) \/ Close(c)
    \/ Sweep \/ Stop
    \/ \E id \in Ids : GrowOld(id)

Spec == Init /\ [][Next]_vars

\* The clock goes on: a channel's age, the handshake timers and the sweep.  A
\* socket that has been told to close is closed within the library's timeout.
Fairness ==
    /\ \A id \in Ids : WF_vars(GrowOld(id))
    /\ \A c \in Conns :
         /\ WF_vars(HandshakeTimeout(c))
         /\ WF_vars(sock[c] = "closing" /\ Close(c))
    /\ WF_vars(Sweep)

FairSpec == Spec /\ Fairness

-----------------------------------------------------------------------------
(* Properties. *)

\* The connections that are authenticated and open.
Live == {c \in authed : sock[c] = "open"}

\* A channel object never has two open peers of one role, so at most one
\* desktop and one client: the role is held from the hello to the cleanup, and
\* no end of another connection releases it, however late its frames arrive.
RoleExclusive ==
    \A c, d \in Live : obj[c] = obj[d] /\ role[c] = role[d] => c = d

\* An open authenticated connection stays among the peers its object forwards
\* to: no other connection's end takes it out.
PeerIsReached == \A c \in Live : c \in peers[obj[c]]

\* The end of a connection never takes the entry of a channel out of the map
\* while another open peer is in it, even if the connection belonged to an
\* earlier channel of the same id.
LivePeersKeepTheirChannel ==
    [][\A id \in Ids, c \in Conns :
         /\ table[id] # None
         /\ c \in peers[table[id]] /\ sock[c] = "open" /\ sock'[c] = "open"
         => table'[id] = table[id]]_vars

\* "Time allowed for a peer to complete the hello+authenticate handshake":
\* whoever does not complete it is disconnected, unless the server stops.
HandshakeEnds ==
    \A c \in Conns : sock[c] = "open" /\ c \notin authed
                       ~> c \in authed \/ sock[c] = "closed"

\* "Maximum lifetime of a channel, even if both peers stay connected": a
\* channel in the map leaves it, also if a late frame has leaked a role or a
\* peer that no cleanup will release.
ChannelsEnd ==
    \A id \in Ids : \A o \in Conns : table[id] = o ~> table[id] # o

\* "A maximum of two authenticated peers" for a channel, even where no channel
\* expires.
TwoPeersPerChannel ==
    expired = {} =>
        \A id \in Ids :
            Cardinality({c \in Live : channelId[c] = id}) <= MaxPeers
=============================================================================
