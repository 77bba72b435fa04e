----------------------------- MODULE PeerRouter -----------------------------
(***************************************************************************)
(* The encrypted sessions two devices hold through the daemon: its         *)
(* WebSocket endpoint (handleRelayUpgrade and handleRelayConnection in     *)
(* packages/remote-daemon/src/index.ts), and the router and the replay     *)
(* guard of relay.ts.  The router is blind: only the receiving end can     *)
(* tell a genuine frame from a damaged one.  A socket the daemon closes    *)
(* goes on delivering messages until its close event.                      *)
(***************************************************************************)
EXTENDS Naturals, FiniteSets, FiniteSetsExt

CONSTANTS
    Sockets,     \* connections there may be at a time
    Sessions,    \* ids of sessions
    SocketLimit, \* 8: connections the daemon takes
    FrameBound   \* bound: genuine frames of one sender

ASSUME RouterAssumption == SocketLimit \in Nat /\ FrameBound \in Nat

VARIABLES
    ws,       \* a connection: its socket, its sessionId
    active,   \* activeRelayConnections
    peers,    \* RelayRouter.sessions: the role of a connection in a session
    sent,     \* genuine frames made, by session and direction
    window,   \* RelayReplayGuard.accepted at the receiving end
    received  \* history: genuine frames accepted

routerVars == <<ws, active, peers, sent, window, received>>

Role == {"client", "server"}

Stream == Sessions \X Role  \* a direction is named by its sender

NoSession == "none"

ASSUME SessionsAssumption == NoSession \notin Sessions

RouterTypeOK ==
    /\ ws \in [Sockets -> [at : {"none", "open", "closing", "failed"},
                           session : Sessions \union {NoSession}]]
    /\ active \in 0..SocketLimit
    /\ peers \subseteq Sessions \X Sockets \X Role
    /\ sent \in [Stream -> 0..FrameBound]
    /\ window \in [Stream -> 0..FrameBound]
    /\ received \in [Stream -> SUBSET (1..FrameBound)]

RouterInit ==
    /\ ws = [c \in Sockets |-> [at |-> "none", session |-> NoSession]]
    /\ active = 0
    /\ peers = {}
    /\ sent = [d \in Stream |-> 0]
    /\ window = [d \in Stream |-> 0]
    /\ received = [d \in Stream |-> {}]

frames3 == <<sent, window, received>>

-----------------------------------------------------------------------------
(* Connections. *)

\* The device is authorized and has an identity.
Upgrade(c) ==
    /\ ws[c].at = "none"
    /\ active < SocketLimit
    /\ ws' = [ws EXCEPT ![c].at = "open"]
    /\ active' = active + 1
    /\ UNCHANGED <<peers, frames3>>

Talking(c) == ws[c].at \in {"open", "closing"}

\* ws.close(1008); messages go on arriving until the close event.
Violates(c) ==
    /\ Talking(c)
    /\ ws' = [ws EXCEPT ![c].at = "closing"]
    /\ UNCHANGED <<active, peers, frames3>>

HandshakeTimeout(c) == ws[c].session = NoSession /\ Violates(c)

\* verifyRelayHandshake: malformed, for another server, of another device, or
\* not signed by the identity the device was paired with.
BadHandshake(c) == ws[c].session = NoSession /\ Violates(c)

\* Not an encrypted frame of this session and direction, or one too many.
BadFrame(c) == ws[c].session # NoSession /\ Violates(c)

\* registerAuthenticated: the session is set before a taken role is refused.
Handshake(c, s, role) ==
    /\ Talking(c) /\ ws[c].session = NoSession
    /\ IF \E p \in peers : p[1] = s /\ p[3] = role
       THEN /\ ws' = [ws EXCEPT ![c] = [at |-> "closing", session |-> s]]
            /\ UNCHANGED peers
       ELSE /\ ws' = [ws EXCEPT ![c].session = s]
            /\ peers' = peers \union {<<s, c, role>>}
    /\ UNCHANGED <<active, frames3>>

\* Mutant: the error and the close of a socket are counted apart.
ClosedTwice(c) == FALSE

AlreadyClosed(c) == ws[c].at = "failed"

\* close of handleRelayConnection.
Close(c) ==
    IF AlreadyClosed(c) THEN UNCHANGED <<active, peers>>
    ELSE /\ active' = IF active = 0 THEN 0 ELSE active - 1
         /\ peers' = {p \in peers : p[2] # c}

SocketError(c) ==
    /\ Talking(c)
    /\ Close(c)
    /\ ws' = [ws EXCEPT ![c] = [at |-> "failed", session |-> NoSession]]
    /\ UNCHANGED frames3

SocketClose(c) ==
    /\ ws[c].at # "none"
    /\ Close(c)
    /\ ws' = [ws EXCEPT ![c] = [at |-> "none", session |-> NoSession]]
    /\ UNCHANGED frames3

-----------------------------------------------------------------------------
(* Frames. *)

\* forwardAuthenticated: the sender is registered for this session, and the
\* frame goes in the direction of its role.
Forwards(c, d) == /\ ws[c].session = d[1]
                  /\ <<d[1], c, d[2]>> \in peers

\* A peer whose socket is open gets the frame.
Reached(c, d) ==
    \E p \in peers : p[1] = d[1] /\ p[2] # c /\ ws[p[2]].at = "open"

\* Mutant: a frame advances the window before it is authenticated.
GuardFirst(d, n, genuine) ==
    /\ window' = [window EXCEPT ![d] = IF n > @ THEN n ELSE @]
    /\ received' = IF genuine /\ n > window[d]
                   THEN [received EXCEPT ![d] = @ \union {n}] ELSE received

\* decryptRelayFrame and RelayReplayGuard.accept.
Decrypt(d, n, genuine) ==
    IF genuine /\ n > window[d]
    THEN /\ window' = [window EXCEPT ![d] = n]
         /\ received' = [received EXCEPT ![d] = @ \union {n}]
    ELSE UNCHANGED <<window, received>>

\* encryptRelayFrame: the number of a frame, its session and its direction
\* are authenticated with it, so a genuine frame is one its sender sealed,
\* be it sent again.
Seal(d, n, genuine) ==
    /\ genuine => n <= sent[d] + 1
    /\ sent' = IF genuine /\ n > sent[d] THEN [sent EXCEPT ![d] = n] ELSE sent

\* A new frame, one that is sent again, or one damaged on its way.
Frame(c, d, n, genuine) ==
    /\ Talking(c)
    /\ Forwards(c, d)
    /\ Seal(d, n, genuine)
    /\ IF Reached(c, d) THEN Decrypt(d, n, genuine)
       ELSE UNCHANGED <<window, received>>
    /\ UNCHANGED <<ws, active, peers>>

RouterNext ==
    \E c \in Sockets :
        \/ Upgrade(c) \/ SocketError(c) \/ SocketClose(c)
        \/ HandshakeTimeout(c) \/ BadHandshake(c) \/ BadFrame(c)
        \/ \E s \in Sessions, role \in Role : Handshake(c, s, role)
        \/ \E d \in Stream, n \in 1..FrameBound, genuine \in BOOLEAN :
             Frame(c, d, n, genuine)

RouterSpec == RouterInit /\ [][RouterNext]_routerVars

-----------------------------------------------------------------------------
(* Properties. *)

\* Through every order of errors, closes, refused handshakes and messages of
\* a closing socket: the count is that of the sockets not yet closed, the
\* router names only those, in their own session, and a session has one peer
\* of a role.
RouterMatchesSockets ==
    /\ active = Cardinality({c \in Sockets : Talking(c)})
    /\ \A p \in peers : Talking(p[2]) /\ ws[p[2]].session = p[1]
    /\ \A p, q \in peers : p[1] = q[1] /\ p[3] = q[3] => p = q

\* Only a genuine frame moves the window of the receiving end, so a damaged
\* one never costs a genuine one its place (decryptRelayFrame).
WindowIsGenuine ==
    \A d \in Stream : window[d] = Max({0} \union received[d])
=============================================================================
