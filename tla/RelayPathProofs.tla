-------------------------- MODULE RelayPathProofs ---------------------------
(***************************************************************************)
(* Proofs about the path of a request over the relay, for any number of    *)
(* sockets, sessions, frames and calls: at the relay endpoint of the       *)
(* daemon the count of connections and the router follow the sockets, and  *)
(* the replay window follows the genuine frames (PeerRouter); through the  *)
(* tunnel a request reaches the daemon once (RelayTunnel).                 *)
(***************************************************************************)
EXTENDS PeerRouter, RelayTunnel, FiniteSetTheorems, TLAPS

\* The sockets that are not yet closed.
TalkingNow == {c \in Sockets : Talking(c)}

SocketType == [at : {"none", "open", "closing", "failed"},
               session : Sessions \union {NoSession}]

SocketsTyped ==
    /\ ws \in [Sockets -> SocketType]
    /\ peers \subseteq Sessions \X Sockets \X Role

CountFollows ==
    /\ IsFiniteSet(TalkingNow)
    /\ active = Cardinality(TalkingNow)
    /\ active \in 0..SocketLimit

PeersFollow ==
    /\ \A p \in peers : Talking(p[2]) /\ ws[p[2]].session = p[1]
    /\ \A p, q \in peers : p[1] = q[1] /\ p[3] = q[3] => p = q

-----------------------------------------------------------------------------
(* The sockets and the router. *)

LEMMA SocketsStep ==
  SocketsTyped /\ [RouterNext]_routerVars => SocketsTyped'
  <1> SUFFICES ASSUME SocketsTyped, [RouterNext]_routerVars
               PROVE  SocketsTyped'
    OBVIOUS
  <1> USE DEF SocketsTyped, SocketType, Close
  <1>1. ASSUME NEW c \in Sockets,
               \/ Upgrade(c) \/ Violates(c)
               \/ SocketError(c) \/ SocketClose(c)
        PROVE  SocketsTyped'
    BY <1>1 DEF Upgrade, Violates, SocketError, SocketClose
  <1>2. ASSUME NEW c \in Sockets, NEW s \in Sessions, NEW role \in Role,
               Handshake(c, s, role)
        PROVE  SocketsTyped'
    BY <1>2 DEF Handshake
  <1>3. ASSUME NEW c \in Sockets, NEW d \in Stream, NEW n \in 1..FrameBound,
               NEW genuine \in BOOLEAN, Frame(c, d, n, genuine)
        PROVE  SocketsTyped'
    BY <1>3 DEF Frame
  <1>4. CASE UNCHANGED routerVars
    BY <1>4 DEF routerVars
  <1> QED
    BY <1>1, <1>2, <1>3, <1>4 DEF RouterNext, HandshakeTimeout,
                                   BadHandshake, BadFrame

\* A socket that stays open or closing keeps the set as it is.
LEMMA CountKept ==
  ASSUME CountFollows, UNCHANGED active, TalkingNow' = TalkingNow
  PROVE  CountFollows'
  BY DEF CountFollows

LEMMA CountStep ==
  SocketsTyped /\ CountFollows /\ [RouterNext]_routerVars => CountFollows'
  <1> SUFFICES ASSUME SocketsTyped, CountFollows, [RouterNext]_routerVars
               PROVE  CountFollows'
    OBVIOUS
  <1> USE DEF SocketsTyped, SocketType, TalkingNow, Talking
  <1>1. ASSUME NEW c \in Sockets, Upgrade(c)
        PROVE  CountFollows'
    <2>1. TalkingNow' = TalkingNow \union {c} /\ c \notin TalkingNow
      BY <1>1 DEF Upgrade
    <2>2. /\ IsFiniteSet(TalkingNow')
          /\ Cardinality(TalkingNow') = Cardinality(TalkingNow) + 1
      <3> HIDE DEF TalkingNow
      <3> QED
        BY <2>1, FS_AddElement DEF CountFollows
    <2> QED
      BY <1>1, <2>2, RouterAssumption DEF CountFollows, Upgrade
  <1>2. ASSUME NEW c \in Sockets, Violates(c)
        PROVE  CountFollows'
    <2>1. TalkingNow' = TalkingNow
      BY <1>2 DEF Violates
    <2> QED
      BY <1>2, <2>1, CountKept DEF Violates
  <1>3. ASSUME NEW c \in Sockets, Talking(c), Close(c),
               NEW place \in {"none", "failed"},
               ws' = [ws EXCEPT ![c] = [at |-> place, session |-> NoSession]]
        PROVE  CountFollows'
    <2>1. TalkingNow' = TalkingNow \ {c} /\ c \in TalkingNow
      BY <1>3
    <2>2. /\ IsFiniteSet(TalkingNow')
          /\ Cardinality(TalkingNow') = Cardinality(TalkingNow) - 1
      <3> HIDE DEF TalkingNow
      <3> QED
        BY <2>1, FS_RemoveElement DEF CountFollows
    <2>3. active # 0
      <3> HIDE DEF TalkingNow
      <3> QED
        BY <2>1, FS_EmptySet DEF CountFollows
    <2>4. active' = active - 1
      BY <1>3, <2>3 DEF Close, AlreadyClosed
    <2> QED
      BY <2>2, <2>3, <2>4, RouterAssumption DEF CountFollows
  <1>4. ASSUME NEW c \in Sockets, SocketError(c)
        PROVE  CountFollows'
    BY <1>3, <1>4 DEF SocketError
  <1>5. ASSUME NEW c \in Sockets, SocketClose(c)
        PROVE  CountFollows'
    <2>1. CASE Talking(c)
      BY <1>3, <1>5, <2>1 DEF SocketClose
    <2>2. CASE ~Talking(c)
      <3>1. TalkingNow' = TalkingNow
        BY <1>5, <2>2 DEF SocketClose
      <3>2. ws[c].at = "failed"
        BY <1>5, <2>2 DEF SocketClose
      <3> QED
        BY <1>5, <3>1, <3>2, CountKept DEF SocketClose, Close, AlreadyClosed
    <2> QED
      BY <2>1, <2>2
  <1>6. ASSUME NEW c \in Sockets, NEW s \in Sessions, NEW role \in Role,
               Handshake(c, s, role)
        PROVE  CountFollows'
    <2>1. TalkingNow' = TalkingNow
      BY <1>6 DEF Handshake
    <2> QED
      BY <1>6, <2>1, CountKept DEF Handshake
  <1>7. ASSUME NEW c \in Sockets, NEW d \in Stream, NEW n \in 1..FrameBound,
               NEW genuine \in BOOLEAN, Frame(c, d, n, genuine)
        PROVE  CountFollows'
    BY <1>7, CountKept DEF Frame
  <1>8. CASE UNCHANGED routerVars
    BY <1>8, CountKept DEF routerVars
  <1> QED
    BY <1>1, <1>2, <1>4, <1>5, <1>6, <1>7, <1>8
       DEF RouterNext, HandshakeTimeout, BadHandshake, BadFrame

\* A connection has a peer only from its handshake to its close, and takes no
\* role that is taken.
LEMMA PeersStep ==
  SocketsTyped /\ PeersFollow /\ [RouterNext]_routerVars => PeersFollow'
  <1> SUFFICES ASSUME SocketsTyped, PeersFollow, [RouterNext]_routerVars
               PROVE  PeersFollow'
    OBVIOUS
  <1> USE DEF SocketsTyped, SocketType, PeersFollow, Talking
  <1>1. ASSUME NEW c \in Sockets, Upgrade(c) \/ Violates(c)
        PROVE  PeersFollow'
    BY <1>1 DEF Upgrade, Violates
  <1>2. ASSUME NEW c \in Sockets, SocketError(c) \/ SocketClose(c)
        PROVE  PeersFollow'
    <2>1. /\ peers' = {p \in peers : p[2] # c}
          /\ \A e \in Sockets \ {c} : ws'[e] = ws[e]
      BY <1>2 DEF SocketError, SocketClose, Close, AlreadyClosed
    <2> QED
      BY <2>1
  <1>3. ASSUME NEW c \in Sockets, NEW s \in Sessions, NEW role \in Role,
               Handshake(c, s, role)
        PROVE  PeersFollow'
    <2>1. \A p \in peers : p[2] # c
      BY <1>3, SessionsAssumption DEF Handshake
    <2>2. \A e \in Sockets \ {c} : ws'[e] = ws[e]
      BY <1>3 DEF Handshake
    <2>3. CASE \E p \in peers : p[1] = s /\ p[3] = role
      BY <1>3, <2>1, <2>2, <2>3 DEF Handshake
    <2>4. CASE ~\E p \in peers : p[1] = s /\ p[3] = role
      <3>1. peers' = peers \union {<<s, c, role>>}
        BY <1>3, <2>4 DEF Handshake
      <3>2. ws'[c].session = s /\ ws'[c].at = ws[c].at /\ Talking(c)
        BY <1>3, <2>4 DEF Handshake
      <3>3. \A p \in peers' : Talking(p[2])' /\ ws'[p[2]].session = p[1]
        BY <2>1, <2>2, <3>1, <3>2
      <3>4. \A p, q \in peers' : p[1] = q[1] /\ p[3] = q[3] => p = q
        BY <2>4, <3>1
      <3> QED
        BY <3>3, <3>4
    <2> QED
      BY <2>3, <2>4
  <1>4. ASSUME NEW c \in Sockets, NEW d \in Stream, NEW n \in 1..FrameBound,
               NEW genuine \in BOOLEAN, Frame(c, d, n, genuine)
        PROVE  PeersFollow'
    BY <1>4 DEF Frame
  <1>5. CASE UNCHANGED routerVars
    BY <1>5 DEF routerVars
  <1> QED
    BY <1>1, <1>2, <1>3, <1>4, <1>5 DEF RouterNext, HandshakeTimeout,
                                         BadHandshake, BadFrame

LEMMA RouterInitFollows ==
  RouterInit => SocketsTyped /\ CountFollows /\ PeersFollow
  <1> SUFFICES ASSUME RouterInit
               PROVE  SocketsTyped /\ CountFollows /\ PeersFollow
    OBVIOUS
  <1>1. SocketsTyped /\ PeersFollow
    BY DEF RouterInit, SocketsTyped, SocketType, PeersFollow
  <1>2. TalkingNow = {}
    BY DEF RouterInit, TalkingNow, Talking
  <1>3. CountFollows
    BY <1>2, FS_EmptySet, RouterAssumption DEF RouterInit, CountFollows
  <1> QED
    BY <1>1, <1>3

\* Whatever the order of errors, closes and late messages, the endpoint counts
\* the sockets that are not closed, and routes between those only
\* (handleRelayConnection, RelayRouter).
THEOREM RouterFollowsSockets == RouterSpec => []RouterMatchesSockets
  <1>1. SocketsTyped /\ CountFollows /\ PeersFollow /\ [RouterNext]_routerVars
          => (SocketsTyped /\ CountFollows /\ PeersFollow)'
    BY SocketsStep, CountStep, PeersStep
  <1>2. SocketsTyped /\ CountFollows /\ PeersFollow => RouterMatchesSockets
    BY DEF CountFollows, PeersFollow, TalkingNow, RouterMatchesSockets
  <1> QED
    BY <1>1, <1>2, RouterInitFollows, PTL DEF RouterSpec

-----------------------------------------------------------------------------
(* The replay window. *)

LEMMA MaxIs ==
  ASSUME NEW S \in SUBSET Nat, NEW n \in S, \A m \in S : m <= n
  PROVE  Max(S) = n
  <1>1. \A m \in S : n >= m
    OBVIOUS
  <1>2. Max(S) \in S /\ \A m \in S : Max(S) >= m
    BY <1>1, Zenon DEF Max
  <1>3. Max(S) >= n /\ Max(S) <= n
    BY <1>2
  <1>4. Max(S) \in Nat /\ n \in Nat
    BY <1>2
  <1> QED
    BY <1>3, <1>4

\* The window is the largest number taken, or none was.
WindowFollows ==
    /\ window \in [Stream -> Nat]
    /\ received \in [Stream -> SUBSET Nat]
    /\ \A d \in Stream : /\ window[d] \in {0} \union received[d]
                         /\ \A m \in received[d] : m <= window[d]

LEMMA WindowStep == WindowFollows /\ [RouterNext]_routerVars => WindowFollows'
  <1> SUFFICES ASSUME WindowFollows, [RouterNext]_routerVars
               PROVE  WindowFollows'
    OBVIOUS
  <1>1. CASE UNCHANGED <<window, received>>
    BY <1>1 DEF WindowFollows
  <1>2. ASSUME NEW d \in Stream, NEW n \in Nat, n > window[d],
               window' = [window EXCEPT ![d] = n],
               received' = [received EXCEPT ![d] = @ \union {n}]
        PROVE  WindowFollows'
    BY <1>2 DEF WindowFollows
  <1>3. ASSUME NEW c \in Sockets, NEW d \in Stream, NEW n \in 1..FrameBound,
               NEW genuine \in BOOLEAN, Frame(c, d, n, genuine)
        PROVE  WindowFollows'
    <2>1. n \in Nat
      BY RouterAssumption
    <2> QED
      BY <1>1, <1>2, <1>3, <2>1 DEF Frame, Decrypt
  <1>4. ASSUME ~UNCHANGED <<window, received>>
        PROVE  \E c \in Sockets, d \in Stream, n \in 1..FrameBound,
                  genuine \in BOOLEAN : Frame(c, d, n, genuine)
    BY <1>4 DEF RouterNext, routerVars, frames3, Upgrade, Violates,
                HandshakeTimeout, BadHandshake, BadFrame,
                SocketError, SocketClose, Handshake
  <1> QED
    BY <1>1, <1>3, <1>4

\* A frame that is not genuine never moves the window, and one that was taken
\* is never taken again (decryptRelayFrame, RelayReplayGuard).
THEOREM WindowStaysGenuine == RouterSpec => []WindowIsGenuine
  <1>1. RouterInit => WindowFollows
    BY DEF RouterInit, WindowFollows
  <1>2. WindowFollows => WindowIsGenuine
    <2> SUFFICES ASSUME WindowFollows, NEW d \in Stream
                 PROVE  window[d] = Max({0} \union received[d])
      BY DEF WindowIsGenuine
    <2>1. /\ {0} \union received[d] \in SUBSET Nat
          /\ window[d] \in {0} \union received[d]
          /\ \A m \in {0} \union received[d] : m <= window[d]
      BY DEF WindowFollows
    <2> QED
      BY <2>1, MaxIs
  <1> QED
    BY <1>1, <1>2, WindowStep, PTL DEF RouterSpec

\* The registers of the frames are typed by themselves.
LEMMA FramesTyped ==
    ASSUME RouterTypeOK, [RouterNext]_routerVars
    PROVE  /\ sent' \in [Stream -> 0..FrameBound]
           /\ window' \in [Stream -> 0..FrameBound]
           /\ received' \in [Stream -> SUBSET (1..FrameBound)]
  <1>0. /\ sent \in [Stream -> 0..FrameBound]
        /\ window \in [Stream -> 0..FrameBound]
        /\ received \in [Stream -> SUBSET (1..FrameBound)]
        /\ FrameBound \in Nat
    BY RouterAssumption DEF RouterTypeOK
  <1>1. CASE UNCHANGED frames3
    BY <1>0, <1>1 DEF frames3
  <1>2. ASSUME NEW c \in Sockets, NEW d \in Stream, NEW n \in 1..FrameBound,
               NEW genuine \in BOOLEAN, Frame(c, d, n, genuine)
        PROVE  /\ sent' \in [Stream -> 0..FrameBound]
               /\ window' \in [Stream -> 0..FrameBound]
               /\ received' \in [Stream -> SUBSET (1..FrameBound)]
    <2>1. sent' \in [Stream -> 0..FrameBound]
      BY <1>0, <1>2 DEF Frame, Seal
    <2>2. /\ window' \in [Stream -> 0..FrameBound]
          /\ received' \in [Stream -> SUBSET (1..FrameBound)]
      BY <1>0, <1>2 DEF Frame, Decrypt
    <2> QED
      BY <2>1, <2>2
  <1>3. ASSUME ~UNCHANGED frames3
        PROVE  \E c \in Sockets, d \in Stream, n \in 1..FrameBound,
                  genuine \in BOOLEAN : Frame(c, d, n, genuine)
    BY <1>3 DEF RouterNext, routerVars, frames3, Upgrade, Violates,
                HandshakeTimeout, BadHandshake, BadFrame,
                SocketError, SocketClose, Handshake
  <1> QED
    BY <1>1, <1>2, <1>3

LEMMA RouterInitTypes == RouterInit => RouterTypeOK
  BY RouterAssumption DEF RouterInit, RouterTypeOK

LEMMA RouterNextTypes ==
    RouterTypeOK /\ [RouterNext]_routerVars => RouterTypeOK'
  <1> SUFFICES ASSUME RouterTypeOK, [RouterNext]_routerVars
               PROVE  RouterTypeOK'
    OBVIOUS
  <1>1. SocketsTyped'
    BY SocketsStep DEF RouterTypeOK, SocketsTyped, SocketType
  <1>2. active' \in 0..SocketLimit
    <2>0. active \in 0..SocketLimit /\ SocketLimit \in Nat
      BY RouterAssumption DEF RouterTypeOK
    <2>1. \/ active' = active
          \/ active < SocketLimit /\ active' = active + 1
          \/ active # 0 /\ active' = active - 1
      BY DEF RouterNext, routerVars, Upgrade, Violates, HandshakeTimeout,
             BadHandshake, BadFrame, SocketError, SocketClose, Close,
             Handshake, Frame
    <2> QED
      BY <2>0, <2>1
  <1> QED
    BY <1>1, <1>2, FramesTyped DEF RouterTypeOK, SocketsTyped, SocketType

-----------------------------------------------------------------------------
(* The tunnel. *)

\* A request is put on the wire once, not before its time as long as the clock
\* of the client is not ahead.
SentOnce ==
    /\ \A f \in upFrames : call[f[1]] \notin {"new", "waiting", "sealing"}
    /\ \A f, g \in upFrames : f[1] = g[1] => f = g
    /\ skew = 0 => \A f \in upFrames : f[2] <= clock

\* One that was handled came from the wire; it is remembered since it was
\* created or later, or it has had its time.
SeenKept ==
    /\ \A q \in CallIds : handled[q] > 0 => \E f \in upFrames : f[1] = q
    /\ skew = 0 => \A f \in upFrames : handled[f[1]] > 0 =>
         seen[f[1]] >= f[2] \/ clock - f[2] > ReplayWindow

TunnelInv == TunnelTypeOK /\ SentOnce /\ SeenKept /\ HandledOnce

LEMMA TunnelInitInv == TunnelInit => TunnelInv
  <1> SUFFICES ASSUME TunnelInit PROVE TunnelInv
    OBVIOUS
  <1> USE TunnelAssumption DEF TunnelInit
  <1>1. clock \in 0..ClockBound /\ skew \in {0, ReplayWindow}
    OBVIOUS
  <1>2. handled \in [CallIds -> 0..2] /\ seen \in [CallIds -> {-1} \union Nat]
    OBVIOUS
  <1>3. TunnelTypeOK
    BY <1>1, <1>2, Zenon DEF TunnelTypeOK
  <1>4. SentOnce /\ SeenKept /\ HandledOnce
    BY DEF SentOnce, SeenKept, HandledOnce
  <1> QED
    BY <1>3, <1>4 DEF TunnelInv

\* The places of the calls and the frames on the wire.
LEMMA CallsStep ==
    ASSUME TunnelTypeOK, [TunnelNext]_tunnelVars
    PROVE  /\ call' \in [CallIds -> {"new", "waiting", "sealing", "pending",
                                     "resolved", "rejected"}]
           /\ \A q \in CallIds :
                call[q] \notin {"new", "waiting", "sealing"}
                  => call'[q] \notin {"new", "waiting", "sealing"}
           /\ \/ upFrames' = upFrames
              \/ \E q \in CallIds, created \in 0..(clock + skew) :
                   /\ call[q] = "sealing" /\ call'[q] = "pending"
                   /\ upFrames' = upFrames \union {<<q, created>>}
                   /\ UNCHANGED <<clock, skew, handled, seen>>
  <1>0. call \in [CallIds -> {"new", "waiting", "sealing", "pending",
                              "resolved", "rejected"}]
    BY DEF TunnelTypeOK
  <1>1. CASE \/ ChannelReady \/ ChannelCloses \/ CloseClient
             \/ \E q \in CallIds :
                  BeginCall(q) \/ ReceiveAnswer(q) \/ CallTimesOut(q)
    <2>1. upFrames' = upFrames
      BY <1>1 DEF ChannelReady, ChannelCloses, CloseClient, BeginCall,
                  ReceiveAnswer, CallTimesOut, wire
    <2>2. CASE ChannelReady
      BY <1>0, <2>1, <2>2 DEF ChannelReady, SettleReady, Waiting
    <2>3. CASE ChannelCloses
      BY <1>0, <2>1, <2>3
      DEF ChannelCloses, BreakReady, SettleReady, Waiting
    <2>4. CASE CloseClient
      BY <1>0, <2>1, <2>4 DEF CloseClient
    <2>5. ASSUME NEW q \in CallIds,
                 BeginCall(q) \/ ReceiveAnswer(q) \/ CallTimesOut(q)
          PROVE  /\ call' \in [CallIds -> {"new", "waiting", "sealing",
                                          "pending", "resolved", "rejected"}]
                 /\ \A r \in CallIds :
                      call[r] \notin {"new", "waiting", "sealing"}
                        => call'[r] \notin {"new", "waiting", "sealing"}
      BY <1>0, <2>5 DEF BeginCall, ReceiveAnswer, CallTimesOut
    <2> QED
      BY <1>1, <2>1, <2>2, <2>3, <2>4, <2>5
  <1>2. ASSUME NEW q \in CallIds, SendCall(q)
        PROVE  /\ call' \in [CallIds -> {"new", "waiting", "sealing",
                                        "pending", "resolved", "rejected"}]
               /\ \A r \in CallIds :
                    call[r] \notin {"new", "waiting", "sealing"}
                      => call'[r] \notin {"new", "waiting", "sealing"}
               /\ \/ upFrames' = upFrames
                  \/ \E created \in 0..(clock + skew) :
                       /\ call[q] = "sealing" /\ call'[q] = "pending"
                       /\ upFrames' = upFrames \union {<<q, created>>}
               /\ UNCHANGED <<clock, skew, handled, seen>>
    BY <1>0, <1>2 DEF SendCall, time, desktop
  <1>3. CASE \/ UNCHANGED tunnelVars
             \/ Tick \/ ClientClockAhead \/ ChannelOpens \/ Reconnect
             \/ TunnelConnects \/ TunnelDrops \/ TunnelStops
             \/ \E f \in upFrames : HandleFrame(f) \/ RefuseFrame(f)
             \/ \E q \in CallIds : AnswerFrame(q) \/ FetchFails(q)
    <2>1. UNCHANGED <<call, upFrames>>
      BY <1>3 DEF tunnelVars, Tick, ClientClockAhead, ChannelOpens,
         Reconnect, TunnelConnects, TunnelDrops, TunnelStops, HandleFrame,
         RefuseFrame, AnswerFrame, FetchFails, wire
    <2> QED
      BY <1>0, <2>1
  <1> QED
    BY <1>1, <1>2, <1>3 DEF TunnelNext

\* What the tunnel remembers.
LEMMA SeenStep ==
    ASSUME TunnelTypeOK, [TunnelNext]_tunnelVars
    PROVE  \/ UNCHANGED <<seen, handled>>
           \/ /\ seen' = Purged
              /\ UNCHANGED <<clock, skew, upFrames, handled>>
           \/ \E f \in upFrames :
                /\ Timely(f[2]) /\ Accepts(f[1]) /\ handled[f[1]] < 2
                /\ seen' = [Purged EXCEPT ![f[1]] = clock]
                /\ handled' = [handled EXCEPT ![f[1]] = @ + 1]
                /\ UNCHANGED <<clock, skew, upFrames>>
  <1>1. ASSUME NEW f \in upFrames, HandleFrame(f)
        PROVE  /\ Timely(f[2]) /\ Accepts(f[1]) /\ handled[f[1]] < 2
               /\ seen' = [Purged EXCEPT ![f[1]] = clock]
               /\ handled' = [handled EXCEPT ![f[1]] = @ + 1]
               /\ UNCHANGED <<clock, skew, upFrames>>
    BY <1>1 DEF HandleFrame, time, wire
  <1>2. ASSUME NEW f \in upFrames, RefuseFrame(f)
        PROVE  /\ seen' \in {seen, Purged}
               /\ UNCHANGED <<clock, skew, upFrames, handled>>
    BY <1>2 DEF RefuseFrame, time, wire
  <1>3. CASE ~\E f \in upFrames : HandleFrame(f) \/ RefuseFrame(f)
    BY <1>3 DEF TunnelNext, tunnelVars, Tick, ClientClockAhead, ChannelOpens,
       ChannelReady, ChannelCloses, Reconnect, CloseClient, TunnelConnects,
       TunnelDrops, TunnelStops, BeginCall, SendCall, ReceiveAnswer,
       CallTimesOut, AnswerFrame, FetchFails, desktop
  <1> QED
    BY <1>1, <1>2, <1>3

LEMMA TimeStep ==
    ASSUME TunnelTypeOK, [TunnelNext]_tunnelVars
    PROVE  /\ clock' \in 0..ClockBound /\ skew' \in {0, ReplayWindow}
           /\ \/ UNCHANGED <<clock, skew>>
              \/ clock' = clock + 1 /\ skew' = skew /\ upFrames' = upFrames
              \/ clock' = clock /\ upFrames = {} /\ upFrames' = {}
  <1>0. clock \in 0..ClockBound /\ skew \in {0, ReplayWindow}
    BY DEF TunnelTypeOK
  <1>1. CASE Tick
    BY <1>0, <1>1, TunnelAssumption DEF Tick, wire
  <1>2. CASE ClientClockAhead
    BY <1>0, <1>2 DEF ClientClockAhead, wire
  <1>3. CASE ~Tick /\ ~ClientClockAhead
    <2>1. UNCHANGED <<clock, skew>>
      BY <1>3 DEF TunnelNext, tunnelVars, ChannelOpens, ChannelReady,
         ChannelCloses, Reconnect, CloseClient, TunnelConnects, TunnelDrops,
         TunnelStops, BeginCall, SendCall, ReceiveAnswer, CallTimesOut,
         AnswerFrame, FetchFails, HandleFrame, RefuseFrame, time
    <2> QED
      BY <1>0, <2>1
  <1> QED
    BY <1>1, <1>2, <1>3

LEMMA TunnelNextTypes ==
    TunnelTypeOK /\ [TunnelNext]_tunnelVars => TunnelTypeOK'
  <1> SUFFICES ASSUME TunnelTypeOK, [TunnelNext]_tunnelVars
               PROVE  TunnelTypeOK'
    OBVIOUS
  <1>0. /\ clock \in Nat /\ skew \in Nat
        /\ upFrames \subseteq CallIds \X Nat
        /\ seen \in [CallIds -> {-1} \union Nat]
        /\ handled \in [CallIds -> 0..2]
    BY TunnelAssumption DEF TunnelTypeOK
  <1>1. upFrames' \subseteq CallIds \X Nat
    BY <1>0, CallsStep
  <1>2. Purged \in [CallIds -> {-1} \union Nat]
    BY <1>0 DEF Purged
  <1>3. seen' \in [CallIds -> {-1} \union Nat]
    BY <1>0, <1>2, SeenStep
  <1>4. handled' \in [CallIds -> 0..2]
    <2>1. ASSUME NEW f \in upFrames, handled[f[1]] < 2,
                 handled' = [handled EXCEPT ![f[1]] = @ + 1]
          PROVE  handled' \in [CallIds -> 0..2]
      BY <1>0, <2>1
    <2> QED
      BY <1>0, <2>1, SeenStep
  <1>5. /\ channel' \in {"connecting", "open", "ready", "closed"}
        /\ redial' \in BOOLEAN /\ shut' \in BOOLEAN
    BY DEF TunnelTypeOK, TunnelNext, tunnelVars, Tick, ClientClockAhead,
       ChannelOpens, ChannelReady, ChannelCloses, Reconnect, CloseClient,
       TunnelConnects, TunnelDrops, TunnelStops, BeginCall, SendCall,
       ReceiveAnswer, CallTimesOut, AnswerFrame, FetchFails, HandleFrame,
       RefuseFrame
  <1>6. tunnel' \in [up : BOOLEAN, stopping : BOOLEAN]
    <2> DEFINE Tunnels == [up : BOOLEAN, stopping : BOOLEAN]
    <2>1. tunnel \in Tunnels
      BY DEF TunnelTypeOK
    <2>2. /\ [tunnel EXCEPT !.up = TRUE] \in Tunnels
          /\ [tunnel EXCEPT !.up = FALSE] \in Tunnels
          /\ [tunnel EXCEPT !.stopping = TRUE] \in Tunnels
          /\ \A up \in {FALSE, tunnel.up} :
               [tunnel EXCEPT !.up = up] \in Tunnels
      BY <2>1
    <2>3. \/ tunnel' \in {tunnel, [tunnel EXCEPT !.up = TRUE],
                          [tunnel EXCEPT !.up = FALSE],
                          [tunnel EXCEPT !.stopping = TRUE]}
          \/ \E up \in {FALSE, tunnel.up} : tunnel' = [tunnel EXCEPT !.up = up]
      BY DEF TunnelNext, tunnelVars, Tick, ClientClockAhead, ChannelOpens,
       ChannelReady, ChannelCloses, Reconnect, CloseClient, TunnelConnects,
       TunnelDrops, TunnelStops, BeginCall, SendCall, ReceiveAnswer,
       CallTimesOut, AnswerFrame, FetchFails, HandleFrame, RefuseFrame,
       desktop
    <2>4. tunnel' \in Tunnels
      <3> HIDE DEF Tunnels
      <3> QED
        BY <2>1, <2>2, <2>3
    <2> QED
      BY <2>4
  <1>7. fetching' \subseteq CallIds /\ downFrames' \subseteq CallIds
    <2>0. fetching \subseteq CallIds /\ downFrames \subseteq CallIds
      BY DEF TunnelTypeOK
    <2>1. ASSUME NEW f \in upFrames, HandleFrame(f) \/ RefuseFrame(f)
          PROVE  fetching' \subseteq CallIds /\ downFrames' \subseteq CallIds
      BY <1>0, <2>0, <2>1 DEF HandleFrame, RefuseFrame, wire
    <2>2. ASSUME NEW q \in CallIds, AnswerFrame(q) \/ FetchFails(q)
          PROVE  fetching' \subseteq CallIds /\ downFrames' \subseteq CallIds
      BY <2>0, <2>2 DEF AnswerFrame, FetchFails, wire
    <2>3. CASE \/ UNCHANGED tunnelVars
               \/ Tick \/ ClientClockAhead \/ ChannelOpens \/ ChannelReady
               \/ ChannelCloses \/ Reconnect \/ CloseClient
               \/ TunnelConnects \/ TunnelDrops \/ TunnelStops
               \/ \E q \in CallIds :
                    \/ BeginCall(q) \/ SendCall(q)
                    \/ ReceiveAnswer(q) \/ CallTimesOut(q)
      <3>1. UNCHANGED <<fetching, downFrames>>
        BY <2>3
        DEF tunnelVars, Tick, ClientClockAhead, ChannelOpens, ChannelReady,
            ChannelCloses, Reconnect, CloseClient, TunnelConnects,
            TunnelDrops, TunnelStops, BeginCall, SendCall, ReceiveAnswer,
            CallTimesOut, wire, desktop
      <3> QED
        BY <2>0, <3>1
    <2> QED
      BY <2>1, <2>2, <2>3 DEF TunnelNext
  <1> QED
    BY <1>1, <1>3, <1>4, <1>5, <1>6, <1>7, CallsStep, TimeStep
    DEF TunnelTypeOK

LEMMA SentStep == TunnelInv /\ [TunnelNext]_tunnelVars => SentOnce'
  <1> SUFFICES ASSUME TunnelTypeOK, SentOnce, [TunnelNext]_tunnelVars
               PROVE  SentOnce'
    BY DEF TunnelInv
  <1>0. /\ clock \in Nat /\ skew \in Nat
        /\ upFrames \subseteq CallIds \X Nat
    BY TunnelAssumption DEF TunnelTypeOK
  <1>1. CASE upFrames' = upFrames
    <2>1. \A f \in upFrames :
            /\ f[1] \in CallIds
            /\ call'[f[1]] \notin {"new", "waiting", "sealing"}
      BY <1>0, CallsStep DEF SentOnce
    <2>2. skew' = 0 => \A f \in upFrames : f[2] <= clock'
      BY <1>0, <1>1, TimeStep DEF SentOnce
    <2> QED
      BY <1>1, <2>1, <2>2 DEF SentOnce
  <1>2. ASSUME NEW q \in CallIds, NEW created \in 0..(clock + skew),
               call[q] = "sealing", call'[q] = "pending",
               upFrames' = upFrames \union {<<q, created>>},
               UNCHANGED <<clock, skew>>
        PROVE  SentOnce'
    <2>1. \A f \in upFrames : f[1] # q
      BY <1>2 DEF SentOnce
    <2>2. \A f \in upFrames :
            /\ f[1] \in CallIds
            /\ call'[f[1]] \notin {"new", "waiting", "sealing"}
      BY <1>0, CallsStep DEF SentOnce
    <2>3. \A f \in upFrames' : f \in upFrames \/ f = <<q, created>>
      BY <1>2
    <2>4. \A f \in upFrames' :
            call'[f[1]] \notin {"new", "waiting", "sealing"}
      BY <1>2, <2>2, <2>3
    <2>5. \A f, g \in upFrames' : f[1] = g[1] => f = g
      BY <2>1, <2>3 DEF SentOnce
    <2>6. skew' = 0 => \A f \in upFrames' : f[2] <= clock'
      BY <1>0, <1>2, <2>3 DEF SentOnce
    <2> QED
      BY <2>4, <2>5, <2>6 DEF SentOnce
  <1> QED
    BY <1>1, <1>2, CallsStep

LEMMA SeenKeptStep ==
    TunnelInv /\ [TunnelNext]_tunnelVars => SeenKept' /\ HandledOnce'
  <1> SUFFICES ASSUME TunnelTypeOK, SentOnce, SeenKept, HandledOnce,
                      [TunnelNext]_tunnelVars
               PROVE  SeenKept' /\ HandledOnce'
    BY DEF TunnelInv
  <1>0. /\ clock \in Nat /\ skew \in Nat /\ ReplayWindow \in Nat
        /\ upFrames \subseteq CallIds \X Nat
        /\ seen \in [CallIds -> {-1} \union Nat]
        /\ handled \in [CallIds -> 0..2]
    BY TunnelAssumption DEF TunnelTypeOK
  <1>a. \A f \in upFrames : f[1] \in CallIds /\ f[2] \in Nat
    BY <1>0
  \* A purge forgets only what has had its time.
  <1>b. ASSUME skew = 0, NEW f \in upFrames, handled[f[1]] > 0
        PROVE  Purged[f[1]] >= f[2] \/ clock - f[2] > ReplayWindow
    <2>1. seen[f[1]] >= f[2] \/ clock - f[2] > ReplayWindow
      BY <1>b DEF SeenKept
    <2>2. Purged[f[1]] = IF clock - seen[f[1]] > ReplayWindow
                         THEN -1 ELSE seen[f[1]]
      BY <1>a DEF Purged, Forgotten
    <2>3. f[2] \in Nat /\ seen[f[1]] \in {-1} \union Nat
      BY <1>0, <1>a
    <2> QED
      BY <1>0, <2>1, <2>2, <2>3
  <1>1. CASE UNCHANGED <<seen, handled>>
    <2>1. CASE upFrames' = upFrames
      <3>1. \A q \in CallIds : handled'[q] > 0 => \E f \in upFrames' : f[1] = q
        BY <1>1, <2>1 DEF SeenKept
      <3>2. CASE UNCHANGED <<clock, skew>>
        BY <1>1, <2>1, <3>2 DEF SeenKept, HandledOnce
      <3>3. CASE clock' = clock + 1 /\ skew' = skew
        <4>1. ASSUME skew = 0, NEW f \in upFrames, handled[f[1]] > 0
              PROVE  seen[f[1]] >= f[2] \/ clock' - f[2] > ReplayWindow
          BY <1>0, <1>a, <3>3, <4>1 DEF SeenKept
        <4> QED
          BY <1>1, <2>1, <3>1, <3>3, <4>1 DEF SeenKept, HandledOnce
      <3>4. CASE upFrames = {}
        <4>1. \A q \in CallIds : ~(handled[q] > 0)
          BY <3>4 DEF SeenKept
        <4>2. \A q \in CallIds : handled[q] <= 1
          BY <1>0, <4>1
        <4> QED
          BY <1>1, <2>1, <3>1, <3>4, <4>2 DEF SeenKept, HandledOnce
      <3> QED
        BY <3>2, <3>3, <3>4, TimeStep
    <2>2. ASSUME NEW q \in CallIds, NEW created \in 0..(clock + skew),
                 call[q] = "sealing",
                 upFrames' = upFrames \union {<<q, created>>},
                 UNCHANGED <<clock, skew>>
          PROVE  SeenKept' /\ HandledOnce'
      <3>1. \A f \in upFrames : f[1] # q
        BY <2>2 DEF SentOnce
      <3>2. ~(handled[q] > 0)
        BY <3>1 DEF SeenKept
      <3>3. \A f \in upFrames' : handled[f[1]] > 0 => f \in upFrames
        BY <2>2, <3>2
      <3> QED
        BY <1>1, <2>2, <3>3 DEF SeenKept, HandledOnce
    <2> QED
      BY <2>1, <2>2, CallsStep
  <1>2. CASE seen' = Purged /\ UNCHANGED <<clock, skew, upFrames, handled>>
    BY <1>b, <1>2 DEF SeenKept, HandledOnce
  <1>3. ASSUME NEW f \in upFrames,
               Timely(f[2]), Accepts(f[1]),
               seen' = [Purged EXCEPT ![f[1]] = clock],
               handled' = [handled EXCEPT ![f[1]] = @ + 1],
               UNCHANGED <<clock, skew, upFrames>>
        PROVE  SeenKept' /\ HandledOnce'
    <2>1. Purged \in [CallIds -> {-1} \union Nat]
      BY <1>0 DEF Purged
    <2>2. /\ seen'[f[1]] = clock
          /\ handled'[f[1]] = handled[f[1]] + 1
          /\ \A q \in CallIds \ {f[1]} :
               seen'[q] = Purged[q] /\ handled'[q] = handled[q]
      BY <1>0, <1>3, <1>a, <2>1
    <2>3. \A q \in CallIds : handled'[q] > 0 => \E g \in upFrames' : g[1] = q
      BY <1>3, <2>2 DEF SeenKept
    <2>4. ASSUME skew = 0, NEW g \in upFrames, handled'[g[1]] > 0
          PROVE  seen'[g[1]] >= g[2] \/ clock - g[2] > ReplayWindow
      <3>1. CASE g[1] = f[1]
        BY <1>0, <1>a, <2>2, <2>4, <3>1 DEF SentOnce
      <3>2. CASE g[1] # f[1]
        BY <1>a, <1>b, <2>2, <2>4, <3>2
      <3> QED
        BY <3>1, <3>2
    <2>5. SeenKept'
      BY <1>3, <2>3, <2>4 DEF SeenKept
    <2>6. ASSUME skew = 0 PROVE handled[f[1]] = 0
      <3>1. Purged[f[1]] = -1 /\ clock - f[2] <= ReplayWindow
        BY <1>3 DEF Accepts, Timely
      <3>2. ~(handled[f[1]] > 0)
        BY <1>0, <1>a, <1>b, <2>6, <3>1
      <3> QED
        BY <1>0, <1>a, <3>2
    <2>7. HandledOnce'
      BY <1>3, <2>2, <2>6 DEF HandledOnce
    <2> QED
      BY <2>5, <2>7
  <1> QED
    BY <1>1, <1>2, <1>3, SeenStep

LEMMA TunnelNextInv == TunnelInv /\ [TunnelNext]_tunnelVars => TunnelInv'
  BY TunnelNextTypes, SentStep, SeenKeptStep DEF TunnelInv

\* However often the relay hands a request over, and however long it holds it
\* back, it reaches the daemon once, as long as the clock of the client is not
\* ahead (handle and purgeSeen of the tunnel).
THEOREM RequestsHandledOnce == TunnelSpec => []HandledOnce
  <1>1. TunnelInv => HandledOnce
    BY DEF TunnelInv
  <1> QED
    BY <1>1, TunnelInitInv, TunnelNextInv, PTL DEF TunnelSpec

=============================================================================
