---------------------------- MODULE RelayTunnel ----------------------------
(***************************************************************************)
(* Requests over the relay: RelayControlClient and its RemoteRelayChannel  *)
(* (packages/remote-client/src/index.ts) on one side,                      *)
(* RestrictedRelayTunnel (packages/remote-daemon/src/relay-tunnel.ts) on   *)
(* the other.  The relay between them is blind: it may lose a frame, hold  *)
(* it back or hand it over again.  The tunnel takes a request whose time   *)
(* of creation is within the window of its clock, and remembers its id for *)
(* a window from its arrival.  Refreshing after a 401 is in                *)
(* DeviceRegistry.                                                         *)
(***************************************************************************)
EXTENDS Integers, FiniteSets

CONSTANTS
    CallIds,      \* the requests of the client
    ReplayWindow, \* 60 s, in ticks of the clock
    SeenLimit,    \* 10,000: ids remembered
    ClockBound    \* bound: the last tick

ASSUME TunnelAssumption ==
    ReplayWindow \in Nat /\ SeenLimit \in Nat /\ ClockBound \in Nat

VARIABLES
    clock,     \* the clock of the desktop
    skew,      \* how far the clock of the client is ahead
    channel,   \* the client's socket
    redial,    \* its reconnect timer is running
    shut,      \* close() was called
    call,      \* the requests of the client
    upFrames,  \* requests the relay has seen: <<id, createdAt>>
    tunnel,    \* the desktop's socket and whether stop() was called
    seen,      \* seenRequests: the time of arrival, or -1
    fetching,  \* the requests the tunnel is asking the daemon
    downFrames,\* answers the relay has seen
    handled    \* history: times each request reached the daemon

tunnelVars == <<clock, skew, channel, redial, shut, call, upFrames, tunnel,
                seen, fetching, downFrames, handled>>

TunnelTypeOK ==
    /\ clock \in 0..ClockBound /\ skew \in {0, ReplayWindow}
    /\ channel \in {"connecting", "open", "ready", "closed"}
    /\ redial \in BOOLEAN /\ shut \in BOOLEAN
    /\ call \in [CallIds -> {"new", "waiting", "sealing", "pending",
                             "resolved", "rejected"}]
    /\ upFrames \subseteq CallIds \X Nat
    /\ tunnel \in [up : BOOLEAN, stopping : BOOLEAN]
    /\ seen \in [CallIds -> {-1} \union Nat]
    /\ fetching \subseteq CallIds /\ downFrames \subseteq CallIds
    /\ handled \in [CallIds -> 0..2]

TunnelInit ==
    /\ clock = 0 /\ skew = 0
    /\ channel = "connecting" /\ redial = FALSE /\ shut = FALSE
    /\ call = [q \in CallIds |-> "new"]
    /\ upFrames = {} /\ downFrames = {} /\ fetching = {}
    /\ tunnel = [up |-> FALSE, stopping |-> FALSE]
    /\ seen = [q \in CallIds |-> -1]
    /\ handled = [q \in CallIds |-> 0]

wire == <<upFrames, downFrames>>
desktop == <<tunnel, seen, fetching, handled>>
time == <<clock, skew>>

-----------------------------------------------------------------------------
(* The clocks. *)

Tick ==
    /\ clock < ClockBound
    /\ clock' = clock + 1
    /\ UNCHANGED <<skew, channel, redial, shut, call, wire, desktop>>

ClientClockAhead ==
    /\ clock = 0 /\ upFrames = {}
    /\ skew' = ReplayWindow
    /\ UNCHANGED <<clock, channel, redial, shut, call, wire, desktop>>

-----------------------------------------------------------------------------
(* The channel of the client. *)

Waiting == {q \in CallIds : call[q] = "waiting"}

\* The promise of ready() is kept or broken for all that await it.
SettleReady(place) ==
    call' = [q \in CallIds |-> IF q \in Waiting THEN place ELSE call[q]]

ChannelOpens ==
    /\ channel = "connecting" /\ ~shut
    /\ channel' = "open"
    /\ UNCHANGED <<time, redial, shut, call, wire, desktop>>

ChannelReady ==
    /\ channel = "open" /\ ~shut
    /\ channel' = "ready"
    /\ SettleReady("sealing")
    /\ UNCHANGED <<time, redial, shut, wire, desktop>>

\* Mutant: only an error of the socket breaks the promise.
CloseIsSilent(place) == call' = call

BreakReady(place) == SettleReady(place)

\* The socket closes: the promise is broken and a timer will connect again.
\* Closed by close() it tells nobody, but a socket that was still connecting
\* also fails with an error.
ChannelCloses ==
    /\ channel # "closed"
    /\ channel' = "closed"
    /\ IF ~shut THEN BreakReady("rejected") /\ redial' = TRUE
       ELSE UNCHANGED <<call, redial>>
    /\ UNCHANGED <<time, shut, wire, desktop>>

Reconnect ==
    /\ redial /\ ~shut
    /\ channel' = "connecting"
    /\ redial' = FALSE
    /\ UNCHANGED <<time, shut, call, wire, desktop>>

-----------------------------------------------------------------------------
(* The requests of the client. *)

\* request awaits ready(), which connects at once if the socket is closed.
BeginCall(q) ==
    /\ call[q] = "new"
    /\ IF shut THEN /\ call' = [call EXCEPT ![q] = "rejected"]
                    /\ UNCHANGED <<channel, redial>>
       ELSE /\ call' = [call EXCEPT ![q] = IF channel = "ready"
                                           THEN "sealing" ELSE "waiting"]
            /\ channel' = IF channel = "closed" THEN "connecting" ELSE channel
            /\ redial' = IF channel = "closed" THEN FALSE ELSE redial
    /\ UNCHANGED <<time, shut, wire, desktop>>

\* The envelope is sealed; the socket may have gone in the meantime.  The
\* relay has the frame only if the client is authenticated.  createdAt was
\* read before the sealing, at some tick until now.
SendCall(q) ==
    /\ call[q] = "sealing"
    /\ call' = [call EXCEPT ![q] =
         IF channel \in {"open", "ready"} THEN "pending" ELSE "rejected"]
    /\ IF channel = "ready"
       THEN \E created \in 0..(clock + skew) :
              upFrames' = upFrames \union {<<q, created>>}
       ELSE upFrames' = upFrames
    /\ UNCHANGED <<time, channel, redial, shut, downFrames, desktop>>

\* receive: an answer whose id is not pending is ignored.
ReceiveAnswer(q) ==
    /\ q \in downFrames /\ channel = "ready"
    /\ call[q] = "pending"
    /\ \E outcome \in {"resolved", "rejected"} :
         call' = [call EXCEPT ![q] = outcome]
    /\ UNCHANGED <<time, channel, redial, shut, wire, desktop>>

CallTimesOut(q) ==
    /\ call[q] = "pending"
    /\ call' = [call EXCEPT ![q] = "rejected"]
    /\ UNCHANGED <<time, channel, redial, shut, wire, desktop>>

\* close: a socket that is still connecting fails with an error.
CloseClient ==
    /\ ~shut
    /\ shut' = TRUE
    /\ redial' = FALSE
    /\ call' = [q \in CallIds |->
         IF \/ call[q] = "pending"
            \/ call[q] = "waiting" /\ channel = "connecting"
         THEN "rejected" ELSE call[q]]
    /\ UNCHANGED <<time, channel, wire, desktop>>

-----------------------------------------------------------------------------
(* The tunnel of the desktop. *)

TunnelConnects ==
    /\ ~tunnel.up /\ ~tunnel.stopping
    /\ tunnel' = [tunnel EXCEPT !.up = TRUE]
    /\ UNCHANGED <<time, channel, redial, shut, call, wire, seen, fetching,
                   handled>>

TunnelDrops ==
    /\ tunnel.up
    /\ tunnel' = [tunnel EXCEPT !.up = FALSE]
    /\ UNCHANGED <<time, channel, redial, shut, call, wire, seen, fetching,
                   handled>>

TunnelStops ==
    /\ ~tunnel.stopping
    /\ tunnel' = [tunnel EXCEPT !.stopping = TRUE]
    /\ UNCHANGED <<time, channel, redial, shut, call, wire, seen, fetching,
                   handled>>

\* Mutant: an id is forgotten in the last tick in which it is valid.
ForgetEarly(at) == clock - at >= ReplayWindow

Forgotten(at) == clock - at > ReplayWindow

Purged == [q \in CallIds |-> IF Forgotten(seen[q]) THEN -1 ELSE seen[q]]

Timely(created) ==
    clock - created <= ReplayWindow /\ created - clock <= ReplayWindow

Accepts(q) ==
    /\ Purged[q] = -1
    /\ Cardinality({r \in CallIds : Purged[r] # -1}) < SeenLimit

\* handle, up to the fetch from the local daemon.
HandleFrame(f) ==
    /\ tunnel.up /\ Timely(f[2])
    /\ Accepts(f[1])
    /\ handled[f[1]] < 2
    /\ seen' = [Purged EXCEPT ![f[1]] = clock]
    /\ fetching' = fetching \union {f[1]}
    /\ handled' = [handled EXCEPT ![f[1]] = @ + 1]
    /\ UNCHANGED <<time, channel, redial, shut, call, wire, tunnel>>

\* A request that is late, seen or too many closes the socket.
RefuseFrame(f) ==
    /\ tunnel.up
    /\ ~Timely(f[2]) \/ ~Accepts(f[1])
    /\ seen' = IF Timely(f[2]) THEN Purged ELSE seen
    /\ tunnel' = [tunnel EXCEPT !.up = FALSE]
    /\ UNCHANGED <<time, channel, redial, shut, call, wire, fetching, handled>>

\* The answer goes out over the socket there is now, if any.
AnswerFrame(q) ==
    /\ q \in fetching
    /\ fetching' = fetching \ {q}
    /\ downFrames' = IF tunnel.up THEN downFrames \union {q} ELSE downFrames
    /\ UNCHANGED <<time, channel, redial, shut, call, upFrames, tunnel, seen,
                   handled>>

\* The daemon cannot be reached, or its answer is too large: the socket that
\* brought the request is closed, if it still is the one there is.
FetchFails(q) ==
    /\ q \in fetching
    /\ fetching' = fetching \ {q}
    /\ \E up \in {FALSE, tunnel.up} : tunnel' = [tunnel EXCEPT !.up = up]
    /\ UNCHANGED <<time, channel, redial, shut, call, wire, seen, handled>>

TunnelNext ==
    \/ Tick \/ ClientClockAhead \/ ChannelOpens \/ ChannelReady
    \/ ChannelCloses \/ Reconnect \/ CloseClient
    \/ TunnelConnects \/ TunnelDrops \/ TunnelStops
    \/ \E f \in upFrames : HandleFrame(f) \/ RefuseFrame(f)
    \/ \E q \in CallIds :
         \/ BeginCall(q) \/ SendCall(q) \/ ReceiveAnswer(q) \/ CallTimesOut(q)
         \/ AnswerFrame(q) \/ FetchFails(q)

\* The event loop runs what is ready; a socket opens or fails, and the relay
\* closes a peer that does not authenticate in time (RelayServer).
ChannelProceeds ==
    /\ channel \in {"connecting", "open"}
    /\ ChannelReady \/ ChannelOpens \/ ChannelCloses

TunnelFairness ==
    /\ WF_tunnelVars(ChannelProceeds)
    /\ \A q \in CallIds :
         WF_tunnelVars(SendCall(q)) /\ WF_tunnelVars(CallTimesOut(q))

TunnelSpec == TunnelInit /\ [][TunnelNext]_tunnelVars /\ TunnelFairness

-----------------------------------------------------------------------------
(* Properties. *)

\* However often the relay hands a request over, it reaches the daemon once,
\* as long as the clock of the client is not ahead: an id is remembered from
\* its arrival, so one from the future is forgotten while it is still valid.
HandledOnce == skew = 0 => \A q \in CallIds : handled[q] <= 1

\* A request that awaits ready() when the client is closed on a socket that
\* was open and not yet authenticated: nothing breaks the promise.
LeftWaiting(q) == shut /\ call[q] = "waiting"

\* Every request comes to an end, whatever becomes of the sockets, except
\* one left waiting by close().
CallSettles == \A q \in CallIds :
    call[q] \in {"waiting", "sealing", "pending"}
      ~> (call[q] \in {"resolved", "rejected"} \/ LeftWaiting(q))
=============================================================================
