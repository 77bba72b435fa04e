------------------------------- MODULE MCLive -------------------------------
(***************************************************************************)
(* One run for what must happen in the end: every behaviour takes the      *)
(* steps of one part, picked at the start, under the fairness its module   *)
(* states, and each property is asked of its own part.                     *)
(***************************************************************************)
EXTENDS RelayServer, RelayTunnel, HarnessRestarts, ParserWorker

VARIABLE part  \* the part that runs

LiveInit ==
    /\ part \in {"relay", "tunnel", "restarts", "parser"}
    /\ Init /\ TunnelInit /\ RestartInit /\ ParserInit

\* Only p moves.
Only(p) ==
    /\ part = p /\ UNCHANGED part
    /\ IF p = "relay" THEN TRUE ELSE UNCHANGED vars
    /\ IF p = "tunnel" THEN TRUE ELSE UNCHANGED tunnelVars
    /\ IF p = "restarts" THEN TRUE ELSE UNCHANGED restartVars
    /\ IF p = "parser" THEN TRUE ELSE UNCHANGED parserVars

LiveNext ==
    \/ Only("relay") /\ Next
    \/ Only("tunnel") /\ TunnelNext
    \/ Only("restarts") /\ RestartNext
    \/ Only("parser") /\ ParserNext

\* A part that does not run is in its initial state and owes nothing.
LiveFairness ==
    /\ \A id \in Ids : WF_vars(part = "relay" /\ GrowOld(id))
    /\ \A c \in Conns :
         /\ WF_vars(part = "relay" /\ HandshakeTimeout(c))
         /\ WF_vars(part = "relay" /\ sock[c] = "closing" /\ Close(c))
    /\ WF_vars(part = "relay" /\ Sweep)
    /\ WF_tunnelVars(part = "tunnel" /\ ChannelProceeds)
    /\ \A q \in CallIds :
         /\ WF_tunnelVars(part = "tunnel" /\ SendCall(q))
         /\ WF_tunnelVars(part = "tunnel" /\ CallTimesOut(q))
    /\ WF_restartVars(part = "restarts" /\ RestartStep)
    /\ SF_restartVars(part = "restarts" /\ ReadyTimeout)
    /\ WF_restartVars(part = "restarts" /\ KillTree)
    /\ SF_restartVars(part = "restarts" /\ HearExit)
    /\ WF_parserVars(part = "parser" /\ ParserStep)

LiveSpec ==
    /\ LiveInit
    /\ [][LiveNext]_<<part, vars, tunnelVars, restartVars, parserVars>>
    /\ LiveFairness
=============================================================================
