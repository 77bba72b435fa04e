------------------------------- MODULE MCHost -------------------------------
(***************************************************************************)
(* One run for the parts of the host that share no state: every behaviour  *)
(* takes the steps of one part, picked at the start, and the state space   *)
(* is the sum of theirs and not the product.  The invariants hold of all   *)
(* parts in every state, for a part that does not run is in its initial    *)
(* state.                                                                  *)
(***************************************************************************)
EXTENDS DeviceRegistry, RelayTunnel, PeerRouter, HarnessRestarts,
        ParserWorker, PromptAdmission, HarnessBridge, McpServers,
        ContentStore, RemoteSetup, RemoteConfigure, UsageLedger

VARIABLE part  \* the part that runs

\* The records an MCP file may have: one of m1, and one of either name under
\* another id.
MCServer == [id : {"i1"}, name : {"m1"}, on : BOOLEAN]
              \union [id : {"i2"}, name : McpNames, on : BOOLEAN]

Parts == {"devices", "tunnel", "router", "restarts", "parser", "prompts",
          "bridge", "mcp", "content", "setup", "configure",
          "usage"}

HostInit ==
    /\ part \in Parts
    /\ DeviceInit /\ TunnelInit /\ RouterInit /\ RestartInit /\ ParserInit
    /\ AdmissionInit /\ BridgeInit /\ McpInit /\ ContentInit /\ SetupInit
    /\ ConfigureInit /\ UsageInit

\* Only p moves.
Only(p) ==
    /\ part = p /\ UNCHANGED part
    /\ IF p = "devices" THEN TRUE ELSE UNCHANGED deviceVars
    /\ IF p = "tunnel" THEN TRUE ELSE UNCHANGED tunnelVars
    /\ IF p = "router" THEN TRUE ELSE UNCHANGED routerVars
    /\ IF p = "restarts" THEN TRUE ELSE UNCHANGED restartVars
    /\ IF p = "parser" THEN TRUE ELSE UNCHANGED parserVars
    /\ IF p = "prompts" THEN TRUE ELSE UNCHANGED admissionVars
    /\ IF p = "bridge" THEN TRUE ELSE UNCHANGED bridgeVars
    /\ IF p = "mcp" THEN TRUE ELSE UNCHANGED mcpVars
    /\ IF p = "content" THEN TRUE ELSE UNCHANGED contentVars
    /\ IF p = "setup" THEN TRUE ELSE UNCHANGED setupVars
    /\ IF p = "configure" THEN TRUE ELSE UNCHANGED configureVars
    /\ IF p = "usage" THEN TRUE ELSE UNCHANGED usageVars

HostNext ==
    \/ Only("devices") /\ DeviceNext
    \/ Only("tunnel") /\ TunnelNext
    \/ Only("router") /\ RouterNext
    \/ Only("restarts") /\ RestartNext
    \/ Only("parser") /\ ParserNext
    \/ Only("prompts") /\ AdmissionNext
    \/ Only("bridge") /\ BridgeNext
    \/ Only("mcp") /\ McpNext
    \/ Only("content") /\ ContentNext
    \/ Only("setup") /\ SetupNext
    \/ Only("configure") /\ ConfigureNext
    \/ Only("usage") /\ UsageNext

hostVars ==
    <<part, deviceVars, tunnelVars, routerVars, restartVars, parserVars,
      admissionVars, bridgeVars, mcpVars, contentVars, setupVars,
      configureVars, usageVars>>

HostSpec == HostInit /\ [][HostNext]_hostVars

-----------------------------------------------------------------------------
(* Properties. *)

\* The variables of every part have the values their modules say.
HostTypeOK ==
    /\ DeviceTypeOK /\ TunnelTypeOK /\ RouterTypeOK /\ RestartTypeOK
    /\ ParserTypeOK /\ AdmissionTypeOK /\ BridgeTypeOK /\ McpTypeOK
    /\ ContentTypeOK /\ SetupTypeOK /\ ConfigureTypeOK
    /\ UsageTypeOK
=============================================================================
