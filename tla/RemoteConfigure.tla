-------------------------- MODULE RemoteConfigure --------------------------
(***************************************************************************)
(* The one-click setup of the desktop plugin, runRemoteConfigure: each     *)
(* POST starts a Cloudflare tunnel of its own, waits for its address,      *)
(* tests it and answers with a pairing offer; one variable of the module,  *)
(* remoteSetupProcess, is all /remote/stop knows.  Setups overlap: two     *)
(* windows, or a second click.                                             *)
(***************************************************************************)
CONSTANT Setups         \* requests to /__dshpilot/remote/setup

ASSUME SetupsAssumption == "none" \notin Setups

VARIABLES
    phase,        \* each request: where runRemoteConfigure is
    cloudflared,  \* each tunnel: "none", "running" or "exited"
    setupProcess, \* remoteSetupProcess: the setup whose tunnel it is, or
                  \* "none"
    terminated,   \* the tunnels SIGTERM was sent to
    offerUrl,     \* the setup whose address the pending offer names
    overtaken     \* history: the tunnels a later setup took the variable from

configureVars ==
    <<phase, cloudflared, setupProcess, terminated, offerUrl, overtaken>>

ConfigureTypeOK ==
    /\ phase \in [Setups -> {"idle", "checking", "starting", "testing",
                             "offering", "held", "ended"}]
    /\ cloudflared \in [Setups -> {"none", "running", "exited"}]
    /\ setupProcess \in Setups \union {"none"}
    /\ terminated \subseteq Setups
    /\ offerUrl \in Setups \union {"none"}
    /\ overtaken \subseteq Setups

ConfigureInit ==
    /\ phase = [s \in Setups |-> "idle"]
    /\ cloudflared = [s \in Setups |-> "none"]
    /\ setupProcess = "none" /\ terminated = {} /\ offerUrl = "none"
    /\ overtaken = {}

InPhase(s, from, to) == phase[s] = from /\ phase' = [phase EXCEPT ![s] = to]

Precheck(s) ==
    /\ InPhase(s, "idle", "checking")
    /\ UNCHANGED <<cloudflared, setupProcess, terminated, offerUrl, overtaken>>

\* No cloudflared, no login, or no control plane yet.
NotReady(s) ==
    /\ InPhase(s, "checking", "ended")
    /\ UNCHANGED <<cloudflared, setupProcess, terminated, offerUrl, overtaken>>

\* Mutant: the tunnel of an earlier setup keeps the variable.
RecordFirst(s) ==
    /\ setupProcess' = IF setupProcess = "none" THEN s ELSE setupProcess
    /\ UNCHANGED overtaken

Overtake(s) ==
    /\ setupProcess' = s
    /\ overtaken' = overtaken \union ({setupProcess} \ {"none"})

StartTunnel(s) ==
    /\ InPhase(s, "checking", "starting")
    /\ cloudflared' = [cloudflared EXCEPT ![s] = "running"]
    /\ Overtake(s)
    /\ UNCHANGED <<terminated, offerUrl>>

TunnelUrl(s) ==
    /\ cloudflared[s] = "running"
    /\ InPhase(s, "starting", "testing")
    /\ UNCHANGED <<cloudflared, setupProcess, terminated, offerUrl, overtaken>>

\* 35 s without an address, or the exit: the error ends the answer, and a
\* tunnel that runs goes on running.
StartFailed(s) ==
    /\ InPhase(s, "starting", "ended")
    /\ UNCHANGED <<cloudflared, setupProcess, terminated, offerUrl, overtaken>>

\* Four attempts; the outcome is reported and changes nothing.
SelfTestDone(s) ==
    /\ InPhase(s, "testing", "offering")
    /\ UNCHANGED <<cloudflared, setupProcess, terminated, offerUrl, overtaken>>

\* createOffer takes the place of the offer before; the answer stays open
\* for the exit of the tunnel, which is only watched from here on.
OfferTunnel(s) ==
    /\ InPhase(s, "offering", "held")
    /\ offerUrl' = s
    /\ UNCHANGED <<cloudflared, setupProcess, terminated, overtaken>>

OfferFails(s) ==
    /\ InPhase(s, "offering", "ended")
    /\ UNCHANGED <<cloudflared, setupProcess, terminated, offerUrl, overtaken>>

\* At any moment, of itself or told to.
TunnelExits(s) ==
    /\ cloudflared[s] = "running"
    /\ cloudflared' = [cloudflared EXCEPT ![s] = "exited"]
    /\ phase' = [phase EXCEPT ![s] = IF @ \in {"starting", "held"} THEN "ended"
                                     ELSE @]
    /\ UNCHANGED <<setupProcess, terminated, offerUrl, overtaken>>

\* /__dshpilot/remote/stop
StopTunnel ==
    /\ setupProcess # "none"
    /\ terminated' = terminated \union {setupProcess}
    /\ setupProcess' = "none"
    /\ UNCHANGED <<phase, cloudflared, offerUrl, overtaken>>

ConfigureNext ==
    \/ StopTunnel
    \/ \E s \in Setups :
         \/ Precheck(s) \/ NotReady(s) \/ StartTunnel(s) \/ TunnelUrl(s)
         \/ StartFailed(s) \/ SelfTestDone(s) \/ OfferTunnel(s)
         \/ OfferFails(s) \/ TunnelExits(s)

ConfigureSpec == ConfigureInit /\ [][ConfigureNext]_configureVars

-----------------------------------------------------------------------------
(* Property. *)

\* A tunnel that runs can be stopped by /remote/stop or was told to stop,
\* unless a later setup took the variable from it: also that of a setup that
\* failed half way, that ran out of time, or that another one came and went
\* during (runRemoteConfigure sets remoteSetupProcess before its first wait
\* on the tunnel, and only the stop resets it).
TunnelIsKnown ==
    \A s \in Setups : cloudflared[s] = "running" =>
        s = setupProcess \/ s \in terminated \union overtaken
=============================================================================
