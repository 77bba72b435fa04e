---------------------------- MODULE RemoteSetup ----------------------------
(***************************************************************************)
(* scripts/remote/setup.ts: the command that brings up the remote control  *)
(* stack, a Cloudflare tunnel, the relay and the Harness, each a child     *)
(* process with its own timer, and stays until it is told to stop.  A      *)
(* child may exit at any moment, and the command may be signalled at any   *)
(* moment.                                                                 *)
(***************************************************************************)
VARIABLES
    stage,     \* where main() is
    stack,     \* each child: "none", "running" or "exited"
    stopping,  \* the children SIGTERM was sent to
    carrier,   \* the child that carries the tunnel, or "none"
    pairing,   \* offerPromise: "none", "pending", "offered", "rejected"
    handlers   \* whether the signal handlers of main() are in place

setupVars == <<stage, stack, stopping, carrier, pairing, handlers>>

StackChildren == {"tunnel", "retry", "relay", "harness"}

SetupTypeOK ==
    /\ stage \in {"checks", "tunnel", "pause", "retry", "relay", "control",
                  "selftest", "offer", "staying", "failed", "gone"}
    /\ stack \in [StackChildren -> {"none", "running", "exited"}]
    /\ stopping \subseteq StackChildren
    /\ carrier \in {"none", "tunnel", "retry"}
    /\ pairing \in {"none", "pending", "offered", "rejected"}
    /\ handlers \in BOOLEAN

SetupInit ==
    /\ stage = "checks" /\ stack = [c \in StackChildren |-> "none"]
    /\ stopping = {} /\ carrier = "none"
    /\ pairing = "none" /\ handlers = FALSE

Running(c) == stack[c] = "running"

\* A child that was started, whether or not it is still there when the
\* command hears of it.
SpawnChild(c) == stack' = [stack EXCEPT ![c] = "running"]

-----------------------------------------------------------------------------
(* main(). *)

\* cloudflared, its login and the port of the relay.
ChecksPass ==
    /\ stage = "checks"
    /\ stage' = "tunnel" /\ SpawnChild("tunnel")
    /\ UNCHANGED <<stopping, carrier, pairing, handlers>>

\* err(): the error is reported, the exit code set, and the children that
\* run are left to run.
Fatal ==
    /\ \/ stage \in {"checks", "control"}
       \/ stage \in {"tunnel", "retry"}      \* an ERR line, or the retry's end
       \/ stage = "relay"                    \* its exit, or 15 s of silence
    /\ stage' = "failed"
    /\ UNCHANGED <<stack, stopping, carrier, pairing, handlers>>

\* An address in the output of the child starts the relay behind it.
TunnelReady(c) ==
    /\ stage = c /\ c \in {"tunnel", "retry"} /\ Running(c)
    /\ stage' = "relay" /\ carrier' = c /\ SpawnChild("relay")
    /\ UNCHANGED <<stopping, pairing, handlers>>

\* The first tunnel exits, or is silent for 30 s: it is told to stop and,
\* half a second later, another one is started over http2.
TunnelGivenUp ==
    /\ stage = "tunnel"
    /\ stage' = "pause" /\ stopping' = stopping \union {"tunnel"}
    /\ UNCHANGED <<stack, carrier, pairing, handlers>>

RetryTunnel ==
    /\ stage = "pause"
    /\ stage' = "retry" /\ SpawnChild("retry")
    /\ UNCHANGED <<stopping, carrier, pairing, handlers>>

RelayReady ==
    /\ stage = "relay" /\ Running("relay")
    /\ stage' = "control"
    /\ UNCHANGED <<stack, stopping, carrier, pairing, handlers>>

\* startHarness, after the certificate, the directories and the packages.
StartControl ==
    /\ stage = "control"
    /\ stage' = "selftest" /\ SpawnChild("harness") /\ pairing' = "pending"
    /\ UNCHANGED <<stopping, carrier, handlers>>

\* testRelay: authenticated, closed, in error or 15 s old; only reported.
SelfTested ==
    /\ stage = "selftest"
    /\ stage' = "offer"
    /\ UNCHANGED <<stack, stopping, carrier, pairing, handlers>>

HarnessOffers ==
    /\ Running("harness") /\ pairing = "pending" /\ stage # "gone"
    /\ pairing' = "offered"
    /\ UNCHANGED <<stage, stack, stopping, carrier, handlers>>

\* 45 s from the start of the Harness: past the self-test, which takes 15.
OfferTimeout ==
    /\ stage = "offer" /\ pairing = "pending"
    /\ pairing' = "rejected"
    /\ UNCHANGED <<stage, stack, stopping, carrier, handlers>>

\* The result, with the offer or without it, then the signal handlers.
StayUp ==
    /\ stage = "offer" /\ pairing # "pending"
    /\ stage' = "staying" /\ handlers' = TRUE
    /\ UNCHANGED <<stack, stopping, carrier, pairing>>

-----------------------------------------------------------------------------
(* The end. *)

\* Mutant: the tunnel that was started first is taken for the tunnel.
FirstTunnel == {"tunnel", "relay", "harness"}

Kept == {carrier, "relay", "harness"}

\* stop(): the first SIGINT or SIGTERM of a stack that is up.
StopStack ==
    /\ handlers /\ stage = "staying"
    /\ stopping' = stopping \union Kept
    /\ handlers' = FALSE
    /\ UNCHANGED <<stage, stack, carrier, pairing>>

\* A signal nobody handles ends the command and nothing else.
Killed ==
    /\ ~handlers /\ stage # "gone"
    /\ stage' = "gone"
    /\ UNCHANGED <<stack, stopping, carrier, pairing, handlers>>

\* The Harness that exits before its offer rejects offerPromise; until main()
\* awaits it, a rejection nobody handles ends the command.
ChildExits(c) ==
    /\ Running(c)
    /\ stack' = [stack EXCEPT ![c] = "exited"]
    /\ IF c = "harness" /\ pairing = "pending" /\ stage # "gone"
         THEN /\ pairing' = "rejected"
              /\ stage' = IF stage = "selftest" THEN "gone" ELSE stage
         ELSE UNCHANGED <<pairing, stage>>
    /\ UNCHANGED <<stopping, carrier, handlers>>

\* The pipes of the children keep the command alive; without them it ends.
NothingToWaitFor ==
    /\ stage \in {"failed", "staying"} /\ \A c \in StackChildren : ~Running(c)
    /\ stage' = "gone"
    /\ UNCHANGED <<stack, stopping, carrier, pairing, handlers>>

SetupNext ==
    \/ ChecksPass \/ TunnelGivenUp \/ RetryTunnel \/ Fatal \/ RelayReady
    \/ StartControl \/ SelfTested \/ HarnessOffers \/ OfferTimeout \/ StayUp
    \/ StopStack \/ Killed \/ NothingToWaitFor
    \/ \E c \in StackChildren : TunnelReady(c) \/ ChildExits(c)

SetupSpec == SetupInit /\ [][SetupNext]_setupVars

-----------------------------------------------------------------------------
(* Property. *)

\* When a stack that is up is told to stop, everything of it that runs is
\* told: the tunnel that carries it, the relay, the Harness, and a first
\* tunnel that was given up and has not ended yet (stop(), and the SIGTERM
\* before the retry).
StopReachesAll ==
    stage = "staying" /\ ~handlers =>
        \A c \in StackChildren \ stopping : ~Running(c)
=============================================================================
