------------------------- MODULE ChildProcessProofs -------------------------
(***************************************************************************)
(* Proofs about the programs that own child processes: superviseHarness    *)
(* (HarnessRestarts), runParserWorker (ParserWorker), and the two ways to  *)
(* bring up a tunnel, the setup command (RemoteSetup) and the one-click    *)
(* setup of the plugin (RemoteConfigure).                                  *)
(***************************************************************************)
EXTENDS HarnessRestarts, ParserWorker, RemoteSetup, RemoteConfigure, TLAPS

-----------------------------------------------------------------------------
(* The headless supervisor. *)

\* The types of everything but the count of restarts.
LoopTyped ==
    /\ loop \in {"spawn", "poll", "probe", "running", "stopTree", "sleep"}
                  \union Over
    /\ stopAsked \in BOOLEAN
    /\ harness \in {"none", "alive", "gone"}
    /\ term \in BOOLEAN /\ exitSeen \in BOOLEAN

Counted == restarts \in 0..MaxRestarts

\* A new Harness is only started from where the last one is known to be gone,
\* and none was started elsewhere.
LastIsGone ==
    /\ loop \in {"spawn", "sleep"} => harness # "alive"
    /\ strays = FALSE

RestartInv == LoopTyped /\ Counted /\ LastIsGone

LEMMA RestartInitInv == RestartInit => RestartInv
  <1>1. RestartInit => LoopTyped
    BY DEF RestartInit, LoopTyped, Over
  <1>2. RestartInit => Counted
    BY RestartsAssumption DEF RestartInit, Counted
  <1>3. RestartInit => LastIsGone
    BY DEF RestartInit, LastIsGone
  <1> QED
    BY <1>1, <1>2, <1>3 DEF RestartInv

\* Only Backoff counts, and only below the limit.
LEMMA LoopCountStep == Counted /\ [RestartNext]_restartVars => Counted'
  BY RestartsAssumption
  DEF Counted, RestartNext, RestartStep, SpawnHarness, SpawnError, Probe,
      ProbeFails, ProbeSucceeds, ReadyTimeout, HearExit, HarnessExits,
      NothingLeft, TermTree, KillTree, Backoff, GiveUp, WakeUp, Signal,
      restartVars

\* Only Backoff leads back to the spawn, and it waits for the Harness to be
\* gone.
LEMMA LoopStep ==
  LoopTyped /\ LastIsGone /\ [RestartNext]_restartVars
    => LoopTyped' /\ LastIsGone'
  <1> SUFFICES ASSUME LoopTyped, LastIsGone, [RestartNext]_restartVars
               PROVE  LoopTyped' /\ LastIsGone'
    OBVIOUS
  <1> USE DEF LoopTyped, LastIsGone, Over
  <1>1. CASE SpawnHarness
    BY <1>1 DEF SpawnHarness
  <1>2. CASE SpawnError
    BY <1>2 DEF SpawnError
  <1>3. CASE Probe \/ ProbeFails \/ ProbeSucceeds
    BY <1>3 DEF Probe, ProbeFails, ProbeSucceeds
  <1>4. CASE ReadyTimeout \/ HearExit
    BY <1>4 DEF ReadyTimeout, HearExit, OnFailure
  <1>5. CASE HarnessExits \/ NothingLeft
    BY <1>5 DEF HarnessExits, NothingLeft
  <1>6. CASE TermTree \/ KillTree
    BY <1>6 DEF TermTree, KillTree
  <1>7. CASE Backoff
    BY <1>7 DEF Backoff, TreeStopped
  <1>8. CASE WakeUp
    BY <1>8 DEF WakeUp
  <1>9. CASE Signal
    BY <1>9 DEF Signal, StopCurrent
  <1>10. CASE UNCHANGED restartVars
    BY <1>10 DEF restartVars
  <1> QED
    BY <1>1, <1>2, <1>3, <1>4, <1>5, <1>6, <1>7, <1>8, <1>9, <1>10
    DEF RestartNext, RestartStep

LEMMA RestartAlwaysInv == RestartSpec => []RestartInv
  <1>1. RestartInv /\ [RestartNext]_restartVars => RestartInv'
    BY LoopCountStep, LoopStep DEF RestartInv
  <1> QED
    BY <1>1, RestartInitInv, PTL DEF RestartSpec

\* The restarts never exceed their limit, whatever it is, wherever the exits
\* and the signals fall (superviseHarness).
THEOREM RestartTypeCorrect == RestartSpec => []RestartTypeOK
  <1>1. RestartInv => RestartTypeOK
    BY DEF RestartInv, RestartTypeOK, LoopTyped, Counted, LastIsGone
  <1> QED
    BY <1>1, RestartAlwaysInv, PTL

\* The headless daemon never has two Harnesses: stopTree is awaited before
\* the next one is spawned.
THEOREM OneHarnessOnly == RestartSpec => []OneHarness
  <1>1. RestartInv => OneHarness
    BY DEF RestartInv, LastIsGone, OneHarness
  <1> QED
    BY <1>1, RestartAlwaysInv, PTL

-----------------------------------------------------------------------------
(* The parser worker. *)

\* Where the request is says what there may be of the child.
ChildAtStep ==
    /\ step \in {"checks", "reading", "writing"} => child = "none"
    /\ step \in {"waiting", "term", "kill", "finally", "lastKill"}
         => child # "none"
    /\ step \in {"kill", "lastKill"} => child # "running"

\* A request that is being terminated is not over before SIGKILL was sent or
\* the child has closed; a request that fails earlier has no error of
\* terminate.
EndingAtStep ==
    /\ step \in {"checks", "reading", "writing", "waiting"}
         => ending = "none"
    /\ step \in {"term", "kill"} => ending # "none"
    /\ step = "finally" /\ ending # "none" => child # "running"

DirectoryAtStep == step \in {"checks", "reading"} => ~requestDir

ParserInv == /\ ParserTypeOK /\ ChildAtStep /\ EndingAtStep
             /\ DirectoryAtStep /\ NothingLeftBehind

LEMMA ParserInitInv == ParserInit => ParserInv
  BY DEF ParserInit, ParserInv, ParserTypeOK, ChildAtStep, EndingAtStep,
         DirectoryAtStep, NothingLeftBehind, Reasons

LEMMA ParserNextInv == ParserInv /\ [ParserNext]_parserVars => ParserInv'
  <1> SUFFICES ASSUME ParserInv, [ParserNext]_parserVars
               PROVE  ParserInv'
    OBVIOUS
  <1> USE DEF ParserInv, ParserTypeOK, ChildAtStep, EndingAtStep,
              DirectoryAtStep, NothingLeftBehind, Reasons
  <1>1. CASE Refuse \/ ReadDocument
    BY <1>1 DEF Refuse, ReadDocument
  <1>2. CASE MakeDirectory \/ PrepareFails
    <2>1. CASE MakeDirectory
      BY <2>1 DEF MakeDirectory
    <2>2. CASE PrepareFails
      BY <2>2 DEF PrepareFails
    <2> QED
      BY <1>2, <2>1, <2>2
  <1>3. CASE SpawnWorker
    BY <1>3 DEF SpawnWorker
  <1>4. CASE WorkerError
    BY <1>4 DEF WorkerError
  <1>5. CASE WorkerClosed
    BY <1>5 DEF WorkerClosed
  <1>6. ASSUME NEW reason \in Reasons, Terminate(reason)
        PROVE  ParserInv'
    BY <1>6 DEF Terminate
  <1>7. CASE GraceOver
    BY <1>7 DEF GraceOver, Escalate
  <1>8. CASE Terminated
    BY <1>8 DEF Terminated
  <1>9. CASE LastKill
    BY <1>9 DEF LastKill, Escalate
  <1>10. CASE Settle
    <2>1. /\ step' = "settled" /\ requestDir' = FALSE
          /\ UNCHANGED <<child, code, ending, result>>
      BY <1>10 DEF Settle, RemoveDirectory
    <2>2. child # "running"
      BY <1>10 DEF Settle
    <2> QED
      BY <2>1, <2>2
  <1>11. CASE WorkerExits
    BY <1>11 DEF WorkerExits
  <1>12. CASE WorkerKilled
    BY <1>12 DEF WorkerKilled
  <1>13. CASE PipesClose
    BY <1>13 DEF PipesClose
  <1>14. CASE UNCHANGED parserVars
    BY <1>14 DEF parserVars
  <1> QED
    BY <1>1, <1>2, <1>3, <1>4, <1>5, <1>6, <1>7, <1>8, <1>9, <1>10, <1>11,
       <1>12, <1>13, <1>14
    DEF ParserNext, ParserStep

LEMMA ParserAlwaysInv == ParserSpec => []ParserInv
  BY ParserInitInv, ParserNextInv, PTL DEF ParserSpec

\* A request that has settled has left no running worker, whichever of
\* answer, timeout, cancellation, exit and close came first, and no
\* directory unless it failed before there was a worker (runParserWorker).
THEOREM NothingIsLeftBehind == ParserSpec => []NothingLeftBehind
  <1>1. ParserInv => NothingLeftBehind
    BY DEF ParserInv
  <1> QED
    BY <1>1, ParserAlwaysInv, PTL

-----------------------------------------------------------------------------
(* The setup command. *)

\* The second tunnel is started when the first one has been told to stop,
\* and is the carrier from then on.
TunnelAtStage ==
    /\ stage \in {"checks", "tunnel", "pause", "retry"} => carrier = "none"
    /\ stage \in {"checks", "tunnel", "pause"} => stack["retry"] = "none"
    /\ stage \in {"pause", "retry"} => "tunnel" \in stopping
    /\ stage \in {"relay", "control", "selftest", "offer", "staying"}
         => carrier # "none"
    /\ carrier = "tunnel" => stack["retry"] = "none"
    /\ carrier = "retry" => "tunnel" \in stopping

SetupInv == SetupTypeOK /\ TunnelAtStage /\ StopReachesAll

LEMMA SetupInitInv == SetupInit => SetupInv
  BY DEF SetupInit, SetupInv, SetupTypeOK, TunnelAtStage, StopReachesAll,
         StackChildren

LEMMA SetupNextInv == SetupInv /\ [SetupNext]_setupVars => SetupInv'
  <1> SUFFICES ASSUME SetupInv, [SetupNext]_setupVars
               PROVE  SetupInv'
    OBVIOUS
  <1> USE DEF SetupInv, SetupTypeOK, TunnelAtStage, StopReachesAll,
              StackChildren, Running
  <1>1. CASE ChecksPass
    BY <1>1 DEF ChecksPass, SpawnChild
  <1>2. CASE TunnelGivenUp
    BY <1>2 DEF TunnelGivenUp
  <1>3. CASE RetryTunnel
    BY <1>3 DEF RetryTunnel, SpawnChild
  <1>4. CASE Fatal
    BY <1>4 DEF Fatal
  <1>5. CASE RelayReady
    BY <1>5 DEF RelayReady
  <1>6. CASE StartControl
    BY <1>6 DEF StartControl, SpawnChild
  <1>7. CASE SelfTested \/ HarnessOffers \/ OfferTimeout
    BY <1>7 DEF SelfTested, HarnessOffers, OfferTimeout
  <1>8. CASE StayUp
    BY <1>8 DEF StayUp
  <1>9. CASE StopStack
    <2>1. \A c \in StackChildren : c \in stopping' \/ ~Running(c)'
      BY <1>9 DEF StopStack, Kept
    <2> QED
      BY <1>9, <2>1 DEF StopStack, Kept
  <1>10. CASE Killed \/ NothingToWaitFor
    BY <1>10 DEF Killed, NothingToWaitFor
  <1>11. ASSUME NEW c \in StackChildren, TunnelReady(c)
         PROVE  SetupInv'
    BY <1>11 DEF TunnelReady, SpawnChild
  <1>12. ASSUME NEW c \in StackChildren, ChildExits(c)
         PROVE  SetupInv'
    BY <1>12 DEF ChildExits
  <1>13. CASE UNCHANGED setupVars
    BY <1>13 DEF setupVars
  <1> QED
    BY <1>1, <1>2, <1>3, <1>4, <1>5, <1>6, <1>7, <1>8, <1>9, <1>10, <1>11,
       <1>12, <1>13
    DEF SetupNext

\* The stop of a stack that is up reaches every child that runs, the tunnel
\* that was given up included, wherever the children exited and whenever the
\* command was signalled (stop() in main, setup.ts).
THEOREM StopReachesEveryChild == SetupSpec => []StopReachesAll
  <1>1. SetupInv => StopReachesAll
    BY DEF SetupInv
  <1> QED
    BY <1>1, SetupInitInv, SetupNextInv, PTL DEF SetupSpec

-----------------------------------------------------------------------------
(* The one-click setup. *)

ConfigureInv == ConfigureTypeOK /\ TunnelIsKnown

LEMMA ConfigureNextInv ==
  ConfigureInv /\ [ConfigureNext]_configureVars => ConfigureInv'
  <1> SUFFICES ASSUME ConfigureInv, [ConfigureNext]_configureVars
               PROVE  ConfigureInv'
    OBVIOUS
  <1> USE DEF ConfigureInv, ConfigureTypeOK, TunnelIsKnown, InPhase
  <1>1. CASE StopTunnel
    BY <1>1 DEF StopTunnel
  <1>2. ASSUME NEW s \in Setups, StartTunnel(s)
        PROVE  ConfigureInv'
    <2>1. ConfigureTypeOK'
      BY <1>2 DEF StartTunnel, Overtake
    <2>2. ASSUME NEW r \in Setups, cloudflared'[r] = "running"
          PROVE  r = setupProcess' \/ r \in (terminated \union overtaken)'
      <3>1. CASE r = s
        BY <1>2, <3>1 DEF StartTunnel, Overtake
      <3>2. CASE r # s
        <4>1. cloudflared[r] = "running"
          BY <1>2, <2>2, <3>2 DEF StartTunnel
        <4> QED
          BY <1>2, <4>1, SetupsAssumption DEF StartTunnel, Overtake
      <3> QED
        BY <3>1, <3>2
    <2> QED
      BY <2>1, <2>2
  <1>3. ASSUME NEW s \in Setups,
               \/ Precheck(s) \/ NotReady(s) \/ TunnelUrl(s) \/ StartFailed(s)
               \/ SelfTestDone(s) \/ OfferTunnel(s) \/ OfferFails(s)
        PROVE  ConfigureInv'
    BY <1>3 DEF Precheck, NotReady, TunnelUrl, StartFailed, SelfTestDone,
                OfferTunnel, OfferFails
  <1>4. ASSUME NEW s \in Setups, TunnelExits(s)
        PROVE  ConfigureInv'
    BY <1>4 DEF TunnelExits
  <1>5. CASE UNCHANGED configureVars
    BY <1>5 DEF configureVars
  <1> QED
    BY <1>1, <1>2, <1>3, <1>4, <1>5 DEF ConfigureNext

\* Any number of overlapping setups leaves no running tunnel that was neither
\* told to stop, nor can be, nor was overtaken by a later setup
\* (remoteSetupProcess).
THEOREM TunnelsAreKnown == ConfigureSpec => []TunnelIsKnown
  <1>1. ConfigureInit => ConfigureInv
    BY DEF ConfigureInit, ConfigureInv, ConfigureTypeOK, TunnelIsKnown
  <1>2. ConfigureInv => TunnelIsKnown
    BY DEF ConfigureInv
  <1> QED
    BY <1>1, <1>2, ConfigureNextInv, PTL DEF ConfigureSpec

=============================================================================
