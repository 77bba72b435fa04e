--------------------------- MODULE HarnessRestarts ---------------------------
(***************************************************************************)
(* superviseHarness (packages/remote-daemon/src/bin.ts): the headless      *)
(* daemon starts the Harness, waits until it serves its page, restarts it  *)
(* when it fails, and stops it on SIGTERM or SIGINT.  The exit of the      *)
(* Harness is an event: who does not listen yet does not get it.           *)
(***************************************************************************)
EXTENDS Naturals

CONSTANT MaxRestarts  \* MAX_RESTARTS

ASSUME RestartsAssumption == MaxRestarts \in Nat

VARIABLES
    loop,      \* the place of the loop
    stopAsked, \* stopping
    harness,   \* the process: "none", "alive" or "gone"
    term,      \* stopTree is at work on it: SIGTERM was sent
    exitSeen,  \* the exit reached a listener of the loop
    restarts,  \* restarts made, never reset
    strays     \* history: a Harness was started while the last was alive

restartVars == <<loop, stopAsked, harness, term, exitSeen, restarts, strays>>

Over == {"ended", "failed", "crashed"}

RestartTypeOK ==
    /\ loop \in {"spawn", "poll", "probe", "running", "stopTree", "sleep"}
                  \union Over
    /\ stopAsked \in BOOLEAN
    /\ harness \in {"none", "alive", "gone"}
    /\ term \in BOOLEAN /\ exitSeen \in BOOLEAN /\ strays \in BOOLEAN
    /\ restarts \in 0..MaxRestarts

RestartInit ==
    /\ loop = "spawn" /\ stopAsked = FALSE /\ harness = "none"
    /\ term = FALSE /\ exitSeen = FALSE /\ restarts = 0 /\ strays = FALSE

\* The condition of the loop, then spawn.
SpawnHarness ==
    /\ loop = "spawn"
    /\ IF stopAsked
       THEN loop' = "ended" /\ UNCHANGED <<harness, strays>>
       ELSE /\ loop' = "poll"
            /\ harness' = "alive"
            /\ strays' = (strays \/ harness = "alive")
    /\ exitSeen' = FALSE
    /\ term' = FALSE
    /\ UNCHANGED <<stopAsked, restarts>>

\* Nobody listens for the error of a Harness that cannot be started.
SpawnError ==
    /\ loop = "poll" /\ harness = "alive"
    /\ loop' = "crashed" /\ harness' = "gone"
    /\ UNCHANGED <<stopAsked, term, exitSeen, restarts, strays>>

\* waitForHarnessReady: the page is asked for every 250 ms.
Probe ==
    /\ loop = "poll" /\ ~exitSeen
    /\ loop' = "probe"
    /\ UNCHANGED <<stopAsked, harness, term, exitSeen, restarts, strays>>

ProbeFails ==
    /\ loop = "probe"
    /\ loop' = "poll"
    /\ UNCHANGED <<stopAsked, harness, term, exitSeen, restarts, strays>>

\* The whole page has come, if need be from a Harness that has gone since:
\* the exit it had then is not heard by who listens from now on.
ProbeSucceeds ==
    /\ loop = "probe"
    /\ loop' = "running"
    /\ exitSeen' = FALSE
    /\ UNCHANGED <<stopAsked, harness, term, restarts, strays>>

\* catch: nothing more if the loop is stopping.
OnFailure == loop' = IF stopAsked THEN "ended" ELSE "stopTree"

ReadyTimeout ==
    /\ loop = "poll"
    /\ OnFailure
    /\ UNCHANGED <<stopAsked, harness, term, exitSeen, restarts, strays>>

\* The Harness ends, by itself or by a signal.
HarnessExits ==
    /\ harness = "alive"
    /\ harness' = "gone"
    /\ exitSeen' = TRUE
    /\ UNCHANGED <<loop, stopAsked, term, restarts, strays>>

\* The exit rejects the wait for readiness, or ends the wait for the exit.
HearExit ==
    /\ exitSeen
    /\ \/ loop = "poll" /\ OnFailure
       \/ loop = "running" /\ OnFailure
       \/ loop = "running" /\ loop' = "ended"  \* code 0
    /\ UNCHANGED <<stopAsked, harness, term, exitSeen, restarts, strays>>

\* The exit went unheard: nothing is left to keep the daemon running.
NothingLeft ==
    /\ loop = "running" /\ harness = "gone" /\ ~exitSeen
    /\ loop' = "ended"
    /\ UNCHANGED <<stopAsked, harness, term, exitSeen, restarts, strays>>

\* stopTree in the catch, which is awaited: SIGTERM to a live Harness.
TermTree ==
    /\ loop = "stopTree" /\ harness = "alive" /\ ~term
    /\ term' = TRUE
    /\ UNCHANGED <<loop, stopAsked, harness, exitSeen, restarts, strays>>

\* Five seconds after SIGTERM comes SIGKILL.
KillTree ==
    /\ term /\ harness = "alive"
    /\ harness' = "gone" /\ exitSeen' = TRUE
    /\ UNCHANGED <<loop, stopAsked, term, restarts, strays>>

\* Mutant: stopTree is not awaited.
NotAwaited == TRUE

TreeStopped == harness = "gone"

\* Mutant: one restart more.
GiveUpLate == restarts > MaxRestarts

GiveUp == restarts >= MaxRestarts

\* Give up, or wait longer and longer and start again.
Backoff ==
    /\ loop = "stopTree" /\ TreeStopped
    /\ IF GiveUp
       THEN loop' = "failed" /\ UNCHANGED restarts
       ELSE loop' = "sleep" /\ restarts' = restarts + 1
    /\ UNCHANGED <<stopAsked, harness, term, exitSeen, strays>>

WakeUp ==
    /\ loop = "sleep"
    /\ loop' = "spawn"
    /\ UNCHANGED <<stopAsked, harness, term, exitSeen, restarts, strays>>

\* Mutant: a signal only raises the flag.
FlagOnly == term' = term

StopCurrent == term' = (term \/ harness = "alive")

\* SIGTERM or SIGINT.
Signal ==
    /\ ~stopAsked /\ loop \notin Over
    /\ stopAsked' = TRUE
    /\ StopCurrent
    /\ UNCHANGED <<loop, harness, exitSeen, restarts, strays>>

RestartStep ==
    \/ SpawnHarness \/ ProbeFails \/ HearExit \/ NothingLeft \/ TermTree
    \/ KillTree \/ Backoff \/ WakeUp

RestartNext ==
    \/ RestartStep \/ SpawnError \/ Probe \/ ProbeSucceeds \/ ReadyTimeout
    \/ HarnessExits \/ Signal

\* The timers and the loop go on; a probe ends (the Harness, once killed,
\* breaks the connection), and the deadline of the readiness passes.
RestartFairness ==
    /\ WF_restartVars(RestartStep)
    /\ SF_restartVars(ReadyTimeout)
    /\ WF_restartVars(KillTree)
    /\ SF_restartVars(HearExit)

RestartSpec == RestartInit /\ [][RestartNext]_restartVars /\ RestartFairness

-----------------------------------------------------------------------------
(* Properties. *)

\* A new Harness is started only when the last one is gone, whatever it made
\* of SIGTERM (superviseHarness awaits stopTree).
OneHarness == ~strays

\* After a signal the supervisor ends and no Harness is left, wherever the
\* loop was: starting, probing, stopping a failed one or waiting.
SignalEndsAll == stopAsked ~> (loop \in Over /\ harness # "alive")
=============================================================================
