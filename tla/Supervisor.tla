----------------------------- MODULE Supervisor -----------------------------
(***************************************************************************)
(* The desktop's Harness supervisor (apps/desktop/src-tauri/src/lib.rs).   *)
(*                                                                         *)
(* One mutex-protected slot holds the run the desktop tracks.  Three kinds *)
(* of thread work on it: the main thread executes the commands of the UI   *)
(* and the tray one at a time, the startup thread calls start_harness      *)
(* once, and every successful start leaves a monitor thread behind that    *)
(* polls whatever the slot then holds.  A command keeps the slot mutex for *)
(* its whole duration; a monitor takes it for single reads and writes, and *)
(* writes the status snapshot under a second mutex of its own.             *)
(*                                                                         *)
(* Successful starts are numbered; the number names the stopping flag and  *)
(* the monitor the start creates.  (The generation counter of the code is  *)
(* only ever displayed and is left out.)  Processes are numbered as they   *)
(* are launched, by the desktop or, on port 3080, by the user (those in    *)
(* "outside").                                                             *)
(***************************************************************************)
EXTENDS Integers, FiniteSets

CONSTANTS
    MaxRestarts,  \* the restart limit of monitor_harness (5 in the code)
    MaxStart,     \* bound: successful starts
    MaxProc,      \* bound: processes launched
    MaxOutside,   \* bound: times the user launches a Harness of their own
    MaxLaunch     \* bound: times the desktop application is launched

ASSUME BoundsAssumption ==
    /\ MaxRestarts \in Nat \ {0}
    /\ MaxStart \in Nat
    /\ MaxProc \in Nat
    /\ MaxOutside \in Nat
    /\ MaxLaunch \in Nat \ {0}

Procs == 1..MaxProc
NoProc == 0
Starts == 1..MaxStart
Threads == {"main", "startup"}

VARIABLES
    slot,      \* HarnessState: the tracked run, or NoRun
    status,    \* SupervisorStatusState: the state the UI and the tray show
    lock,      \* the thread that holds the slot mutex across steps, or "free"
    thread,    \* per command thread: its place in start/stop
    monitor,   \* per start: the monitor thread it left behind
    stopping,  \* starts whose shared stopping flag is set
    registry,  \* the process named by the service registration file
    alive,     \* live Harness processes
    outside,   \* processes the user launched, outside the desktop
    nextStart, \* number of the next successful start
    nextProc,  \* the next process id of the operating system
    app,       \* the desktop process: "up", "quit" (orderly) or "dead"
    launches,  \* launches so far
    inherited, \* history: processes the last launch of the desktop left
    overlap    \* history: a start went ahead while a monitor was active

appVars == <<app, launches, inherited, overlap>>

vars == <<slot, status, lock, thread, monitor, stopping, registry, alive,
          outside, nextStart, nextProc, app, launches, inherited, overlap>>

-----------------------------------------------------------------------------
(* Data. *)

NoRun == [proc |-> NoProc, flag |-> 0,
          managed |-> FALSE, child |-> FALSE]

Runs == [proc : Procs, flag : Starts,
         managed : BOOLEAN, child : BOOLEAN]

StatusStates == {"idle", "starting", "ready", "stopping", "stopped",
                 "restarting", "failed"}

ThreadSteps == {"idle", "start", "probe", "attempt", "spawning", "report",
                "killing", "exit"}

\* What the main thread does once a stop has returned.
Continuations == {"idle", "start", "exit"}

ThreadStates == [at : ThreadSteps, then : Continuations,
                 proc : Procs \union {NoProc}, recovered : BOOLEAN]

Resting == [at |-> "idle", then |-> "idle", proc |-> NoProc,
            recovered |-> FALSE]

MonitorSteps == {"none", "watch", "exited", "dropStopped", "reportStopped",
                 "detached", "drop", "reportRestart", "backoff", "spawning",
                 "reportReady", "done"}

MonitorStates == [at : MonitorSteps, managed : BOOLEAN,
                  flag : Starts \union {0}, proc : Procs \union {NoProc},
                  restarts : 0..(MaxRestarts + 1), stable : BOOLEAN,
                  tries : Nat]

NoMonitor == [at |-> "none", managed |-> FALSE, flag |-> 0, proc |-> NoProc,
              restarts |-> 0, stable |-> FALSE, tries |-> 0]

Ended == [NoMonitor EXCEPT !.at = "done"]

\* Mutants of NewMonitor: only launched runs are monitored; the managed
\* argument is lost.
NewMonitorOnlyManaged(isManaged) ==
    [NoMonitor EXCEPT !.at = IF isManaged THEN "watch" ELSE "done",
                      !.managed = isManaged]
NewMonitorUnmanaged(isManaged) == [NoMonitor EXCEPT !.at = "watch"]

NewMonitor(isManaged) ==
    [NoMonitor EXCEPT !.at = "watch", !.managed = isManaged]

TypeOK ==
    /\ slot \in Runs \union {NoRun}
    /\ status \in StatusStates
    /\ lock \in Threads \union {"free"}
    /\ thread \in [Threads -> ThreadStates]
    /\ monitor \in [Starts -> MonitorStates]
    /\ stopping \subseteq Starts
    /\ registry \in Procs \union {NoProc}
    /\ alive \subseteq Procs
    /\ outside \subseteq Procs
    /\ nextStart \in 1..(MaxStart + 1)
    /\ nextProc \in 1..(MaxProc + 1)
    /\ app \in {"up", "quit", "dead"}
    /\ launches \in 1..MaxLaunch
    /\ inherited \subseteq Procs
    /\ overlap \in BOOLEAN

Active(g) == monitor[g].at \notin {"none", "done"}

Tracked == IF slot = NoRun THEN {} ELSE {slot.proc}

\* Processes some thread is launching, or killing after it took them.
InHand == {thread[t].proc : t \in Threads}
            \union {monitor[g].proc :
                      g \in {h \in Starts : monitor[h].at = "spawning"}}

\* Live processes that this launch of the desktop started.
OwnLive == alive \ (outside \union inherited)

-----------------------------------------------------------------------------
(* The initial state: the application has just been launched; its startup  *)
(* thread is about to call start_harness.                                  *)

Init ==
    /\ slot = NoRun
    /\ status = "idle"
    /\ lock = "free"
    /\ thread = [t \in Threads |->
                    IF t = "startup" THEN [Resting EXCEPT !.at = "start"]
                                     ELSE Resting]
    /\ monitor = [g \in Starts |-> NoMonitor]
    /\ stopping = {}
    /\ registry = NoProc
    /\ alive = {}
    /\ outside = {}
    /\ nextStart = 1
    /\ nextProc = 1
    /\ app = "up"
    /\ launches = 1
    /\ inherited = {}
    /\ overlap = FALSE

-----------------------------------------------------------------------------
(* start_harness.  The slot mutex is held from StartEnter to the return.   *)

\* A tracked run answers the call, whatever became of its process.
StartTracked(t) ==
    /\ thread[t].at = "start"
    /\ lock = "free"
    /\ slot # NoRun
    /\ thread' = [thread EXCEPT ![t] = Resting]
    /\ UNCHANGED <<slot, status, lock, monitor, stopping, registry, alive,
                   nextStart, nextProc, outside, appVars>>

StartEnter(t) ==
    /\ lock = "free"
    /\ slot = NoRun
    /\ lock' = t
    /\ thread' = [thread EXCEPT ![t] = [Resting EXCEPT !.at = "probe"]]
    /\ status' = "starting"
    /\ overlap' = (overlap \/ \E g \in Starts : Active(g))
    /\ UNCHANGED <<slot, monitor, stopping, registry, alive, nextStart,
                   nextProc, outside, app, launches, inherited>>

StartWaiting(t) == thread[t].at = "start" /\ StartEnter(t)

\* The tail every successful start shares: a stopping flag of its own, the slot
\* filled, the status "ready", a monitor spawned, the mutex released.
Publish(t, p, isManaged, isChild, watchManaged) ==
    /\ nextStart <= MaxStart
    /\ slot' = [proc |-> p, flag |-> nextStart,
                managed |-> isManaged, child |-> isChild]
    /\ status' = "ready"
    /\ monitor' = [monitor EXCEPT ![nextStart] = NewMonitor(watchManaged)]
    /\ nextStart' = nextStart + 1
    /\ lock' = "free"
    /\ thread' = [thread EXCEPT ![t] = Resting]
    /\ UNCHANGED <<stopping, alive, nextProc, outside, appVars>>

\* registered_service: a live, healthy process named by the registration of
\* an earlier start.  The registration was written with managed = true; the
\* monitor is told not to manage it.
AdoptRegistered(t) ==
    /\ thread[t].at = "probe"
    /\ registry \in alive
    /\ Publish(t, registry, TRUE, FALSE, FALSE)
    /\ UNCHANGED registry

\* discover_external_harness: reached when nothing is registered and alive,
\* or the registered process fails its health probe.
AdoptExternal(t) ==
    /\ thread[t].at = "probe"
    /\ \E p \in alive \intersect outside : Publish(t, p, FALSE, FALSE, FALSE)
    /\ UNCHANGED registry

\* Neither answered, or a Runtime has been restored: start_harness launches a
\* Harness of its own.  What is alive may still have failed its health probe.
StartAttempt(t) ==
    /\ thread[t].at \in {"probe", "attempt"}
    /\ nextProc <= MaxProc
    /\ alive' = alive \union {nextProc}
    /\ nextProc' = nextProc + 1
    /\ thread' = [thread EXCEPT ![t].at = "spawning", ![t].proc = nextProc]
    /\ UNCHANGED <<slot, status, lock, monitor, stopping, registry, nextStart,
                   outside, appVars>>

StartReady(t) ==
    /\ thread[t].at = "spawning"
    /\ thread[t].proc \in alive
    /\ Publish(t, thread[t].proc, TRUE, TRUE, TRUE)
    \* A failed write is only logged.
    /\ registry' \in {thread[t].proc, registry}

\* cleanup_child: the process group of a failed launch is killed.
CleanUpNothing(p) == alive
CleanUp(p) == alive \ {p}

\* No command line, no readiness line or no health: the child is killed
\* (cleanup_child).  The first failure may be answered by restoring the
\* previous or the embedded Runtime, which starts a second attempt.
StartRecover(t) ==
    /\ thread[t].at \in {"probe", "attempt", "spawning"}
    /\ ~thread[t].recovered
    /\ alive' = CleanUp(thread[t].proc)
    /\ thread' = [thread EXCEPT ![t].at = "attempt", ![t].proc = NoProc,
                                ![t].recovered = TRUE]
    /\ UNCHANGED <<slot, status, lock, monitor, stopping, registry, nextStart,
                   nextProc, outside, appVars>>

\* The error is returned to the caller with the status still "starting";
\* only the startup thread goes on to report it.
StartFail(t) ==
    /\ thread[t].at \in {"probe", "attempt", "spawning"}
    /\ alive' = CleanUp(thread[t].proc)
    /\ lock' = "free"
    /\ thread' = [thread EXCEPT ![t] =
                    IF t = "startup" THEN [Resting EXCEPT !.at = "report"]
                                     ELSE Resting]
    /\ UNCHANGED <<slot, status, monitor, stopping, registry, nextStart,
                   nextProc, outside, appVars>>

StartupReport ==
    /\ thread["startup"].at = "report"
    /\ status' = "failed"
    /\ thread' = [thread EXCEPT !["startup"] = Resting]
    /\ UNCHANGED <<slot, lock, monitor, stopping, registry, alive, nextStart,
                   nextProc, outside, appVars>>

-----------------------------------------------------------------------------
(* stop_harness_inner.  The mutex is held until the process is gone.       *)

\* Mutant: every tracked process is stopped.
KillableAny(run) == run # NoRun

\* stop_child leaves a process alone that the desktop neither launched nor
\* manages; only for the others does it set the stopping flag and kill.
\* (NoRun is neither, so an empty slot stops nothing.)
Killable(run) == run.child \/ run.managed

StopEnter(after) ==
    /\ app = "up"
    /\ thread["main"].at = "idle"
    /\ lock = "free"
    /\ lock' = "main"
    /\ status' = "stopping"
    /\ slot' = NoRun
    /\ stopping' = IF Killable(slot) THEN stopping \union {slot.flag}
                   ELSE stopping
    /\ thread' = [thread EXCEPT !["main"] =
                    [Resting EXCEPT !.at = "killing", !.then = after,
                       !.proc = IF Killable(slot) THEN slot.proc ELSE NoProc]]
    /\ UNCHANGED <<monitor, registry, alive, nextStart, nextProc, outside,
                   appVars>>

\* TERM, five seconds of grace, KILL.
StopFinish ==
    /\ thread["main"].at = "killing"
    /\ alive' = alive \ {thread["main"].proc}
    /\ status' = "stopped"
    /\ lock' = "free"
    /\ thread' = [thread EXCEPT !["main"] =
                    [Resting EXCEPT !.at = thread["main"].then]]
    /\ UNCHANGED <<slot, monitor, stopping, registry, nextStart, nextProc,
                   outside, appVars>>

-----------------------------------------------------------------------------
(* Commands.  Tauri runs them on the main thread, one at a time.  A command *)
(* that waits for the mutex has done nothing yet, so it begins when it gets *)
(* the mutex; one that finds a tracked run returns its URL at once.         *)

\* harness_url, ensure_harness and the tray's "open" entries.
EnsureHarness == app = "up" /\ thread["main"].at = "idle" /\ StartEnter("main")

\* supervisor_retry does nothing unless the status says "failed".
SupervisorRetry == status = "failed" /\ EnsureHarness

StopHarness == StopEnter("idle")

SupervisorRestart == StopEnter("start")

\* RunEvent::ExitRequested: stop_harness_inner, then app.exit(0).
ExitRequested == StopEnter("exit")

-----------------------------------------------------------------------------
(* monitor_harness.  A monitor polls the slot every 250 ms, and not the    *)
(* run that created it: whatever run it finds there is the one it watches. *)

\* The monitor's steps leave the command threads and the histories alone.
MonitorFrame ==
    UNCHANGED <<lock, thread, stopping, registry, outside, appVars>>

\* An empty slot ends the thread.
MonitorLeave(g) ==
    /\ monitor[g].at = "watch"
    /\ lock = "free"
    /\ slot = NoRun
    /\ monitor' = [monitor EXCEPT ![g] = Ended]
    /\ MonitorFrame
    /\ UNCHANGED <<slot, status, alive, nextStart, nextProc>>

\* try_wait (or, for an adopted process, kill -0) finds the process gone.
\* The thread keeps the flag of the run it saw and releases the mutex.
MonitorSeeExit(g) ==
    /\ monitor[g].at = "watch"
    /\ lock = "free"
    /\ slot # NoRun
    /\ slot.proc \notin alive
    /\ monitor' = [monitor EXCEPT ![g].at = "exited", ![g].flag = slot.flag,
                                  ![g].proc = slot.proc]
    /\ MonitorFrame
    /\ UNCHANGED <<slot, status, alive, nextStart, nextProc>>

MonitorClassify(g) ==
    /\ monitor[g].at = "exited"
    /\ monitor' = [monitor EXCEPT ![g].at =
                     IF monitor[g].flag \in stopping
                     THEN "dropStopped"
                     ELSE IF monitor[g].managed THEN "drop" ELSE "detached"]
    /\ MonitorFrame
    /\ UNCHANGED <<slot, status, alive, nextStart, nextProc>>

\* guard.take() asks nothing: it empties the slot of whatever run is there.
DropStopped(g) ==
    /\ monitor[g].at = "dropStopped"
    /\ lock = "free"
    /\ slot' = NoRun
    /\ monitor' = [monitor EXCEPT ![g].at = "reportStopped"]
    /\ MonitorFrame
    /\ UNCHANGED <<status, alive, nextStart, nextProc>>

ReportStopped(g) ==
    /\ monitor[g].at = "reportStopped"
    /\ status' = "stopped"
    /\ monitor' = [monitor EXCEPT ![g] = Ended]
    /\ MonitorFrame
    /\ UNCHANGED <<slot, alive, nextStart, nextProc>>

\* An adopted process has gone: the status fails, the slot stays as it is.
ReportDetached(g) ==
    /\ monitor[g].at = "detached"
    /\ status' = "failed"
    /\ monitor' = [monitor EXCEPT ![g] = Ended]
    /\ MonitorFrame
    /\ UNCHANGED <<slot, alive, nextStart, nextProc>>

\* Mutant: any respawn that came up resets the count.
CountExitLenient(g, fresh) ==
    IF monitor[g].stable THEN 1 ELSE monitor[g].restarts + 1

CountExit(g, fresh) == IF fresh THEN 1 ELSE monitor[g].restarts + 1

\* cleanup_descendants of the dead process, guard.take(), and the restart
\* count, which starts afresh when the last respawn held for a minute.
Drop(g) ==
    /\ monitor[g].at = "drop"
    /\ lock = "free"
    /\ slot' = NoRun
    /\ alive' = CleanUp(monitor[g].proc)
    /\ \E fresh \in {FALSE, monitor[g].stable} :
         monitor' = [monitor EXCEPT
                       ![g].at = "reportRestart",
                       ![g].restarts = CountExit(g, fresh),
                       ![g].tries = IF fresh THEN 0 ELSE @]
    /\ MonitorFrame
    /\ UNCHANGED <<status, nextStart, nextProc>>

ReportRestart(g) ==
    /\ monitor[g].at = "reportRestart"
    /\ status' = "restarting"
    /\ monitor' = [monitor EXCEPT ![g].at = "backoff"]
    /\ MonitorFrame
    /\ UNCHANGED <<slot, alive, nextStart, nextProc>>

LimitExceeded(g) == monitor[g].restarts > MaxRestarts

\* The respawn loop ends at its head on too many restarts, and at its head or
\* after its sleep on a stop.
GiveUp(g) ==
    /\ monitor[g].at = "backoff"
    /\ LimitExceeded(g) \/ monitor[g].flag \in stopping
    /\ status' = IF monitor[g].flag \in stopping THEN status
                 ELSE "failed"
    /\ monitor' = [monitor EXCEPT ![g] = Ended]
    /\ MonitorFrame
    /\ UNCHANGED <<slot, alive, nextStart, nextProc>>

\* The sleep ends and no stop was asked for before or meanwhile: a process is
\* launched, with no mutex held.
Respawn(g) ==
    /\ monitor[g].at = "backoff"
    /\ ~LimitExceeded(g)
    /\ monitor[g].flag \notin stopping
    /\ nextProc <= MaxProc
    /\ alive' = alive \union {nextProc}
    /\ nextProc' = nextProc + 1
    /\ monitor' = [monitor EXCEPT ![g].at = "spawning", ![g].proc = nextProc,
                                  ![g].tries = @ + 1]
    /\ MonitorFrame
    /\ UNCHANGED <<slot, status, nextStart>>

\* The slot is overwritten, occupied or not.  The registration file keeps
\* naming the process of the original start.
RespawnReady(g) ==
    /\ monitor[g].at = "spawning"
    /\ monitor[g].proc \in alive
    /\ lock = "free"
    /\ slot' = [proc |-> monitor[g].proc, flag |-> monitor[g].flag,
                managed |-> TRUE, child |-> TRUE]
    /\ monitor' = [monitor EXCEPT ![g].at = "reportReady", ![g].stable = TRUE]
    /\ MonitorFrame
    /\ UNCHANGED <<status, alive, nextStart, nextProc>>

ReportReady(g) ==
    /\ monitor[g].at = "reportReady"
    /\ status' = "ready"
    /\ monitor' = [monitor EXCEPT ![g].at = "watch", ![g].flag = 0,
                                  ![g].proc = NoProc]
    /\ MonitorFrame
    /\ UNCHANGED <<slot, alive, nextStart, nextProc>>

RespawnFail(g) ==
    /\ monitor[g].at = "spawning"
    /\ alive' = CleanUp(monitor[g].proc)
    /\ IF monitor[g].restarts >= MaxRestarts
       THEN /\ status' = "failed"
            /\ monitor' = [monitor EXCEPT ![g] = Ended]
       ELSE /\ monitor' = [monitor EXCEPT ![g].at = "backoff",
                                          ![g].restarts = @ + 1]
            /\ UNCHANGED status
    /\ MonitorFrame
    /\ UNCHANGED <<slot, nextStart, nextProc>>

-----------------------------------------------------------------------------
(* The environment: processes exit, the user runs a Harness of their own,  *)
(* the desktop is killed and launched again.                               *)

ProcessExit(p) ==
    /\ p \in alive
    /\ alive' = alive \ {p}
    /\ UNCHANGED <<slot, status, lock, thread, monitor, stopping, registry,
                   nextStart, nextProc, outside, appVars>>

ExternalStart ==
    /\ alive \intersect outside = {}
    /\ Cardinality(outside) < MaxOutside
    /\ nextProc <= MaxProc
    /\ alive' = alive \union {nextProc}
    /\ outside' = outside \union {nextProc}
    /\ nextProc' = nextProc + 1
    /\ UNCHANGED <<slot, status, lock, thread, monitor, stopping, registry,
                   nextStart, appVars>>

\* Every thread of the desktop ends with its process; the Harness processes
\* are in groups of their own and go on.
DesktopEnds(how) ==
    /\ app = "up"
    /\ app' = how
    /\ slot' = NoRun
    /\ lock' = "free"
    /\ thread' = [t \in Threads |-> Resting]
    /\ monitor' = [g \in Starts |-> NoMonitor]
    /\ status' = "idle"
    /\ stopping' = {}
    /\ overlap' = FALSE
    /\ UNCHANGED <<registry, alive, outside, nextStart, nextProc, launches,
                   inherited>>

Exit == thread["main"].at = "exit" /\ DesktopEnds("quit")

DesktopCrash == thread["main"].at # "exit" /\ DesktopEnds("dead")

Launch ==
    /\ app # "up"
    /\ launches < MaxLaunch
    /\ app' = "up"
    /\ launches' = launches + 1
    /\ thread' = [thread EXCEPT !["startup"].at = "start"]
    /\ inherited' = alive \ outside
    /\ UNCHANGED <<slot, status, lock, monitor, stopping, registry, alive,
                   outside, nextStart, nextProc, overlap>>

-----------------------------------------------------------------------------
Commands == EnsureHarness \/ SupervisorRetry \/ StopHarness
              \/ SupervisorRestart \/ ExitRequested

StartStep(t) ==
    \/ StartTracked(t) \/ StartWaiting(t)
    \/ AdoptRegistered(t) \/ AdoptExternal(t)
    \/ StartAttempt(t) \/ StartReady(t) \/ StartRecover(t) \/ StartFail(t)

ThreadStep == (\E t \in Threads : StartStep(t))
                \/ StartupReport \/ StopFinish \/ Exit

MonitorStep(g) ==
    \/ MonitorLeave(g) \/ MonitorSeeExit(g) \/ MonitorClassify(g)
    \/ DropStopped(g) \/ ReportStopped(g) \/ ReportDetached(g)
    \/ Drop(g) \/ ReportRestart(g) \/ GiveUp(g)
    \/ Respawn(g) \/ RespawnReady(g) \/ ReportReady(g) \/ RespawnFail(g)

Environment == (\E p \in Procs : ProcessExit(p))
                 \/ ExternalStart \/ DesktopCrash \/ Launch

Next == Commands \/ ThreadStep \/ (\E g \in Starts : MonitorStep(g))
          \/ Environment

\* The operating system schedules every thread, and every wait in them has a
\* timeout: a command and a monitor always get on.
Fairness ==
    /\ \A t \in Threads : WF_vars(StartStep(t))
    /\ WF_vars(StartupReport) /\ WF_vars(StopFinish)
    /\ \A g \in Starts : WF_vars(MonitorStep(g))

Spec == Init /\ [][Next]_vars
FairSpec == Spec /\ Fairness

-----------------------------------------------------------------------------
(* Properties. *)

\* A live Harness in the slot is never left without a monitor, and one the
\* desktop launched never without a monitor that may respawn it - although
\* monitors end whenever they happen to find the slot empty or its process
\* gone, and some of them outlive the run that created them.
TrackedIsWatched ==
    slot # NoRun /\ slot.proc \in alive =>
        \E g \in Starts :
            /\ monitor[g].at \in {"watch", "reportReady"}
            /\ slot.child => monitor[g].managed

\* A Harness that keeps failing is launched at most MaxRestarts times in a
\* row by one monitor: the count of exits and the count of failed launches
\* are the same counter, tested in two places.
RestartBudget == \A g \in Starts : monitor[g].tries <= MaxRestarts

\* Without a start that goes ahead while a monitor is still active, the
\* desktop never has two Harness processes of its own alive, and every one
\* is in the slot or in the hands of the thread that is launching or
\* stopping it.
SoleMonitorOwnsAll ==
    ~overlap /\ app = "up" =>
        /\ Cardinality(OwnLive) <= 1
        /\ OwnLive \subseteq Tracked \union InHand

\* The external process is never killed by the desktop: no command, start or
\* monitor step ends it.
ExternalIsNeverKilled ==
    [][ThreadStep \/ (\E g \in Starts : MonitorStep(g))
         => alive \intersect outside \subseteq alive']_vars

\* A crashed Harness of the desktop's own does not stay in the slot: it is
\* respawned or the slot is given up, whichever monitors are around.
CrashIsNoticed ==
    slot # NoRun /\ slot.child /\ slot.proc \notin alive
        ~> slot = NoRun \/ slot.proc \in alive

\* "a later crash returns the app to a failed state and requires the normal
\* Retry path" (start_harness): once the app shows "failed" and nothing is
\* under way, Retry must find an empty slot or a live Harness in it.
FailedCanBeRetried ==
    status = "failed" /\ lock = "free" /\ slot # NoRun => slot.proc \in alive

\* "app exit stops the Harness first": when the stop that precedes an orderly
\* exit returns, no Harness is running that this launch of the desktop started.
ExitStopsHarness ==
    [][StopFinish /\ thread["main"].then = "exit" => OwnLive' = {}]_vars
=============================================================================
