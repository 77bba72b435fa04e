-------------------------- MODULE SupervisorProofs --------------------------
(***************************************************************************)
(* Proofs about Supervisor, for every number of starts, processes,         *)
(* launches and restarts.                                                  *)
(***************************************************************************)
EXTENDS Supervisor, FiniteSetTheorems, TLAPS

-----------------------------------------------------------------------------
(* The inductive invariant, part by part. *)

\* What a monitor may hold between its steps.  It has the flag of the run it
\* saw end; its count exceeds the limit only before the limit is tested; every
\* launch in a row is paid for by an exit or a failed launch before it; and
\* only a managed monitor gets as far as dropping a run to launch another.
MonitorOK(m) ==
    /\ m \in MonitorStates
    /\ m.at \notin {"none", "watch", "done"} => m.flag \in Starts
    /\ m.at \notin {"reportRestart", "backoff"} => m.restarts <= MaxRestarts
    /\ m.tries <= m.restarts
    /\ m.tries <= MaxRestarts
    /\ m.at \in {"reportRestart", "backoff"} => m.tries < m.restarts
    /\ m.at \in {"drop", "reportRestart", "backoff", "spawning", "reportReady"}
         => m.managed

Typed ==
    /\ TypeOK
    /\ \A g \in Starts : MonitorOK(monitor[g])

\* Every process that is named anywhere has been launched before.
Numbered ==
    /\ \A p \in alive \union outside : p < nextProc
    /\ slot.proc < nextProc
    /\ registry < nextProc
    /\ \A t \in Threads : thread[t].proc < nextProc
    /\ \A g \in Starts : monitor[g].proc < nextProc

\* What the desktop may kill is not the user's: the registered process, the
\* one a command thread is launching or stopping, the tracked one if it counts
\* as launched or managed, and the one a monitor is launching.  The process a
\* monitor saw end is dead.
Owned ==
    /\ registry \notin outside
    /\ \A t \in Threads : thread[t].proc \notin outside
    /\ Killable(slot) => slot.proc \notin outside
    /\ \A g \in Starts :
        /\ monitor[g].at = "spawning" => monitor[g].proc \notin outside
        /\ monitor[g].at \in {"exited", "drop"} => monitor[g].proc \notin alive

Ownership == Typed /\ Numbered /\ Owned

Watching == Typed /\ Numbered /\ TrackedIsWatched

\* A command thread that is past the entry of start or stop holds the mutex,
\* and then nothing is tracked; only one that is launching or stopping has a
\* process in hand; a desktop that is not running has no thread and no run;
\* and a run the desktop may not kill is the user's.
Command ==
    /\ lock # "free" => slot = NoRun
    /\ \A t \in Threads :
        /\ thread[t].at \in {"probe", "attempt", "spawning", "killing"}
             => lock = t
        /\ thread[t].at \notin {"spawning", "killing"}
             => thread[t].proc = NoProc
    /\ app # "up" => /\ slot = NoRun
                     /\ lock = "free"
                     /\ \A t \in Threads : thread[t] = Resting
                     /\ \A g \in Starts : monitor[g] = NoMonitor
    /\ slot # NoRun /\ ~Killable(slot) => slot.proc \in outside

\* A monitor between the exit it saw and the launch that answers it.
Mourning(m) == m.at \in {"exited", "dropStopped", "reportStopped", "detached",
                         "drop", "reportRestart", "backoff"}

\* Process p is in the slot, or some thread is launching or stopping it.
Held(p) == \/ slot # NoRun /\ slot.proc = p
           \/ \E t \in Threads : thread[t].proc = p
           \/ \E g \in Starts :
                 monitor[g].at = "spawning" /\ monitor[g].proc = p

\* Threads at the start of a Harness.
Starting(t) == thread[t].at \in {"probe", "attempt", "spawning"}

\* As long as no start has gone ahead beside an active monitor: one monitor at
\* most is active, and none while a start is under way; whatever of the
\* desktop's own is alive is held, and is one process; nothing is while a
\* monitor mourns, and only the new one while it launches.
Peaceful ==
    /\ \A g, h \in Starts : Active(g) /\ Active(h) => g = h
    /\ \A t \in Threads, g \in Starts : Starting(t) => ~Active(g)
    /\ \A p, q \in OwnLive : p = q
    /\ \A p \in OwnLive : Held(p)
    /\ \A g \in Starts :
         /\ Mourning(monitor[g]) => OwnLive = {}
         /\ monitor[g].at = "spawning" => OwnLive \subseteq {monitor[g].proc}

Sole == ~overlap /\ app = "up" => Peaceful

Alone == Ownership /\ Command /\ Sole

-----------------------------------------------------------------------------
(* Types and counters. *)

\* A monitor that starts, and one that has ended, is in order.
LEMMA FreshMonitorOK ==
    /\ MonitorOK(NoMonitor)
    /\ MonitorOK(Ended)
    /\ \A b \in BOOLEAN : MonitorOK(NewMonitor(b))
  <1> USE BoundsAssumption DEF MonitorOK, MonitorStates, MonitorSteps
  <1>1. /\ NoMonitor \in MonitorStates
        /\ NoMonitor.at = "none"
        /\ NoMonitor.restarts = 0
        /\ NoMonitor.tries = 0
    BY DEF NoMonitor, NoProc
  <1>2. MonitorOK(NoMonitor) /\ MonitorOK(Ended)
    BY <1>1 DEF Ended
  <1>3. ASSUME NEW b \in BOOLEAN PROVE MonitorOK(NewMonitor(b))
    <2>1. NewMonitor(b) \in MonitorStates
      BY <1>1 DEF NewMonitor
    <2>2. /\ NewMonitor(b).at = "watch"
          /\ NewMonitor(b).restarts = 0
          /\ NewMonitor(b).tries = 0
      BY <1>1 DEF NewMonitor
    <2>3. QED
      BY <2>1, <2>2
  <1>4. QED
    BY <1>2, <1>3

\* A monitor that drops its run and starts its count afresh is in order.
LEMMA ResetOK ==
    ASSUME NEW m, MonitorOK(m), m.at = "drop"
    PROVE  MonitorOK([m EXCEPT !.at = "reportRestart",
                               !.restarts = 1, !.tries = 0])
  <1> DEFINE new(count, n) == [m EXCEPT !.at = "reportRestart",
                                        !.restarts = count, !.tries = n]
  <1>1. ASSUME NEW count \in 0..(MaxRestarts + 1), NEW n \in Nat
        PROVE  /\ new(count, n) \in MonitorStates
               /\ new(count, n).at = "reportRestart"
               /\ new(count, n).restarts = count
               /\ new(count, n).tries = n
               /\ new(count, n).flag = m.flag
               /\ new(count, n).managed = m.managed
    BY DEF MonitorOK, MonitorStates, MonitorSteps
  <1>2. /\ 1 \in 0..(MaxRestarts + 1)
        /\ 0 \in Nat /\ 0 < 1 /\ 0 <= MaxRestarts
    BY BoundsAssumption
  <1> HIDE DEF new
  <1>3. /\ new(1, 0) \in MonitorStates
        /\ new(1, 0).at = "reportRestart"
        /\ new(1, 0).restarts = 1
        /\ new(1, 0).tries = 0
        /\ new(1, 0).flag = m.flag
        /\ new(1, 0).managed = m.managed
    BY <1>1, <1>2
  <1>4. m.flag \in Starts /\ m.managed
    BY DEF MonitorOK
  <1>5. new(1, 0).flag \in Starts /\ new(1, 0).managed
    BY <1>3, <1>4
  <1>6. new(1, 0).tries <= new(1, 0).restarts
        /\ new(1, 0).tries <= MaxRestarts
        /\ new(1, 0).tries < new(1, 0).restarts
    BY <1>2, <1>3
  <1>7. MonitorOK(new(1, 0))
    BY <1>3, <1>5, <1>6 DEF MonitorOK
  <1>8. QED
    BY <1>7, Zenon DEF new

\* A step of a monitor leaves the monitor in order, and every other as it was.
LEMMA MonitorStepOK ==
    ASSUME Typed, NEW g \in Starts, MonitorStep(g)
    PROVE  /\ MonitorOK(monitor'[g])
           /\ monitor' = [monitor EXCEPT ![g] = monitor'[g]]
  <1> USE BoundsAssumption DEF Typed, TypeOK
  <1> MonitorOK(monitor[g]) /\ monitor \in [Starts -> MonitorStates]
    OBVIOUS
  <1>1. CASE MonitorLeave(g)
    BY <1>1, FreshMonitorOK DEF MonitorLeave
  <1>2. CASE MonitorSeeExit(g)
    BY <1>2 DEF MonitorSeeExit, MonitorOK, MonitorStates, MonitorSteps, Runs,
                NoRun
  <1>3. CASE MonitorClassify(g)
    BY <1>3 DEF MonitorClassify, MonitorOK, MonitorStates, MonitorSteps
  <1>4. CASE DropStopped(g)
    BY <1>4 DEF DropStopped, MonitorOK, MonitorStates, MonitorSteps
  <1>5. CASE ReportStopped(g)
    BY <1>5, FreshMonitorOK DEF ReportStopped
  <1>6. CASE ReportDetached(g)
    BY <1>6, FreshMonitorOK DEF ReportDetached
  <1>7. CASE Drop(g)
    <2>1. PICK fresh \in {FALSE, monitor[g].stable} :
            monitor' = [monitor EXCEPT
                          ![g].at = "reportRestart",
                          ![g].restarts = CountExit(g, fresh),
                          ![g].tries = IF fresh THEN 0 ELSE @]
      BY <1>7 DEF Drop
    <2>2. fresh \in BOOLEAN /\ monitor[g].at = "drop"
      BY <1>7, <2>1 DEF Drop, MonitorOK, MonitorStates
    <2>3. CASE fresh = TRUE
      <3>1. monitor' = [monitor EXCEPT ![g].at = "reportRestart",
                                       ![g].restarts = 1, ![g].tries = 0]
        BY <2>1, <2>3 DEF CountExit
      <3>2. /\ monitor'[g] = [monitor[g] EXCEPT !.at = "reportRestart",
                                                !.restarts = 1, !.tries = 0]
            /\ monitor' = [monitor EXCEPT ![g] = monitor'[g]]
        BY <3>1
      <3>3. MonitorOK([monitor[g] EXCEPT !.at = "reportRestart",
                                         !.restarts = 1, !.tries = 0])
        BY <2>2, ResetOK, Zenon
      <3>4. QED
        BY <3>2, <3>3
    <2>4. CASE fresh = FALSE
      <3>1. monitor' = [monitor EXCEPT ![g].at = "reportRestart",
                                       ![g].restarts = @ + 1]
        BY <2>1, <2>4, monitor[g] \in MonitorStates
        DEF CountExit, MonitorStates
      <3>2. QED
        BY <2>2, <3>1 DEF MonitorOK, MonitorStates, MonitorSteps
    <2>5. QED
      BY <2>2, <2>3, <2>4
  <1>8. CASE ReportRestart(g)
    BY <1>8 DEF ReportRestart, MonitorOK, MonitorStates, MonitorSteps
  <1>9. CASE GiveUp(g)
    BY <1>9, FreshMonitorOK DEF GiveUp
  <1>10. CASE Respawn(g)
    BY <1>10 DEF Respawn, LimitExceeded, MonitorOK, MonitorStates,
                 MonitorSteps, Procs
  <1>11. CASE RespawnReady(g)
    BY <1>11 DEF RespawnReady, MonitorOK, MonitorStates, MonitorSteps
  <1>12. CASE ReportReady(g)
    BY <1>12 DEF ReportReady, MonitorOK, MonitorStates, MonitorSteps
  <1>13. CASE RespawnFail(g)
    BY <1>13, FreshMonitorOK DEF RespawnFail, MonitorOK, MonitorStates,
                                 MonitorSteps
  <1>14. QED
    BY <1>1, <1>2, <1>3, <1>4, <1>5, <1>6, <1>7, <1>8, <1>9, <1>10, <1>11,
       <1>12, <1>13 DEF MonitorStep

\* The steps of the specification, the commands' names and groups removed.
LEMMA Steps ==
    ASSUME Next
    PROVE  \/ \E t \in Threads :
               \/ StartEnter(t) /\ (app = "up" \/ thread[t].at = "start")
               \/ StartTracked(t) \/ AdoptRegistered(t)
               \/ AdoptExternal(t) \/ StartAttempt(t) \/ StartReady(t)
               \/ StartRecover(t) \/ StartFail(t)
           \/ StartupReport
           \/ \E after \in Continuations : StopEnter(after)
           \/ StopFinish
           \/ \E g \in Starts : MonitorStep(g)
           \/ \E p \in Procs : ProcessExit(p)
           \/ ExternalStart
           \/ \E how \in {"quit", "dead"} : DesktopEnds(how)
           \/ Launch
  BY DEF Next, Commands, ThreadStep, StartStep, StartWaiting, EnsureHarness,
         SupervisorRetry, StopHarness, SupervisorRestart, ExitRequested,
         Environment, Exit, DesktopCrash, Threads, Continuations

LEMMA InitTyped == Init => Typed
  <1> SUFFICES ASSUME Init PROVE Typed
    OBVIOUS
  <1>1. ASSUME NEW g \in Starts PROVE monitor[g] = NoMonitor
    BY DEF Init
  <1>2. monitor \in [Starts -> MonitorStates]
    BY FreshMonitorOK DEF Init, MonitorOK
  <1>3. Resting \in ThreadStates
        /\ [Resting EXCEPT !.at = "start"] \in ThreadStates
    BY DEF Resting, ThreadStates, ThreadSteps, Continuations, NoProc
  <1>4. /\ thread \in [Threads -> ThreadStates]
        /\ slot \in Runs \union {NoRun}
        /\ status \in StatusStates
        /\ lock \in Threads \union {"free"}
    BY <1>3 DEF Init, StatusStates, Threads
  <1>5. /\ nextStart \in 1..(MaxStart + 1)
        /\ nextProc \in 1..(MaxProc + 1)
        /\ launches \in 1..MaxLaunch
    BY BoundsAssumption DEF Init
  <1>6. TypeOK
    BY <1>2, <1>4, <1>5 DEF Init, TypeOK
  <1>7. QED
    BY <1>1, <1>6, FreshMonitorOK DEF Typed

\* The tail of a successful start.
LEMMA PublishTyped ==
    ASSUME Typed, NEW t \in Threads, NEW p \in Procs,
           NEW isManaged \in BOOLEAN,
           NEW isChild \in BOOLEAN, NEW watchManaged \in BOOLEAN,
           Publish(t, p, isManaged, isChild, watchManaged),
           registry' \in Procs \union {NoProc}
    PROVE  Typed'
  <1>1. nextStart \in Starts /\ nextStart + 1 \in 1..(MaxStart + 1)
    BY BoundsAssumption DEF Typed, TypeOK, Publish, Starts
  <1>2. slot' \in Runs
    BY <1>1 DEF Publish, Runs
  <1>3. Resting \in ThreadStates
    BY DEF Resting, ThreadStates, ThreadSteps, Continuations, NoProc
  <1>4. \A g \in Starts : MonitorOK(monitor'[g])
    BY FreshMonitorOK DEF Typed, TypeOK, Publish
  <1>5. NewMonitor(watchManaged) \in MonitorStates
    BY FreshMonitorOK DEF MonitorOK
  <1>6. TypeOK'
    BY <1>1, <1>2, <1>3, <1>5
    DEF Typed, TypeOK, Publish, appVars, StatusStates
  <1>7. QED
    BY <1>4, <1>6 DEF Typed

LEMMA NextTyped == Typed /\ [Next]_vars => Typed'
  <1> SUFFICES ASSUME Typed, [Next]_vars PROVE Typed'
    OBVIOUS
  <1>a. \A t \in Threads : thread[t] \in ThreadStates
    BY DEF Typed, TypeOK
  <1>b. Resting \in ThreadStates
    BY DEF Resting, ThreadStates, ThreadSteps, Continuations, NoProc
  <1>c. CASE UNCHANGED vars
    BY <1>c DEF Typed, TypeOK, vars
  <1>1. ASSUME NEW t \in Threads, StartTracked(t) PROVE Typed'
    BY <1>1, <1>b DEF StartTracked, Typed, TypeOK, appVars
  <1>2. ASSUME NEW t \in Threads, StartEnter(t) PROVE Typed'
    <2>1. [Resting EXCEPT !.at = "probe"] \in ThreadStates
      BY <1>b DEF ThreadStates, ThreadSteps
    <2>2. QED
      BY <1>2, <2>1 DEF StartEnter, Typed, TypeOK, appVars, StatusStates
  <1>3. ASSUME NEW t \in Threads, AdoptRegistered(t) PROVE Typed'
    BY <1>3, PublishTyped DEF AdoptRegistered, Typed, TypeOK
  <1>4. ASSUME NEW t \in Threads, AdoptExternal(t) PROVE Typed'
    BY <1>4, PublishTyped DEF AdoptExternal, Typed, TypeOK
  <1>5. ASSUME NEW t \in Threads, StartAttempt(t) PROVE Typed'
    <2>1. nextProc \in Procs /\ nextProc + 1 \in 1..(MaxProc + 1)
      BY <1>5, BoundsAssumption DEF StartAttempt, Typed, TypeOK, Procs
    <2>2. thread' = [thread EXCEPT ![t] =
                       [thread[t] EXCEPT !.at = "spawning", !.proc = nextProc]]
      BY <1>5 DEF StartAttempt, Typed, TypeOK
    <2>3. [thread[t] EXCEPT !.at = "spawning", !.proc = nextProc]
            \in ThreadStates
      BY <1>a, <2>1 DEF ThreadStates, ThreadSteps
    <2>4. thread' \in [Threads -> ThreadStates]
      BY <2>2, <2>3 DEF Typed, TypeOK
    <2>5. QED
      BY <1>5, <2>1, <2>4 DEF StartAttempt, Typed, TypeOK, appVars
  <1>6. ASSUME NEW t \in Threads, StartReady(t) PROVE Typed'
    <2>1. thread[t].proc \in Procs
      BY <1>6 DEF StartReady, Typed, TypeOK
    <2>2. QED
      BY <1>6, <2>1, PublishTyped DEF StartReady, Typed, TypeOK
  <1>7. ASSUME NEW t \in Threads, StartRecover(t) PROVE Typed'
    <2>1. thread' \in [Threads -> ThreadStates]
      BY <1>7, <1>a
      DEF StartRecover, Typed, TypeOK, ThreadStates, ThreadSteps
    <2>2. QED
      BY <1>7, <2>1 DEF StartRecover, CleanUp, Typed, TypeOK, appVars
  <1>8. ASSUME NEW t \in Threads, StartFail(t) PROVE Typed'
    <2>1. [Resting EXCEPT !.at = "report"] \in ThreadStates
      BY <1>b DEF ThreadStates, ThreadSteps
    <2>2. QED
      BY <1>8, <2>1, <1>b DEF StartFail, CleanUp, Typed, TypeOK, appVars
  <1>9. ASSUME StartupReport PROVE Typed'
    BY <1>9, <1>b
    DEF StartupReport, Typed, TypeOK, appVars, StatusStates, Threads
  <1>10. ASSUME NEW after \in Continuations, StopEnter(after) PROVE Typed'
    <2>1. Killable(slot) => slot.proc \in Procs /\ slot.flag \in Starts
      BY DEF Killable, Typed, TypeOK, Runs, NoRun
    <2>2. [Resting EXCEPT !.at = "killing", !.then = after,
             !.proc = IF Killable(slot) THEN slot.proc ELSE NoProc]
            \in ThreadStates
      BY <1>b, <2>1 DEF ThreadStates, ThreadSteps
    <2>3. QED
      BY <1>10, <2>1, <2>2
      DEF StopEnter, Typed, TypeOK, appVars, StatusStates, Threads
  <1>11. ASSUME StopFinish PROVE Typed'
    <2>1. thread["main"].then \in Continuations
      BY <1>a DEF ThreadStates, Threads
    <2>2. [Resting EXCEPT !.at = thread["main"].then] \in ThreadStates
      BY <1>b, <2>1 DEF ThreadStates, ThreadSteps, Continuations
    <2>3. QED
      BY <1>11, <2>2 DEF StopFinish, Typed, TypeOK, appVars, StatusStates
  <1>12. ASSUME NEW g \in Starts, MonitorStep(g) PROVE Typed'
    <2>1. /\ MonitorOK(monitor'[g])
          /\ monitor' = [monitor EXCEPT ![g] = monitor'[g]]
      BY <1>12, MonitorStepOK
    <2>2. /\ monitor' \in [Starts -> MonitorStates]
          /\ \A h \in Starts : MonitorOK(monitor'[h])
      BY <2>1 DEF Typed, TypeOK, MonitorOK
    <2>3. UNCHANGED <<lock, thread, stopping, registry, outside, nextStart,
                      appVars>>
      BY <1>12 DEF MonitorStep, MonitorLeave, MonitorSeeExit, MonitorClassify,
           DropStopped, ReportStopped, ReportDetached, Drop, ReportRestart,
           GiveUp, Respawn, RespawnReady, ReportReady, RespawnFail,
           MonitorFrame
    <2>4. status' \in StatusStates
      BY <1>12 DEF MonitorStep, MonitorLeave, MonitorSeeExit, MonitorClassify,
           DropStopped, ReportStopped, ReportDetached, Drop, ReportRestart,
           GiveUp, Respawn, RespawnReady, ReportReady, RespawnFail,
           StatusStates, Typed, TypeOK
    <2>5. /\ alive' \subseteq Procs
          /\ nextProc' \in 1..(MaxProc + 1)
      <3>1. CASE Respawn(g)
        BY <3>1, BoundsAssumption DEF Respawn, Typed, TypeOK, Procs
      <3>2. CASE ~Respawn(g)
        BY <1>12, <3>2
        DEF MonitorStep, MonitorLeave, MonitorSeeExit, MonitorClassify,
           DropStopped, ReportStopped, ReportDetached, Drop, ReportRestart,
           GiveUp, RespawnReady, ReportReady, RespawnFail,
           CleanUp, Typed, TypeOK
      <3>3. QED
        BY <3>1, <3>2
    <2>6. slot' \in Runs \union {NoRun}
      <3>1. CASE RespawnReady(g)
        BY <3>1 DEF RespawnReady, Typed, TypeOK, MonitorOK, Runs
      <3>2. CASE ~RespawnReady(g)
        BY <1>12, <3>2
        DEF MonitorStep, MonitorLeave, MonitorSeeExit, MonitorClassify,
           DropStopped, ReportStopped, ReportDetached, Drop, ReportRestart,
           GiveUp, Respawn, ReportReady, RespawnFail, Typed, TypeOK
      <3>3. QED
        BY <3>1, <3>2
    <2>7. QED
      BY <2>2, <2>3, <2>4, <2>5, <2>6 DEF Typed, TypeOK, appVars
  <1>13. ASSUME NEW p \in Procs, ProcessExit(p) PROVE Typed'
    BY <1>13 DEF ProcessExit, Typed, TypeOK, appVars
  <1>14. ASSUME ExternalStart PROVE Typed'
    BY <1>14, BoundsAssumption
    DEF ExternalStart, Typed, TypeOK, appVars, Procs
  <1>15. ASSUME NEW how \in {"quit", "dead"}, DesktopEnds(how) PROVE Typed'
    BY <1>15, <1>b, FreshMonitorOK
    DEF DesktopEnds, Typed, TypeOK, MonitorOK, StatusStates
  <1>16. ASSUME Launch PROVE Typed'
    <2>1. [thread["startup"] EXCEPT !.at = "start"] \in ThreadStates
      BY <1>a DEF ThreadStates, ThreadSteps, Threads
    <2>2. launches' \in 1..MaxLaunch
      BY <1>16, BoundsAssumption DEF Launch, Typed, TypeOK
    <2>3. QED
      BY <1>16, <2>1, <2>2 DEF Launch, Typed, TypeOK
  <1>17. QED
    BY <1>c, <1>1, <1>2, <1>3, <1>4, <1>5, <1>6, <1>7, <1>8, <1>9, <1>10,
       <1>11, <1>12, <1>13, <1>14, <1>15, <1>16, Steps

\* Every variable keeps to its type, whatever the order of the threads' steps.
THEOREM TypeCorrect == Spec => []TypeOK
  <1>1. Typed => TypeOK
    BY DEF Typed
  <1>2. QED
    BY <1>1, InitTyped, NextTyped, PTL DEF Spec

\* However exits and failed launches follow each other, no monitor launches
\* more than MaxRestarts processes in a row.
THEOREM RestartsBounded == Spec => []RestartBudget
  <1>1. Typed => RestartBudget
    BY DEF Typed, MonitorOK, RestartBudget
  <1>2. QED
    BY <1>1, InitTyped, NextTyped, PTL DEF Spec

-----------------------------------------------------------------------------
(* Processes. *)

\* A monitor's step names no process but those named already and the one it
\* launches.
LEMMA MonitorProcs ==
    ASSUME Typed, NEW g \in Starts, MonitorStep(g)
    PROVE  /\ nextProc' \in {nextProc, nextProc + 1}
           /\ alive' \subseteq alive \union {nextProc}
           /\ nextProc' = nextProc => alive' \subseteq alive
           /\ slot' \in {slot, NoRun} \/ slot'.proc = monitor[g].proc
           /\ monitor' = [monitor EXCEPT ![g] = monitor'[g]]
           /\ \/ monitor'[g].proc \in {monitor[g].proc, slot.proc, NoProc}
              \/ monitor'[g].proc = nextProc /\ nextProc' = nextProc + 1
  <1>1. monitor' = [monitor EXCEPT ![g] = monitor'[g]]
    BY MonitorStepOK
  <1>2. CASE Respawn(g)
    BY <1>1, <1>2 DEF Respawn, Typed, TypeOK, MonitorOK, MonitorStates
  <1>3. CASE RespawnReady(g)
    BY <1>1, <1>3 DEF RespawnReady, Typed, TypeOK, MonitorOK, MonitorStates
  <1>4. CASE RespawnFail(g)
    BY <1>1, <1>4
    DEF RespawnFail, CleanUp, Ended, NoMonitor, Typed, TypeOK, MonitorOK,
        MonitorStates
  <1>5. CASE Drop(g)
    BY <1>1, <1>5
    DEF Drop, CleanUp, Typed, TypeOK, MonitorOK, MonitorStates
  <1>6. CASE MonitorLeave(g) \/ ReportStopped(g) \/ ReportDetached(g)
               \/ GiveUp(g)
    BY <1>1, <1>6
    DEF MonitorLeave, ReportStopped, ReportDetached, GiveUp, Ended, NoMonitor,
        Typed, TypeOK
  <1>7. CASE MonitorSeeExit(g) \/ MonitorClassify(g) \/ DropStopped(g)
               \/ ReportRestart(g) \/ ReportReady(g)
    BY <1>1, <1>7
    DEF MonitorSeeExit, MonitorClassify, DropStopped, ReportRestart,
        ReportReady, Typed, TypeOK, MonitorOK, MonitorStates
  <1>8. QED
    BY <1>2, <1>3, <1>4, <1>5, <1>6, <1>7 DEF MonitorStep

\* Where a monitor's step takes it.
LEMMA MonitorMoves ==
    ASSUME Typed, NEW g \in Starts, MonitorStep(g)
    PROVE  /\ monitor'[g].at = "spawning" => Respawn(g)
           /\ monitor'[g].at = "exited" => MonitorSeeExit(g)
           /\ monitor'[g].at = "drop" => MonitorClassify(g)
  <1> USE DEF Typed, TypeOK, MonitorStates
  <1>1. Ended.at = "done"
    BY DEF Ended, NoMonitor
  <1>2. CASE MonitorLeave(g) \/ ReportStopped(g) \/ ReportDetached(g)
               \/ GiveUp(g)
    BY <1>1, <1>2 DEF MonitorLeave, ReportStopped, ReportDetached, GiveUp
  <1>3. CASE MonitorSeeExit(g)
    BY <1>3 DEF MonitorSeeExit
  <1>4. CASE MonitorClassify(g)
    BY <1>4 DEF MonitorClassify
  <1>5. CASE DropStopped(g) \/ ReportRestart(g)
    BY <1>5 DEF DropStopped, ReportRestart
  <1>6. CASE Drop(g)
    BY <1>6 DEF Drop
  <1>7. CASE Respawn(g)
    BY <1>7 DEF Respawn
  <1>8. CASE RespawnReady(g) \/ ReportReady(g)
    BY <1>8 DEF RespawnReady, ReportReady
  <1>9. CASE RespawnFail(g)
    BY <1>1, <1>9 DEF RespawnFail
  <1>10. QED
    BY <1>2, <1>3, <1>4, <1>5, <1>6, <1>7, <1>8, <1>9 DEF MonitorStep

LEMMA NextNumbered == Typed /\ Numbered /\ [Next]_vars => Numbered'
  <1> SUFFICES ASSUME Typed, Numbered, [Next]_vars PROVE Numbered'
    OBVIOUS
  <1>a. /\ nextProc \in Nat /\ 0 < nextProc
        /\ alive \subseteq Nat /\ outside \subseteq Nat /\ registry \in Nat
        /\ slot.proc \in Nat
        /\ \A t \in Threads : thread[t].proc \in Nat
        /\ \A g \in Starts : monitor[g].proc \in Nat
    BY BoundsAssumption
    DEF Typed, TypeOK, Procs, NoProc, Runs, NoRun, ThreadStates, MonitorStates
  <1>b. Resting.proc = 0 /\ NoRun.proc = 0 /\ NoMonitor.proc = 0
    BY DEF Resting, NoRun, NoMonitor, NoProc
  <1>c. CASE UNCHANGED vars
    BY <1>c DEF Numbered, vars
  <1>d. ASSUME NEW t \in Threads, NEW p \in Procs, NEW m \in BOOLEAN,
               NEW c \in BOOLEAN, NEW w \in BOOLEAN, Publish(t, p, m, c, w),
               p < nextProc, registry' \in {p, registry}
        PROVE  Numbered'
    BY <1>d, <1>a, <1>b
    DEF Numbered, Publish, NewMonitor, Typed, TypeOK, NoMonitor, Resting
  <1>1. ASSUME NEW t \in Threads, StartTracked(t) PROVE Numbered'
    BY <1>1, <1>a, <1>b DEF StartTracked, Numbered, Typed, TypeOK
  <1>2. ASSUME NEW t \in Threads, StartEnter(t) PROVE Numbered'
    BY <1>2, <1>a, <1>b DEF StartEnter, Numbered, Typed, TypeOK, Resting
  <1>3. ASSUME NEW t \in Threads, AdoptRegistered(t) PROVE Numbered'
    BY <1>3, <1>d DEF AdoptRegistered, Numbered, Typed, TypeOK
  <1>4. ASSUME NEW t \in Threads, AdoptExternal(t) PROVE Numbered'
    BY <1>4, <1>d DEF AdoptExternal, Numbered, Typed, TypeOK
  <1>5. ASSUME NEW t \in Threads, StartAttempt(t) PROVE Numbered'
    BY <1>5, <1>a, <1>b
    DEF StartAttempt, Numbered, Typed, TypeOK, ThreadStates
  <1>6. ASSUME NEW t \in Threads, StartReady(t) PROVE Numbered'
    BY <1>6, <1>d DEF StartReady, Numbered, Typed, TypeOK
  <1>7. ASSUME NEW t \in Threads, StartRecover(t) PROVE Numbered'
    BY <1>7, <1>a, <1>b
    DEF StartRecover, CleanUp, Numbered, Typed, TypeOK, ThreadStates, NoProc
  <1>8. ASSUME NEW t \in Threads, StartFail(t) PROVE Numbered'
    BY <1>8, <1>a, <1>b
    DEF StartFail, CleanUp, Numbered, Typed, TypeOK, Resting
  <1>9. ASSUME StartupReport PROVE Numbered'
    BY <1>9, <1>a, <1>b DEF StartupReport, Numbered, Typed, TypeOK
  <1>10. ASSUME NEW after \in Continuations, StopEnter(after) PROVE Numbered'
    BY <1>10, <1>a, <1>b
    DEF StopEnter, Numbered, Typed, TypeOK, Resting, NoProc
  <1>11. ASSUME StopFinish PROVE Numbered'
    BY <1>11, <1>a, <1>b DEF StopFinish, Numbered, Typed, TypeOK, Resting
  <1>12. ASSUME NEW g \in Starts, MonitorStep(g) PROVE Numbered'
    <2>1. UNCHANGED <<registry, thread, outside>>
      BY <1>12 DEF MonitorStep, MonitorLeave, MonitorSeeExit, MonitorClassify,
           DropStopped, ReportStopped, ReportDetached, Drop, ReportRestart,
           GiveUp, Respawn, RespawnReady, ReportReady, RespawnFail,
           MonitorFrame
    <2>2. /\ nextProc' \in {nextProc, nextProc + 1}
          /\ alive' \subseteq alive \union {nextProc}
          /\ nextProc' = nextProc => alive' \subseteq alive
          /\ slot' \in {slot, NoRun} \/ slot'.proc = monitor[g].proc
          /\ monitor' = [monitor EXCEPT ![g] = monitor'[g]]
          /\ \/ monitor'[g].proc \in {monitor[g].proc, slot.proc, NoProc}
             \/ monitor'[g].proc = nextProc /\ nextProc' = nextProc + 1
      BY <1>12, MonitorProcs
    <2>3. \A h \in Starts : monitor'[h].proc < nextProc'
      BY <2>2, <1>a DEF Numbered, Typed, TypeOK, NoProc
    <2>4. \A p \in alive' \union outside' : p < nextProc'
      BY <2>1, <2>2, <1>a DEF Numbered
    <2>5. slot'.proc < nextProc'
      BY <2>2, <1>a, <1>b DEF Numbered
    <2>6. QED
      BY <2>1, <2>2, <2>3, <2>4, <2>5, <1>a DEF Numbered
  <1>13. ASSUME NEW p \in Procs, ProcessExit(p) PROVE Numbered'
    BY <1>13 DEF ProcessExit, Numbered
  <1>14. ASSUME ExternalStart PROVE Numbered'
    BY <1>14, <1>a DEF ExternalStart, Numbered
  <1>15. ASSUME NEW how \in {"quit", "dead"}, DesktopEnds(how) PROVE Numbered'
    BY <1>15, <1>a, <1>b DEF DesktopEnds, Numbered
  <1>16. ASSUME Launch PROVE Numbered'
    BY <1>16, <1>a DEF Launch, Numbered, Typed, TypeOK, ThreadStates, Threads
  <1>17. QED
    BY <1>c, <1>1, <1>2, <1>3, <1>4, <1>5, <1>6, <1>7, <1>8, <1>9, <1>10,
       <1>11, <1>12, <1>13, <1>14, <1>15, <1>16, Steps

LEMMA InitOwnership == Init => Numbered /\ Owned
  BY DEF Init, Numbered, Owned, Killable, NoRun, NoProc, NoMonitor, Resting

\* A process launched anew is not the user's, and nothing dead is named by it.
LEMMA NextOwned == Ownership /\ [Next]_vars => Owned'
  <1> SUFFICES ASSUME Typed, Numbered, Owned, [Next]_vars PROVE Owned'
    BY DEF Ownership
  <1>a. /\ nextProc \in Nat /\ 0 < nextProc
        /\ outside \subseteq Nat /\ alive \subseteq Nat
        /\ 0 \notin outside /\ nextProc \notin outside /\ nextProc \notin alive
        /\ \A g \in Starts : monitor[g].proc \in Nat
    BY BoundsAssumption
    DEF Typed, TypeOK, Procs, NoProc, MonitorStates, Numbered
  <1>b. /\ Resting.proc = 0 /\ NoMonitor.proc = 0 /\ NoMonitor.at = "none"
        /\ ~Killable(NoRun)
    BY DEF Resting, NoRun, NoMonitor, NoProc, Killable
  <1>c. CASE UNCHANGED vars
    BY <1>c DEF Owned, Killable, vars
  <1>d. ASSUME NEW t \in Threads, NEW p \in Procs, NEW m \in BOOLEAN,
               NEW c \in BOOLEAN, NEW w \in BOOLEAN, Publish(t, p, m, c, w),
               m \/ c => p \notin outside, registry' \notin outside
        PROVE  Owned'
    <2>1. Killable(slot') => slot'.proc \notin outside'
      BY <1>d DEF Publish, Killable
    <2>2. \A h \in Starts :
            monitor'[h] = monitor[h] \/ monitor'[h].at = "watch"
      BY <1>d DEF Publish, NewMonitor, NoMonitor, Typed, TypeOK
    <2>3. \A u \in Threads : thread'[u].proc \notin outside'
      BY <1>d, <1>a, <1>b DEF Publish, Owned, Typed, TypeOK
    <2>4. UNCHANGED <<alive, outside>>
      BY <1>d DEF Publish
    <2>5. QED
      BY <1>d, <2>1, <2>2, <2>3, <2>4 DEF Owned
  <1>1. ASSUME NEW t \in Threads, StartTracked(t) PROVE Owned'
    BY <1>1, <1>a, <1>b DEF StartTracked, Owned, Killable, Typed, TypeOK
  <1>2. ASSUME NEW t \in Threads, StartEnter(t) PROVE Owned'
    BY <1>2, <1>a, <1>b
    DEF StartEnter, Owned, Killable, Typed, TypeOK, Resting
  <1>3. ASSUME NEW t \in Threads, AdoptRegistered(t) PROVE Owned'
    BY <1>3, <1>d DEF AdoptRegistered, Owned, Typed, TypeOK
  <1>4. ASSUME NEW t \in Threads, AdoptExternal(t) PROVE Owned'
    BY <1>4, <1>d DEF AdoptExternal, Owned, Typed, TypeOK
  <1>5. ASSUME NEW t \in Threads, StartAttempt(t) PROVE Owned'
    <2>1. \A h \in Starts : monitor[h].proc # nextProc
      BY <1>a DEF Numbered
    <2>2. QED
      BY <1>5, <2>1, <1>a
      DEF StartAttempt, Owned, Killable, Typed, TypeOK, ThreadStates
  <1>6. ASSUME NEW t \in Threads, StartReady(t) PROVE Owned'
    BY <1>6, <1>d DEF StartReady, Owned, Typed, TypeOK
  <1>7. ASSUME NEW t \in Threads, StartRecover(t) PROVE Owned'
    BY <1>7, <1>a
    DEF StartRecover, CleanUp, Owned, Killable, Typed, TypeOK, ThreadStates,
        NoProc
  <1>8. ASSUME NEW t \in Threads, StartFail(t) PROVE Owned'
    BY <1>8, <1>a, <1>b
    DEF StartFail, CleanUp, Owned, Killable, Typed, TypeOK, Resting
  <1>9. ASSUME StartupReport PROVE Owned'
    BY <1>9, <1>a, <1>b DEF StartupReport, Owned, Killable, Typed, TypeOK
  <1>10. ASSUME NEW after \in Continuations, StopEnter(after) PROVE Owned'
    BY <1>10, <1>a, <1>b
    DEF StopEnter, Owned, Typed, TypeOK, Resting, NoProc
  <1>11. ASSUME StopFinish PROVE Owned'
    BY <1>11, <1>a, <1>b
    DEF StopFinish, Owned, Killable, Typed, TypeOK, Resting
  <1>12. ASSUME NEW g \in Starts, MonitorStep(g) PROVE Owned'
    <2>1. UNCHANGED <<registry, thread, outside>>
      BY <1>12 DEF MonitorStep, MonitorLeave, MonitorSeeExit, MonitorClassify,
           DropStopped, ReportStopped, ReportDetached, Drop, ReportRestart,
           GiveUp, Respawn, RespawnReady, ReportReady, RespawnFail,
           MonitorFrame
    <2>2. /\ alive' \subseteq alive \union {nextProc}
          /\ monitor' = [monitor EXCEPT ![g] = monitor'[g]]
      BY <1>12, MonitorProcs
    <2>3. Killable(slot') => slot'.proc \notin outside'
      <3>1. CASE RespawnReady(g)
        BY <2>1, <3>1 DEF RespawnReady, Owned
      <3>2. CASE ~RespawnReady(g)
        <4>1. slot' \in {slot, NoRun}
          BY <1>12, <3>2
          DEF MonitorStep, MonitorLeave, MonitorSeeExit, MonitorClassify,
              DropStopped, ReportStopped, ReportDetached, Drop,
              ReportRestart, GiveUp, Respawn, ReportReady, RespawnFail
        <4>2. QED
          BY <2>1, <4>1, <1>b DEF Owned
      <3>3. QED
        BY <3>1, <3>2
    <2>4. monitor'[g].at = "spawning" => monitor'[g].proc \notin outside'
      <3>1. CASE Respawn(g)
        BY <2>1, <3>1, <1>a DEF Respawn, Typed, TypeOK, MonitorStates
      <3>2. CASE ~Respawn(g)
        BY <1>12, <3>2, MonitorMoves
      <3>3. QED
        BY <3>1, <3>2
    <2>5. monitor'[g].at \in {"exited", "drop"}
            => monitor'[g].proc \notin alive /\ UNCHANGED alive
      <3>1. CASE MonitorSeeExit(g)
        BY <3>1 DEF MonitorSeeExit, Typed, TypeOK, MonitorStates
      <3>2. CASE MonitorClassify(g)
        BY <3>2 DEF MonitorClassify, Owned, Typed, TypeOK, MonitorStates
      <3>3. CASE ~MonitorSeeExit(g) /\ ~MonitorClassify(g)
        BY <1>12, <3>3, MonitorMoves
      <3>4. QED
        BY <3>1, <3>2, <3>3
    <2>6. \A h \in Starts \ {g} :
            /\ monitor'[h] = monitor[h]
            /\ monitor[h].proc \in alive' => monitor[h].proc \in alive
      <3>1. \A h \in Starts : monitor[h].proc # nextProc
        BY <1>a DEF Numbered
      <3>2. QED
        BY <2>2, <3>1 DEF Typed, TypeOK
    <2>7. QED
      BY <2>1, <2>3, <2>4, <2>5, <2>6 DEF Owned
  <1>13. ASSUME NEW p \in Procs, ProcessExit(p) PROVE Owned'
    BY <1>13 DEF ProcessExit, Owned, Killable
  <1>14. ASSUME ExternalStart PROVE Owned'
    <2>1. /\ nextProc # registry
          /\ nextProc # slot.proc
          /\ \A t \in Threads : nextProc # thread[t].proc
          /\ \A h \in Starts : nextProc # monitor[h].proc
      BY <1>a DEF Numbered
    <2>2. QED
      BY <1>14, <2>1 DEF ExternalStart, Owned, Killable
  <1>15. ASSUME NEW how \in {"quit", "dead"}, DesktopEnds(how) PROVE Owned'
    BY <1>15, <1>a, <1>b DEF DesktopEnds, Owned, Killable
  <1>16. ASSUME Launch PROVE Owned'
    BY <1>16 DEF Launch, Owned, Killable, Typed, TypeOK, ThreadStates, Threads
  <1>17. QED
    BY <1>c, <1>1, <1>2, <1>3, <1>4, <1>5, <1>6, <1>7, <1>8, <1>9, <1>10,
       <1>11, <1>12, <1>13, <1>14, <1>15, <1>16, Steps

\* What a step of the desktop kills is never the user's process: stop_child's
\* test protects an adopted one, and what cleanup_child and
\* cleanup_descendants are given was launched by the desktop or is dead.
LEMMA KillsOnlyOwn ==
    ASSUME Ownership, ThreadStep \/ \E g \in Starts : MonitorStep(g)
    PROVE  alive \intersect outside \subseteq alive'
  <1> USE DEF Ownership, Owned
  <1>1. ASSUME NEW t \in Threads, StartStep(t)
        PROVE  alive \intersect outside \subseteq alive'
    BY <1>1
    DEF StartStep, StartTracked, StartWaiting, StartEnter, AdoptRegistered,
        AdoptExternal, StartAttempt, StartReady, StartRecover, StartFail,
        Publish, CleanUp
  <1>2. CASE StartupReport \/ StopFinish \/ Exit
    BY <1>2 DEF StartupReport, StopFinish, Exit, DesktopEnds, Threads
  <1>3. ASSUME NEW g \in Starts, MonitorStep(g)
        PROVE  alive \intersect outside \subseteq alive'
    BY <1>3
    DEF MonitorStep, MonitorLeave, MonitorSeeExit, MonitorClassify,
        DropStopped, ReportStopped, ReportDetached, Drop, ReportRestart,
        GiveUp, Respawn, RespawnReady, ReportReady, RespawnFail, CleanUp
  <1>4. QED
    BY <1>1, <1>2, <1>3 DEF ThreadStep

\* The external process remains externally owned and is never killed by the
\* desktop.
THEOREM ExternalSurvives == Spec => ExternalIsNeverKilled
  <1>1. Init => Ownership
    BY InitTyped, InitOwnership DEF Ownership
  <1>2. Ownership /\ [Next]_vars => Ownership'
    BY NextTyped, NextNumbered, NextOwned DEF Ownership
  <1>3. Ownership /\ [Next]_vars
          => [ThreadStep \/ (\E g \in Starts : MonitorStep(g))
                => alive \intersect outside \subseteq alive']_vars
    BY KillsOnlyOwn
  <1>4. QED
    BY <1>1, <1>2, <1>3, PTL DEF Spec, ExternalIsNeverKilled

-----------------------------------------------------------------------------
(* Watching. *)

\* A monitor that watches a run stops watching only when it finds the slot
\* empty or its process gone; its managed argument never changes.
LEMMA WatchersStay ==
    ASSUME Typed, NEW g \in Starts, MonitorStep(g),
           monitor[g].at \in {"watch", "reportReady"}
    PROVE  \/ slot' = slot /\ slot = NoRun
           \/ slot' = slot /\ alive' = alive /\ slot.proc \notin alive
           \/ /\ slot' = slot /\ alive' = alive
              /\ monitor'[g].at = "watch"
              /\ monitor'[g].managed = monitor[g].managed
  <1> USE DEF Typed, TypeOK, MonitorStates
  <1>1. MonitorLeave(g) \/ MonitorSeeExit(g) \/ ReportReady(g)
    BY DEF MonitorStep, MonitorLeave, MonitorSeeExit, MonitorClassify,
        DropStopped, ReportStopped, ReportDetached, Drop, ReportRestart,
        GiveUp, Respawn, RespawnReady, ReportReady, RespawnFail
  <1>2. CASE MonitorLeave(g)
    BY <1>2 DEF MonitorLeave
  <1>3. CASE MonitorSeeExit(g)
    BY <1>3 DEF MonitorSeeExit
  <1>4. CASE ReportReady(g)
    BY <1>4 DEF ReportReady
  <1>5. QED
    BY <1>1, <1>2, <1>3, <1>4

LEMMA NextWatched ==
    Typed /\ Numbered /\ TrackedIsWatched /\ [Next]_vars => TrackedIsWatched'
  <1> SUFFICES ASSUME Typed, Numbered, TrackedIsWatched, [Next]_vars
               PROVE  TrackedIsWatched'
    OBVIOUS
  <1> DEFINE Watches(m) == /\ m.at \in {"watch", "reportReady"}
                           /\ slot.child => m.managed
  <1>a. slot.proc # nextProc
    BY BoundsAssumption DEF Numbered, Typed, TypeOK, Procs, NoProc, Runs, NoRun
  <1>b. CASE UNCHANGED vars
    BY <1>b DEF TrackedIsWatched, vars
  \* A step that fills no slot, revives nothing and leaves the monitors alone.
  <1>c. ASSUME slot' \in {slot, NoRun}, UNCHANGED monitor,
               alive' \subseteq alive \union {nextProc}
        PROVE  TrackedIsWatched'
    BY <1>a, <1>c DEF TrackedIsWatched
  \* A successful start.
  <1>d. ASSUME NEW t \in Threads, NEW p \in Procs, NEW m \in BOOLEAN,
               NEW c \in BOOLEAN, NEW w \in BOOLEAN, Publish(t, p, m, c, w),
               c => w
        PROVE  TrackedIsWatched'
    <2>1. nextStart \in Starts
      BY <1>d, BoundsAssumption DEF Publish, Typed, TypeOK, Starts
    <2>2. /\ monitor'[nextStart].at = "watch"
          /\ monitor'[nextStart].managed = w
      BY <1>d, <2>1, FreshMonitorOK
      DEF Publish, NewMonitor, NoMonitor, Typed, TypeOK
    <2>3. slot'.child = c
      BY <1>d DEF Publish
    <2>4. QED
      BY <1>d, <2>1, <2>2, <2>3 DEF TrackedIsWatched
  <1>1. ASSUME NEW t \in Threads,
               \/ StartTracked(t) \/ StartEnter(t) \/ StartAttempt(t)
               \/ StartRecover(t) \/ StartFail(t)
        PROVE  TrackedIsWatched'
    BY <1>1, <1>c
    DEF StartTracked, StartEnter, StartAttempt, StartRecover, StartFail,
        CleanUp
  <1>2. ASSUME NEW t \in Threads, AdoptRegistered(t) PROVE TrackedIsWatched'
    BY <1>2, <1>d DEF AdoptRegistered, Typed, TypeOK
  <1>3. ASSUME NEW t \in Threads, AdoptExternal(t) PROVE TrackedIsWatched'
    BY <1>3, <1>d DEF AdoptExternal, Typed, TypeOK
  <1>4. ASSUME NEW t \in Threads, StartReady(t) PROVE TrackedIsWatched'
    BY <1>4, <1>d DEF StartReady, Typed, TypeOK
  <1>5. ASSUME NEW after \in Continuations, StopEnter(after)
        PROVE  TrackedIsWatched'
    BY <1>5, <1>c DEF StopEnter
  <1>6. CASE StartupReport \/ StopFinish \/ ExternalStart \/ Launch
    BY <1>6, <1>c DEF StartupReport, StopFinish, ExternalStart, Launch
  <1>7. ASSUME NEW p \in Procs, ProcessExit(p) PROVE TrackedIsWatched'
    BY <1>7, <1>c DEF ProcessExit
  <1>8. ASSUME NEW how \in {"quit", "dead"}, DesktopEnds(how)
        PROVE  TrackedIsWatched'
    BY <1>8 DEF DesktopEnds, TrackedIsWatched
  <1>9. ASSUME NEW g \in Starts, MonitorStep(g) PROVE TrackedIsWatched'
    <2>1. /\ alive' \subseteq alive \union {nextProc}
          /\ monitor' = [monitor EXCEPT ![g] = monitor'[g]]
      BY <1>9, MonitorProcs
    <2>2. \A h \in Starts \ {g} : monitor'[h] = monitor[h]
      BY <2>1 DEF Typed, TypeOK
    <2>3. CASE RespawnReady(g)
      <3>1. monitor'[g].at = "reportReady" /\ monitor'[g].managed
        BY <2>3
        DEF RespawnReady, Typed, TypeOK, MonitorStates, MonitorOK
      <3>2. QED
        BY <3>1 DEF TrackedIsWatched
    <2>4. CASE ~RespawnReady(g)
      <3>1. slot' \in {slot, NoRun}
        BY <1>9, <2>4
        DEF MonitorStep, MonitorLeave, MonitorSeeExit, MonitorClassify,
            DropStopped, ReportStopped, ReportDetached, Drop, ReportRestart,
            GiveUp, Respawn, ReportReady, RespawnFail
      <3>2. SUFFICES ASSUME slot' # NoRun, slot'.proc \in alive'
                     PROVE  TrackedIsWatched'
        BY DEF TrackedIsWatched
      <3>3. slot' = slot /\ slot.proc \in alive
        BY <1>a, <2>1, <3>1, <3>2
      <3>4. PICK h \in Starts : Watches(monitor[h])
        BY <3>2, <3>3 DEF TrackedIsWatched
      <3>5. CASE h = g
        <4>1. /\ monitor'[g].at = "watch"
              /\ monitor'[g].managed = monitor[g].managed
          BY <1>9, <3>2, <3>3, <3>4, <3>5, WatchersStay
        <4>2. QED
          BY <3>3, <3>4, <3>5, <4>1 DEF TrackedIsWatched
      <3>6. CASE h # g
        BY <2>2, <3>3, <3>4, <3>6 DEF TrackedIsWatched
      <3>7. QED
        BY <3>5, <3>6
    <2>5. QED
      BY <2>3, <2>4
  <1>10. QED
    BY <1>b, <1>1, <1>2, <1>3, <1>4, <1>5, <1>6, <1>7, <1>8, <1>9, Steps

\* A live Harness in the slot always has a monitor, and one the desktop
\* launched always a monitor that may respawn it.
THEOREM AlwaysWatched == Spec => []TrackedIsWatched
  <1>1. Init => Watching
    BY InitTyped, InitOwnership DEF Init, Watching, TrackedIsWatched
  <1>2. Watching /\ [Next]_vars => Watching'
    BY NextTyped, NextNumbered, NextWatched DEF Watching
  <1>3. Watching => TrackedIsWatched
    BY DEF Watching
  <1>4. QED
    BY <1>1, <1>2, <1>3, PTL DEF Spec

-----------------------------------------------------------------------------
(* One process of its own. *)

\* A monitor's step works with the mutex free or leaves the slot alone, and
\* leaves the command threads and the desktop's life alone.
LEMMA MonitorSlot ==
    ASSUME Typed, NEW g \in Starts, MonitorStep(g)
    PROVE  /\ UNCHANGED <<lock, thread, registry, outside, app, overlap,
                          inherited>>
           /\ \/ slot' = slot
              \/ lock = "free" /\ slot' = NoRun
              \/ /\ lock = "free" /\ RespawnReady(g)
                 /\ slot'.child /\ slot'.managed
           /\ monitor[g].at # "none"
  <1> USE DEF MonitorFrame, appVars
  <1>1. CASE MonitorLeave(g) \/ MonitorSeeExit(g) \/ MonitorClassify(g)
               \/ ReportStopped(g) \/ ReportDetached(g) \/ ReportRestart(g)
    BY <1>1 DEF MonitorLeave, MonitorSeeExit, MonitorClassify, ReportStopped,
                ReportDetached, ReportRestart
  <1>2. CASE DropStopped(g) \/ Drop(g)
    BY <1>2 DEF DropStopped, Drop
  <1>3. CASE GiveUp(g) \/ Respawn(g) \/ ReportReady(g) \/ RespawnFail(g)
    BY <1>3 DEF GiveUp, Respawn, ReportReady, RespawnFail
  <1>4. CASE RespawnReady(g)
    BY <1>4 DEF RespawnReady
  <1>5. QED
    BY <1>1, <1>2, <1>3, <1>4 DEF MonitorStep

LEMMA InitCommand == Init => Command
  BY DEF Init, Command, Killable, NoRun, Resting, NoProc, Threads

LEMMA NextCommand == Ownership /\ Command /\ [Next]_vars => Command'
  <1> SUFFICES ASSUME Typed, Owned, Command, [Next]_vars PROVE Command'
    BY DEF Ownership
  <1>a. /\ Resting.at = "idle" /\ Resting.proc = NoProc
        /\ "free" \notin Threads
        /\ \A t \in Threads : thread[t] \in ThreadStates
    BY DEF Resting, Threads, Typed, TypeOK
  <1>b. CASE UNCHANGED vars
    BY <1>b DEF Command, Killable, vars
  <1>c. ASSUME NEW t \in Threads, NEW p \in Procs, NEW m \in BOOLEAN,
               NEW c \in BOOLEAN, NEW w \in BOOLEAN, Publish(t, p, m, c, w),
               thread[t].at \in {"probe", "attempt", "spawning"},
               (m = FALSE /\ c = FALSE) => p \in outside
        PROVE  Command'
    <2>1. lock = t /\ app = "up"
      BY <1>c, <1>a DEF Command
    <2>2. \A u \in Threads \ {t} :
            /\ thread[u].at \notin {"probe", "attempt", "spawning", "killing"}
            /\ thread[u].proc = NoProc
      BY <2>1 DEF Command
    <2>3. \A u \in Threads :
            /\ thread'[u].at
                 \notin {"probe", "attempt", "spawning", "killing"}
            /\ thread'[u].proc = NoProc
      BY <1>c, <1>a, <2>2 DEF Publish, Typed, TypeOK
    <2>4. lock' = "free" /\ app' = "up" /\ outside' = outside
      BY <1>c, <2>1 DEF Publish, appVars
    <2>5. ~Killable(slot') => slot'.proc \in outside'
      BY <1>c, <2>4 DEF Publish, Killable
    <2>6. QED
      BY <2>3, <2>4, <2>5 DEF Command
  <1>1. ASSUME NEW t \in Threads, StartTracked(t) PROVE Command'
    BY <1>1, <1>a
    DEF StartTracked, Command, Killable, Typed, TypeOK, appVars
  <1>2. ASSUME NEW t \in Threads, StartEnter(t), app = "up" PROVE Command'
    <2>1. /\ thread' = [thread EXCEPT ![t] = [Resting EXCEPT !.at = "probe"]]
          /\ lock = "free" /\ lock' = t /\ slot = NoRun
          /\ UNCHANGED <<slot, monitor, app>>
      BY <1>2 DEF StartEnter
    <2>2. /\ [Resting EXCEPT !.at = "probe"].at = "probe"
          /\ [Resting EXCEPT !.at = "probe"].proc = NoProc
      BY DEF Resting
    <2>3. \A u \in Threads \ {t} : thread'[u] = thread[u]
      BY <2>1 DEF Typed, TypeOK
    <2>4. thread'[t].at = "probe" /\ thread'[t].proc = NoProc
      BY <2>1, <2>2 DEF Typed, TypeOK
    <2>5. QED
      BY <1>2, <1>a, <2>1, <2>3, <2>4 DEF Command
  <1>3. ASSUME NEW t \in Threads, AdoptRegistered(t) PROVE Command'
    BY <1>3, <1>c DEF AdoptRegistered, Typed, TypeOK
  <1>4. ASSUME NEW t \in Threads, AdoptExternal(t) PROVE Command'
    BY <1>4, <1>c DEF AdoptExternal, Typed, TypeOK
  <1>5. ASSUME NEW t \in Threads, StartAttempt(t) PROVE Command'
    <2>1. lock = t /\ app = "up"
      BY <1>5, <1>a DEF StartAttempt, Command
    <2>2. /\ \A u \in Threads \ {t} : thread'[u] = thread[u]
          /\ thread'[t].at = "spawning"
      BY <1>5 DEF StartAttempt, Typed, TypeOK, ThreadStates
    <2>3. UNCHANGED <<lock, slot, monitor, app, outside>>
      BY <1>5 DEF StartAttempt, appVars
    <2>4. QED
      BY <2>1, <2>2, <2>3 DEF Command, Killable
  <1>6. ASSUME NEW t \in Threads, StartReady(t) PROVE Command'
    BY <1>6, <1>c DEF StartReady, Typed, TypeOK
  <1>7. ASSUME NEW t \in Threads, StartRecover(t) PROVE Command'
    <2>1. lock = t /\ app = "up"
      BY <1>7, <1>a DEF StartRecover, Command
    <2>2. /\ \A u \in Threads \ {t} : thread'[u] = thread[u]
          /\ thread'[t].at = "attempt" /\ thread'[t].proc = NoProc
      BY <1>7 DEF StartRecover, Typed, TypeOK, ThreadStates
    <2>3. UNCHANGED <<lock, slot, monitor, app, outside>>
      BY <1>7 DEF StartRecover, appVars
    <2>4. QED
      BY <2>1, <2>2, <2>3 DEF Command, Killable
  <1>8. ASSUME NEW t \in Threads, StartFail(t) PROVE Command'
    <2>1. lock = t /\ app = "up"
      BY <1>8, <1>a DEF StartFail, Command
    <2>2. /\ \A u \in Threads \ {t} : thread'[u] = thread[u]
          /\ thread'[t].at \in {"idle", "report"} /\ thread'[t].proc = NoProc
      BY <1>8, <1>a DEF StartFail, Typed, TypeOK, Resting
    <2>3. lock' = "free" /\ UNCHANGED <<slot, monitor, app, outside>>
      BY <1>8 DEF StartFail, appVars
    <2>4. \A u \in Threads :
            /\ thread'[u].at
                 \notin {"probe", "attempt", "spawning", "killing"}
            /\ thread'[u].proc = NoProc
      BY <2>1, <2>2 DEF Command
    <2>5. QED
      BY <2>1, <2>3, <2>4 DEF Command, Killable
  <1>9. ASSUME StartupReport PROVE Command'
    BY <1>9, <1>a
    DEF StartupReport, Command, Killable, Typed, TypeOK, appVars, Threads
  <1>10. ASSUME NEW after \in Continuations, StopEnter(after) PROVE Command'
    <2>1. /\ lock = "free" /\ lock' = "main" /\ slot' = NoRun /\ app = "up"
          /\ app' = "up"
      BY <1>10 DEF StopEnter, appVars
    <2>2. \A u \in Threads \ {"main"} : thread'[u] = thread[u]
      BY <1>10 DEF StopEnter, Typed, TypeOK
    <2>3. thread'["main"].at = "killing"
      BY <1>10 DEF StopEnter, Typed, TypeOK, Threads, Resting
    <2>4. QED
      BY <1>a, <2>1, <2>2, <2>3 DEF Command
  <1>11. ASSUME StopFinish PROVE Command'
    <2>1. lock = "main" /\ app = "up"
      BY <1>11, <1>a DEF StopFinish, Command, Threads
    <2>2. \A u \in Threads \ {"main"} : thread'[u] = thread[u]
      BY <1>11 DEF StopFinish, Typed, TypeOK
    <2>3. /\ thread'["main"].at \in {"idle", "start", "exit"}
          /\ thread'["main"].proc = NoProc
      BY <1>11, <1>a
      DEF StopFinish, Typed, TypeOK, Threads, ThreadStates, Continuations,
          Resting
    <2>4. lock' = "free" /\ UNCHANGED <<slot, monitor, app, outside>>
      BY <1>11 DEF StopFinish, appVars
    <2>5. \A u \in Threads :
            /\ thread'[u].at
                 \notin {"probe", "attempt", "spawning", "killing"}
            /\ thread'[u].proc = NoProc
      BY <2>1, <2>2, <2>3 DEF Command
    <2>6. QED
      BY <2>1, <2>4, <2>5 DEF Command, Killable
  <1>12. ASSUME NEW g \in Starts, MonitorStep(g) PROVE Command'
    <2>1. app = "up"
      BY <1>12, MonitorSlot DEF Command, NoMonitor
    <2>2. UNCHANGED <<lock, thread, app, outside>>
      BY <1>12, MonitorSlot
    <2>3. CASE slot' = slot
      BY <2>1, <2>2, <2>3 DEF Command, Killable
    <2>4. CASE lock = "free" /\ slot' = NoRun
      BY <2>1, <2>2, <2>4 DEF Command
    <2>5. CASE lock = "free" /\ slot'.child /\ slot'.managed
      BY <2>1, <2>2, <2>5 DEF Command, Killable
    <2>6. QED
      BY <1>12, <2>3, <2>4, <2>5, MonitorSlot
  <1>13. ASSUME NEW p \in Procs, ProcessExit(p) PROVE Command'
    BY <1>13 DEF ProcessExit, Command, Killable, appVars
  <1>14. ASSUME ExternalStart PROVE Command'
    BY <1>14 DEF ExternalStart, Command, Killable, appVars
  <1>15. ASSUME NEW how \in {"quit", "dead"}, DesktopEnds(how) PROVE Command'
    BY <1>15, <1>a DEF DesktopEnds, Command, Killable
  <1>16. ASSUME Launch PROVE Command'
    BY <1>16, <1>a
    DEF Launch, Command, Killable, Typed, TypeOK, ThreadStates, Threads
  <1>17. \A t \in Threads : thread[t].at = "start" => app = "up"
    BY <1>a DEF Command
  <1>18. QED
    BY <1>17, <1>b, <1>1, <1>2, <1>3, <1>4, <1>5, <1>6, <1>7, <1>8, <1>9,
       <1>10, <1>11, <1>12, <1>13, <1>14, <1>15, <1>16, Steps

\* Only an active monitor takes a step.
LEMMA MonitorIsActive ==
    ASSUME NEW g \in Starts, MonitorStep(g)
    PROVE  Active(g)
  BY DEF Active, MonitorStep, MonitorLeave, MonitorSeeExit, MonitorClassify,
         DropStopped, ReportStopped, ReportDetached, Drop, ReportRestart,
         GiveUp, Respawn, RespawnReady, ReportReady, RespawnFail

\* A step that leaves the monitors alone, launches nothing, lets go of nothing
\* that stays alive and begins no start beside an active monitor.
LEMMA PeaceKept ==
    ASSUME Peaceful, UNCHANGED monitor, OwnLive' \subseteq OwnLive,
           \A p \in OwnLive' : Held(p) => Held(p)',
           \A t \in Threads, g \in Starts :
             Starting(t)' => Starting(t) \/ ~Active(g)
    PROVE  Peaceful'
  <1>1. \A g \in Starts : Active(g)' <=> Active(g)
    BY DEF Active
  <1>2. \A t \in Threads, g \in Starts : Starting(t)' => ~Active(g)'
    BY <1>1 DEF Peaceful
  <1>3. \A p \in OwnLive' : Held(p)'
    BY DEF Peaceful
  <1>4. \A g \in Starts :
         /\ Mourning(monitor[g])' => OwnLive' = {}
         /\ monitor'[g].at = "spawning"
              => OwnLive' \subseteq {monitor'[g].proc}
    BY DEF Peaceful, Mourning
  <1>5. QED
    BY <1>1, <1>2, <1>3, <1>4 DEF Peaceful

\* While a command is starting a Harness, what is alive is in its hands.
LEMMA StarterHolds ==
    ASSUME Command, Peaceful, NEW t \in Threads, Starting(t)
    PROVE  /\ lock = t
           /\ \A p \in OwnLive : p = thread[t].proc \/ p = NoProc
           /\ \A u \in Threads : Starting(u) => u = t
  <1>1. lock = t /\ t # "free"
    BY DEF Command, Starting, Threads
  <1>2. slot = NoRun
    BY <1>1 DEF Command
  <1>3. \A u \in Threads \ {t} : thread[u].proc = NoProc /\ ~Starting(u)
    BY <1>1 DEF Command, Starting
  <1>4. \A g \in Starts : monitor[g].at # "spawning"
    BY DEF Peaceful, Active
  <1>5. QED
    BY <1>1, <1>2, <1>3, <1>4 DEF Peaceful, Held

LEMMA InitSole == Init => Sole
  BY DEF Init, Sole, Peaceful, Active, Starting, OwnLive, Mourning, NoMonitor,
         Resting, Threads

LEMMA NextSole == Alone /\ [Next]_vars => Sole'
  <1> SUFFICES ASSUME Typed, Numbered, Command, Sole, [Next]_vars,
                      ~overlap', app' = "up"
               PROVE  Peaceful'
    BY Zenon DEF Alone, Ownership, Sole
  <1>a. /\ NoProc \notin OwnLive
        /\ Resting.at = "idle" /\ Resting.proc = NoProc
        /\ "main" \in Threads /\ "startup" \in Threads
    BY DEF OwnLive, Resting, Threads, Typed, TypeOK, Procs, NoProc
  <1>b. overlap \in BOOLEAN
    BY DEF Typed, TypeOK
  \* A step that changes neither history nor life of the desktop.
  <1>c. UNCHANGED <<app, overlap>> => Peaceful
    BY DEF Sole
  <1>d. CASE UNCHANGED vars
    <2>1. UNCHANGED <<monitor, thread, slot, alive, outside, inherited, app,
                      overlap>>
      BY <1>d DEF vars
    <2>2. OwnLive' \subseteq OwnLive /\ \A q : Held(q)' <=> Held(q)
      BY <2>1 DEF OwnLive, Held
    <2>3. Peaceful /\ \A t \in Threads : Starting(t)' <=> Starting(t)
      BY <1>c, <2>1 DEF Starting
    <2>4. QED
      BY <2>1, <2>2, <2>3, PeaceKept
  <1>e. ASSUME NEW t \in Threads, NEW p \in Procs, NEW m \in BOOLEAN,
               NEW c \in BOOLEAN, NEW w \in BOOLEAN, Publish(t, p, m, c, w),
               Starting(t), thread[t].proc \in {p, NoProc}
        PROVE  Peaceful'
    <2>1. UNCHANGED <<app, overlap, alive, outside, inherited>>
      BY <1>e DEF Publish, appVars
    <2>2. Peaceful /\ OwnLive' = OwnLive
      BY <1>c, <2>1 DEF OwnLive
    <2>3. \A q \in OwnLive : q = p
      BY <1>a, <1>e, <2>2, StarterHolds
    <2>4. slot'.proc = p /\ slot' # NoRun
      BY <1>e
      DEF Publish, NoRun, NoProc, Procs
    <2>5. \A g \in Starts : ~Active(g)
      BY <1>e, <2>2 DEF Peaceful
    <2>6. \A g \in Starts : \/ monitor'[g] = monitor[g]
                            \/ g = nextStart /\ monitor'[g].at = "watch"
      BY <1>e DEF Publish, NewMonitor, NoMonitor, Typed, TypeOK
    <2>7. \A g \in Starts : /\ Active(g)' => g = nextStart
                            /\ ~Mourning(monitor'[g])
                            /\ monitor'[g].at # "spawning"
      BY <2>5, <2>6 DEF Active, Mourning
    <2>8. \A u \in Threads : ~Starting(u)'
      BY <1>a, <1>e, <2>2, StarterHolds DEF Publish, Starting, Typed, TypeOK
    <2>9. QED
      BY <2>2, <2>3, <2>4, <2>7, <2>8 DEF Peaceful, Held
  <1>1. ASSUME NEW t \in Threads, StartTracked(t) PROVE Peaceful'
    <2>1. UNCHANGED <<monitor, slot, alive, outside, inherited, app, overlap>>
      BY <1>1 DEF StartTracked, appVars
    <2>2. OwnLive' = OwnLive /\ thread[t].proc = NoProc
      BY <1>1, <2>1 DEF OwnLive, StartTracked, Command
    <2>3. \A u \in Threads :
            /\ thread'[u].proc = thread[u].proc
            /\ Starting(u)' => Starting(u)
      BY <1>1, <1>a, <2>2 DEF StartTracked, Starting, Typed, TypeOK
    <2>4. QED
      BY <1>c, <2>1, <2>2, <2>3, PeaceKept DEF Held
  <1>2. ASSUME NEW t \in Threads, StartEnter(t) PROVE Peaceful'
    <2>1. /\ UNCHANGED <<monitor, slot, alive, outside, inherited, app>>
          /\ overlap = FALSE
          /\ \A g \in Starts : ~Active(g)
      BY <1>2, <1>b DEF StartEnter
    <2>2. Peaceful /\ OwnLive' = OwnLive
      BY <2>1 DEF OwnLive, Sole
    <2>3. \A u \in Threads :
            thread[u].at \notin {"spawning", "killing"}
      BY <1>2 DEF StartEnter, Command, Threads
    <2>4. \A u \in Threads : thread[u].proc = NoProc
      BY <2>3 DEF Command
    <2>5. \A p \in OwnLive : Held(p) => Held(p)'
      BY <1>a, <2>1, <2>4 DEF Held
    <2>6. QED
      BY <2>1, <2>2, <2>5, PeaceKept
  <1>3. ASSUME NEW t \in Threads, AdoptRegistered(t) PROVE Peaceful'
    <2>1. registry \in Procs /\ Starting(t) /\ thread[t].proc = NoProc
      BY <1>3 DEF AdoptRegistered, Starting, Command, Typed, TypeOK
    <2>2. QED
      BY <1>3, <1>e, <2>1 DEF AdoptRegistered
  <1>4. ASSUME NEW t \in Threads, AdoptExternal(t) PROVE Peaceful'
    <2>1. Starting(t) /\ thread[t].proc = NoProc
      BY <1>4 DEF AdoptExternal, Starting, Command
    <2>2. PICK p \in Procs : Publish(t, p, FALSE, FALSE, FALSE)
      BY <1>4 DEF AdoptExternal, Typed, TypeOK
    <2>3. QED
      BY <1>e, <2>1, <2>2
  <1>5. ASSUME NEW t \in Threads, StartAttempt(t) PROVE Peaceful'
    <2>1. /\ UNCHANGED <<monitor, slot, outside, inherited, app, overlap>>
          /\ alive' = alive \union {nextProc}
          /\ Starting(t) /\ thread[t].proc = NoProc
      BY <1>5 DEF StartAttempt, appVars, Starting, Command
    <2>2. Peaceful /\ OwnLive = {}
      BY <1>a, <1>c, <2>1, StarterHolds
    <2>3. OwnLive' \subseteq {nextProc}
      BY <2>1, <2>2 DEF OwnLive
    <2>4. thread'[t].proc = nextProc
      BY <1>5 DEF StartAttempt, Typed, TypeOK, ThreadStates
    <2>5. \A g \in Starts : ~Active(g)
      BY <2>1, <2>2 DEF Peaceful
    <2>6. \A g \in Starts : /\ ~Active(g)'
                            /\ ~Mourning(monitor'[g])
                            /\ monitor'[g].at # "spawning"
      BY <2>1, <2>5 DEF Active, Mourning
    <2>7. QED
      BY <2>3, <2>4, <2>6 DEF Peaceful, Held
  <1>6. ASSUME NEW t \in Threads, StartReady(t) PROVE Peaceful'
    <2>1. thread[t].proc \in Procs /\ Starting(t)
      BY <1>6 DEF StartReady, Starting, Typed, TypeOK
    <2>2. QED
      BY <1>6, <1>e, <2>1 DEF StartReady
  <1>7. ASSUME NEW t \in Threads, StartRecover(t) \/ StartFail(t)
        PROVE  Peaceful'
    <2>1. /\ UNCHANGED <<monitor, slot, outside, inherited, app, overlap>>
          /\ alive' = alive \ {thread[t].proc}
          /\ Starting(t)
      BY <1>7 DEF StartRecover, StartFail, CleanUp, appVars, Starting
    <2>2. /\ OwnLive' \subseteq OwnLive
          /\ thread[t].proc \notin OwnLive'
      BY <2>1 DEF OwnLive
    <2>3. \A u \in Threads \ {t} : thread'[u] = thread[u]
      BY <1>7 DEF StartRecover, StartFail, Typed, TypeOK
    <2>4. \A p \in OwnLive' : Held(p) => Held(p)'
      BY <2>1, <2>2, <2>3 DEF Held
    <2>5. \A u \in Threads : Starting(u)' => Starting(u)
      BY <2>1, <2>3 DEF Starting
    <2>6. QED
      BY <1>c, <2>1, <2>2, <2>4, <2>5, PeaceKept
  <1>8. CASE StartupReport
    <2>1. UNCHANGED <<monitor, slot, alive, outside, inherited, app, overlap>>
      BY <1>8 DEF StartupReport, appVars
    <2>2. OwnLive' = OwnLive /\ thread["startup"].proc = NoProc
      BY <1>8, <1>a, <2>1 DEF OwnLive, StartupReport, Command
    <2>3. \A u \in Threads :
            /\ thread'[u].proc = thread[u].proc
            /\ Starting(u)' => Starting(u)
      BY <1>8, <1>a, <2>2 DEF StartupReport, Starting, Typed, TypeOK
    <2>4. QED
      BY <1>c, <2>1, <2>2, <2>3, PeaceKept DEF Held
  <1>9. ASSUME NEW after \in Continuations, StopEnter(after)
        PROVE  Peaceful'
    <2>1. /\ UNCHANGED <<monitor, alive, outside, inherited, app, overlap>>
          /\ slot' = NoRun
          /\ thread["main"].proc = NoProc
      BY <1>9, <1>a DEF StopEnter, appVars, Command
    <2>2. OwnLive' = OwnLive
      BY <2>1 DEF OwnLive
    <2>3. /\ Killable(slot) => thread'["main"].proc = slot.proc
          /\ thread'["main"].at = "killing"
      BY <1>9, <1>a DEF StopEnter, Typed, TypeOK, Resting
    <2>4. \A u \in Threads \ {"main"} : thread'[u] = thread[u]
      BY <1>9 DEF StopEnter, Typed, TypeOK
    <2>5. slot # NoRun /\ slot.proc \in OwnLive => Killable(slot)
      BY DEF Command, OwnLive
    <2>6. \A p \in OwnLive : Held(p) => Held(p)'
      BY <1>a, <2>1, <2>3, <2>4, <2>5 DEF Held
    <2>7. \A u \in Threads : Starting(u)' => Starting(u)
      BY <2>3, <2>4 DEF Starting
    <2>8. QED
      BY <1>c, <2>1, <2>2, <2>6, <2>7, PeaceKept
  <1>10. CASE StopFinish
    <2>1. /\ UNCHANGED <<monitor, slot, outside, inherited, app, overlap>>
          /\ alive' = alive \ {thread["main"].proc}
      BY <1>10 DEF StopFinish, appVars
    <2>2. /\ OwnLive' \subseteq OwnLive
          /\ thread["main"].proc \notin OwnLive'
      BY <2>1 DEF OwnLive
    <2>3. \A u \in Threads \ {"main"} : thread'[u] = thread[u]
      BY <1>10 DEF StopFinish, Typed, TypeOK
    <2>4. \A p \in OwnLive' : Held(p) => Held(p)'
      BY <2>1, <2>2, <2>3 DEF Held
    <2>5. thread'["main"].at \in Continuations
      BY <1>10, <1>a DEF StopFinish, Typed, TypeOK, ThreadStates, Resting
    <2>6. \A u \in Threads : Starting(u)' => Starting(u)
      BY <2>3, <2>5 DEF Starting, Continuations
    <2>7. QED
      BY <1>c, <2>1, <2>2, <2>4, <2>6, PeaceKept
  <1>11. ASSUME NEW g \in Starts, MonitorStep(g) PROVE Peaceful'
    <2>1. /\ UNCHANGED <<lock, thread, outside, app, overlap, inherited>>
          /\ Active(g)
          /\ monitor' = [monitor EXCEPT ![g] = monitor'[g]]
      BY <1>11, MonitorSlot, MonitorIsActive, MonitorStepOK
    <2>2. Peaceful
      BY <1>c, <2>1
    <2>3. \A h \in Starts \ {g} : monitor'[h] = monitor[h] /\ ~Active(h)
      BY <2>1, <2>2 DEF Peaceful, Typed, TypeOK
    <2>4. \A h \in Starts \ {g} : /\ ~Active(h)'
                                  /\ ~Mourning(monitor'[h])
                                  /\ monitor'[h].at # "spawning"
                                  /\ monitor[h].at # "spawning"
      BY <2>3 DEF Active, Mourning
    <2>5. \A t \in Threads : ~Starting(t)'
      BY <2>1, <2>2 DEF Peaceful, Starting
    <2> SUFFICES /\ \A p, q \in OwnLive' : p = q
                 /\ \A p \in OwnLive' : Held(p)'
                 /\ Mourning(monitor'[g]) => OwnLive' = {}
                 /\ monitor'[g].at = "spawning"
                      => OwnLive' \subseteq {monitor'[g].proc}
      BY <2>4, <2>5 DEF Peaceful
    <2>6. CASE OwnLive' = {}
      BY <2>6
    <2>7. CASE OwnLive = {} /\ alive' \subseteq alive
      BY <2>1, <2>6, <2>7 DEF OwnLive
    <2>8. CASE MonitorClassify(g) \/ DropStopped(g) \/ ReportStopped(g)
                 \/ ReportDetached(g) \/ Drop(g) \/ ReportRestart(g)
                 \/ GiveUp(g)
      <3>1. Mourning(monitor[g]) /\ alive' \subseteq alive
        BY <2>8 DEF MonitorClassify, DropStopped, ReportStopped,
           ReportDetached, Drop, ReportRestart, GiveUp, Mourning, CleanUp
      <3>2. QED
        BY <2>2, <2>7, <3>1 DEF Peaceful
    <2>9. CASE MonitorSeeExit(g)
      <3>1. /\ slot.proc \notin OwnLive
            /\ monitor[g].at # "spawning"
            /\ alive' = alive
            /\ lock = "free"
        BY <2>9 DEF MonitorSeeExit, OwnLive
      <3>2. \A t \in Threads : thread[t].proc = NoProc
        BY <3>1 DEF Command, Threads
      <3>3. \A p \in OwnLive : ~Held(p)
        BY <1>a, <2>4, <3>1, <3>2 DEF Held
      <3>4. QED
        BY <2>2, <2>7, <3>1, <3>3 DEF Peaceful
    <2>10. CASE MonitorLeave(g) \/ ReportReady(g)
      <3>1. /\ slot' = slot /\ alive' = alive
            /\ monitor[g].at # "spawning"
            /\ monitor'[g].at \in {"done", "watch"}
        BY <2>10
        DEF MonitorLeave, ReportReady, Ended, NoMonitor, Typed, TypeOK,
            MonitorStates
      <3>2. OwnLive' = OwnLive
        BY <2>1, <3>1 DEF OwnLive
      <3>3. \A p \in OwnLive : Held(p)'
        BY <2>1, <2>2, <2>4, <3>1 DEF Held, Peaceful
      <3>4. QED
        BY <2>2, <3>1, <3>2, <3>3 DEF Peaceful, Mourning
    <2>11. CASE Respawn(g)
      <3>1. Mourning(monitor[g]) /\ alive' = alive \union {nextProc}
        BY <2>11 DEF Respawn, Mourning
      <3>2. OwnLive' \subseteq {nextProc}
        BY <2>1, <2>2, <3>1 DEF Peaceful, OwnLive
      <3>3. monitor'[g].at = "spawning" /\ monitor'[g].proc = nextProc
        BY <2>11 DEF Respawn, Typed, TypeOK, MonitorStates
      <3>4. QED
        BY <3>2, <3>3 DEF Held, Mourning
    <2>12. CASE RespawnReady(g)
      <3>1. /\ OwnLive \subseteq {monitor[g].proc}
            /\ alive' = alive
            /\ slot'.proc = monitor[g].proc /\ slot'.child
            /\ monitor'[g].at = "reportReady"
        BY <2>2, <2>12
        DEF RespawnReady, Peaceful, Typed, TypeOK, MonitorStates
      <3>2. OwnLive' = OwnLive /\ slot' # NoRun
        BY <2>1, <3>1 DEF OwnLive, NoRun
      <3>3. QED
        BY <3>1, <3>2 DEF Held, Mourning
    <2>13. CASE RespawnFail(g)
      <3>1. /\ OwnLive \subseteq {monitor[g].proc}
            /\ alive' = alive \ {monitor[g].proc}
        BY <2>2, <2>13 DEF RespawnFail, Peaceful, CleanUp
      <3>2. OwnLive' = {}
        BY <2>1, <3>1 DEF OwnLive
      <3>3. QED
        BY <2>6, <3>2
    <2>14. QED
      BY <1>11, <2>8, <2>9, <2>10, <2>11, <2>12, <2>13 DEF MonitorStep
  <1>12. ASSUME NEW p \in Procs, ProcessExit(p) PROVE Peaceful'
    <2>1. /\ UNCHANGED <<monitor, thread, slot, outside, inherited, app,
                         overlap>>
          /\ alive' \subseteq alive
      BY <1>12 DEF ProcessExit, appVars
    <2>2. OwnLive' \subseteq OwnLive /\ \A q : Held(q)' <=> Held(q)
      BY <2>1 DEF OwnLive, Held
    <2>3. QED
      BY <1>c, <2>1, <2>2, PeaceKept DEF Starting
  <1>13. CASE ExternalStart
    <2>1. /\ UNCHANGED <<monitor, thread, slot, inherited, app, overlap>>
          /\ alive' = alive \union {nextProc}
          /\ outside' = outside \union {nextProc}
      BY <1>13 DEF ExternalStart, appVars
    <2>2. OwnLive' \subseteq OwnLive /\ \A q : Held(q)' <=> Held(q)
      BY <2>1 DEF OwnLive, Held
    <2>3. QED
      BY <1>c, <2>1, <2>2, PeaceKept DEF Starting
  <1>14. ASSUME NEW how \in {"quit", "dead"}, DesktopEnds(how)
         PROVE  Peaceful'
    BY <1>14 DEF DesktopEnds
  <1>15. CASE Launch
    <2>1. app # "up" /\ UNCHANGED <<monitor, alive, outside>>
          /\ inherited' = alive \ outside
      BY <1>15 DEF Launch
    <2>2. OwnLive' = {}
      BY <2>1 DEF OwnLive
    <2>3. \A g \in Starts : ~Active(g)'
      BY <2>1 DEF Command, Active, NoMonitor
    <2>4. QED
      BY <2>2, <2>3 DEF Peaceful
  <1>16. QED
    BY <1>d, <1>1, <1>2, <1>3, <1>4, <1>5, <1>6, <1>7, <1>8, <1>9, <1>10,
       <1>11, <1>12, <1>13, <1>14, <1>15, Steps

\* As long as no start overlaps with a monitor, the desktop never has two
\* Harness processes of its own, and none outside the slot and the hands of a
\* thread: whatever monitors, commands, crashes and relaunches do.
THEOREM NoOrphanWithoutOverlap == Spec => []SoleMonitorOwnsAll
  <1>1. Init => Alone
    BY InitTyped, InitOwnership, InitCommand, InitSole DEF Alone, Ownership
  <1>2. Alone /\ [Next]_vars => Alone'
    BY NextTyped, NextNumbered, NextOwned, NextCommand, NextSole
    DEF Alone, Ownership
  <1>3. Alone => SoleMonitorOwnsAll
    <2>1. SUFFICES ASSUME Alone, Peaceful
                   PROVE  /\ Cardinality(OwnLive) <= 1
                          /\ OwnLive \subseteq Tracked \union InHand
      BY DEF Alone, Sole, SoleMonitorOwnsAll
    <2>2. Cardinality(OwnLive) <= 1
      <3>1. CASE OwnLive = {}
        BY <3>1, FS_EmptySet
      <3>2. CASE OwnLive # {}
        <4>1. PICK p : OwnLive = {p}
          BY <2>1, <3>2 DEF Peaceful
        <4>2. Cardinality({p}) = 1
          BY FS_Singleton
        <4>3. QED
          BY <4>1, <4>2
      <3>3. QED
        BY <3>1, <3>2
    <2>3. OwnLive \subseteq Tracked \union InHand
      BY <2>1 DEF Peaceful, Held, Tracked, InHand
    <2>4. QED
      BY <2>2, <2>3
  <1>4. QED
    BY <1>1, <1>2, <1>3, PTL DEF Spec

=============================================================================
