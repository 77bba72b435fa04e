----------------------- MODULE RuntimePointersProofs -----------------------
(***************************************************************************)
(* Proofs about RuntimePointers, for any number of tools, Runtimes,        *)
(* failures and crashes.                                                   *)
(***************************************************************************)
EXTENDS RuntimePointers, TLAPS

-----------------------------------------------------------------------------
(* The inductive invariant, part by part. *)

\* The lock file: a tool that runs holds it, so it runs alone.
Alone ==
    \A t \in Tools : Running(t) =>
        updateLock /\ \A u \in Tools : Running(u) => u = t

Restoring == {"restoreCurrent", "restorePrevious", "forget"}
Settled == {"look", "read", "record", "committed", "done"}
Writing == {"writePrevious", "writeCurrent", "commit"}
Begun == Writing \union {"record"}

\* What the journal holds while a tool runs.
Journal ==
    \A t \in Tools :
        /\ tool[t].at \in Restoring => transaction # None
        /\ tool[t].at \in Settled => transaction = None
        /\ tool[t].at \in Writing => transaction = tool[t].pair

\* A rollback that has begun has a Runtime to go to.
Targets ==
    \A t \in Tools :
        tool[t].at \in Begun /\ tool[t].command = "rollback"
          => tool[t].pair.previous # None

\* What has been written when a tool is at a step.
Written(t) ==
    /\ tool[t].at = "restorePrevious" => current = transaction.current
    /\ tool[t].at = "forget" => Pointers = transaction
    /\ tool[t].at \in {"record", "writePrevious"} => tool[t].pair = Pointers
    /\ tool[t].at \in {"writeCurrent", "commit", "committed", "done"}
         => previous = NewPrevious(t)
    /\ tool[t].at \in {"commit", "committed", "done"}
         => current = NewCurrent(t)

WrittenByAll == ~overlap => \A t \in Tools : Written(t)

\* The Runtimes that are, or may become, named by the files are installed.
Installed ==
    /\ Seed \in versions
    /\ PointersAreInstalled
    /\ staged \in versions \union {None}
    /\ \A t \in Tools :
         /\ tool[t].pair.current \in versions
         /\ tool[t].pair.previous \in versions \union {None}
         /\ /\ tool[t].command = "install"
               /\ tool[t].at \notin {"off", "fetch", "settle", "failed"}
            => tool[t].manifest \in versions

\* What the desktop is about to make current is still what it would choose.
Steady ==
    staged # None /\ ~overlap =>
        ~ToolRuns /\ staged = IF previous # None THEN previous ELSE Seed

Inv == TypeOK /\ Alone /\ Journal /\ Targets /\ WrittenByAll /\ Installed
         /\ Steady
-----------------------------------------------------------------------------
(* The steps of a tool. *)

LEMMA GoFacts ==
    ASSUME TypeOK, NEW t \in Tools, NEW step \in Steps, Go(t, step)
    PROVE  /\ tool' \in [Tools -> Tool]
           /\ tool'[t].at = step
           /\ tool'[t].command = tool[t].command
           /\ tool'[t].manifest = tool[t].manifest
           /\ tool'[t].then = tool[t].then
           /\ tool'[t].pair = tool[t].pair
           /\ \A u \in Tools \ {t} : tool'[u] = tool[u]
  BY DEF TypeOK, Go, Tool

LEMMA EnterFacts ==
    ASSUME TypeOK, NEW t \in Tools, NEW next \in Continuations,
           NEW isUndo \in BOOLEAN, Enter(t, next, isUndo)
    PROVE  /\ tool' \in [Tools -> Tool]
           /\ tool'[t].at = "enter"
           /\ tool'[t].command = tool[t].command
           /\ tool'[t].manifest = tool[t].manifest
           /\ tool'[t].then = next
           /\ tool'[t].pair = tool[t].pair
           /\ \A u \in Tools \ {t} : tool'[u] = tool[u]
  <1>1. tool' = [tool EXCEPT ![t] = [tool[t] EXCEPT !.at = "enter",
                                       !.then = next, !.undo = isUndo]]
    BY DEF Enter, TypeOK
  <1>2. /\ tool[t] \in Tool
        /\ [tool[t] EXCEPT !.at = "enter", !.then = next,
                           !.undo = isUndo] \in Tool
    BY DEF TypeOK, Tool, Steps
  <1>3. QED
    BY <1>1, <1>2 DEF TypeOK, Tool

LEMMA ReadFacts ==
    ASSUME TypeOK, NEW t \in Tools,
           tool' = [tool EXCEPT ![t].at = "record", ![t].pair = Pointers]
    PROVE  /\ tool' \in [Tools -> Tool]
           /\ tool'[t].at = "record"
           /\ tool'[t].command = tool[t].command
           /\ tool'[t].manifest = tool[t].manifest
           /\ tool'[t].then = tool[t].then
           /\ tool'[t].pair = Pointers
           /\ \A u \in Tools \ {t} : tool'[u] = tool[u]
  <1>1. tool' = [tool EXCEPT ![t] = [tool[t] EXCEPT !.at = "record",
                                                   !.pair = Pointers]]
    BY DEF TypeOK
  <1>2. /\ tool[t] \in Tool
        /\ [tool[t] EXCEPT !.at = "record", !.pair = Pointers] \in Tool
    BY DEF TypeOK, Tool, Steps, Pointers, Pairs
  <1>3. QED
    BY <1>1, <1>2 DEF TypeOK, Tool

LEMMA OffFacts ==
    ASSUME TypeOK, NEW t \in Tools, tool' = [tool EXCEPT ![t] = Off]
    PROVE  /\ tool' \in [Tools -> Tool]
           /\ tool'[t].at = "off"
           /\ tool'[t].pair = [current |-> Seed, previous |-> None]
           /\ \A u \in Tools \ {t} : tool'[u] = tool[u]
  BY PointersAssumption
  DEF TypeOK, Off, Tool, Steps, Commands, Continuations, Pairs

LEMMA StartFacts ==
    ASSUME TypeOK, NEW t \in Tools, NEW c \in Commands, NEW v \in Versions,
           Start(t, c, v)
    PROVE  /\ tool' \in [Tools -> Tool]
           /\ tool'[t].at = IF c = "install" THEN "fetch" ELSE "enter"
           /\ tool'[t].command = c
           /\ tool'[t].then = "look"
           /\ tool'[t].pair = [current |-> Seed, previous |-> None]
           /\ \A u \in Tools \ {t} : tool'[u] = tool[u]
  BY PointersAssumption
  DEF Start, TypeOK, Off, Tool, Steps, Commands, Continuations, Pairs

\* A step of a tool that stays running.
Works(t) ==
    \/ Fetch(t) \/ Settle(t)
    \/ NothingToRecover(t) \/ Recover(t)
    \/ RestoreCurrent(t) \/ RestorePrevious(t) \/ Forget(t)
    \/ Look(t) \/ Read(t) \/ Record(t)
    \/ WritePrevious(t) \/ WriteCurrent(t) \/ Commit(t)
    \/ Finish(t) \/ Fault(t)

\* It goes on to another step of the same command and leaves the lock file and
\* the other tools alone.
Going(t, r) ==
    /\ tool' \in [Tools -> Tool]
    /\ Running(t)
    /\ tool'[t].at # "off"
    /\ tool'[t].command = tool[t].command
    /\ tool'[t].manifest = tool[t].manifest
    /\ tool'[t].pair = r
    /\ \A u \in Tools \ {t} : tool'[u] = tool[u]
    /\ UNCHANGED <<updateLock, staged, crashes, overlap>>

LEMMA WorksFacts ==
    ASSUME TypeOK, NEW t \in Tools, Works(t)
    PROVE  Going(t, IF Read(t) /\ HasTarget(t) THEN Pointers ELSE tool[t].pair)
  <1> USE DEF Going, Running, Steps, Continuations, files, Quiet
  <1>1. CASE Fetch(t)
    BY <1>1, GoFacts DEF Fetch, Read
  <1>2. CASE Settle(t)
    BY <1>2, EnterFacts DEF Settle, Read
  <1>3. CASE NothingToRecover(t)
    <2>1. tool[t].then \in Continuations
      BY DEF TypeOK, Tool
    <2>2. QED
      BY <1>3, <2>1, GoFacts DEF NothingToRecover, Read
  <1>4. CASE Recover(t)
    BY <1>4, GoFacts DEF Recover, Read
  <1>5. CASE RestoreCurrent(t)
    BY <1>5, GoFacts DEF RestoreCurrent, Read
  <1>6. CASE RestorePrevious(t)
    BY <1>6, GoFacts DEF RestorePrevious, Read
  <1>7. CASE Forget(t)
    <2>1. tool[t].then \in Continuations
      BY DEF TypeOK, Tool
    <2>2. QED
      BY <1>7, <2>1, GoFacts DEF Forget, Read
  <1>8. CASE Look(t)
    BY <1>8, GoFacts, EnterFacts DEF Look, Read
  <1>9. CASE Read(t)
    BY <1>9, GoFacts, ReadFacts DEF Read
  <1>10. CASE Record(t)
    BY <1>10, GoFacts DEF Record, Read
  <1>11. CASE WritePrevious(t)
    BY <1>11, GoFacts DEF WritePrevious, Read
  <1>12. CASE WriteCurrent(t)
    BY <1>12, GoFacts DEF WriteCurrent, Read
  <1>13. CASE Commit(t)
    BY <1>13, GoFacts DEF Commit, Read
  <1>14. CASE Finish(t)
    BY <1>14, GoFacts DEF Finish, Read
  <1>15. CASE Fault(t)
    <2>1. tool[t].undo \in BOOLEAN
      BY DEF TypeOK, Tool
    <2>2. ~(Read(t) /\ HasTarget(t))
      BY <1>15, PointersAssumption DEF Fault, Read, TypeOK
    <2>3. QED
      BY <1>15, <2>1, <2>2, GoFacts, EnterFacts DEF Fault
  <1>16. QED
    BY <1>1, <1>2, <1>3, <1>4, <1>5, <1>6, <1>7, <1>8, <1>9, <1>10, <1>11,
       <1>12, <1>13, <1>14, <1>15 DEF Works

LEMMA NextSteps ==
    ASSUME [Next]_vars
    PROVE  \/ \E t \in Tools, c \in Commands, v \in Versions : Start(t, c, v)
           \/ \E t \in Tools : Works(t) \/ Leave(t) \/ Crash(t)
           \/ Stage \/ Replace \/ GiveUp
           \/ UNCHANGED vars
  BY DEF Next, Proceed, Works

-----------------------------------------------------------------------------
(* The initial state. *)

LEMMA InitInv == Init => Inv
  <1> SUFFICES ASSUME Init PROVE Inv
    OBVIOUS
  <1> USE PointersAssumption DEF Init
  <1>1. Off \in Tool /\ Off.at = "off"
    BY DEF Off, Tool, Steps, Commands, Continuations, Pairs
  <1>2. TypeOK
    <2>1. tool \in [Tools -> Tool]
      BY <1>1
    <2>2. faults \in 0..MaxFaults /\ crashes \in 0..MaxCrashes
      OBVIOUS
    <2>3. QED
      BY <2>1, <2>2 DEF TypeOK
  <1>3. Alone /\ Journal /\ Targets /\ WrittenByAll
    BY <1>1 DEF Alone, Journal, Targets, WrittenByAll, Written, Running,
                Restoring, Settled, Writing, Begun
  <1>4. Installed
    BY <1>1 DEF Installed, PointersAreInstalled, Off
  <1>5. QED
    BY <1>2, <1>3, <1>4 DEF Inv, Steady

-----------------------------------------------------------------------------
(* Types. *)

LEMMA PointersTyped == TypeOK => Pointers \in Pairs
  BY DEF TypeOK, Pointers, Pairs

LEMMA WorksTyped ==
    ASSUME TypeOK, Journal, Targets, NEW t \in Tools, Works(t)
    PROVE  /\ current' \in Versions
           /\ previous' \in Versions \union {None}
           /\ transaction' \in Pairs \union {None}
           /\ versions' \subseteq Versions
           /\ faults' \in 0..MaxFaults
  <1>1. tool[t] \in Tool
    BY DEF TypeOK
  <1>2. CASE \/ Fetch(t) \/ NothingToRecover(t) \/ Recover(t)
             \/ Look(t) \/ Read(t) \/ Finish(t)
    BY <1>2 DEF Fetch, NothingToRecover, Recover, Look, Read, Finish, files,
                Quiet, TypeOK
  <1>3. CASE Settle(t)
    BY <1>1, <1>3 DEF Settle, WithVersion, Quiet, TypeOK, Tool
  <1>4. CASE RestoreCurrent(t) \/ RestorePrevious(t)
    <2>1. transaction \in Pairs
      BY <1>4 DEF RestoreCurrent, RestorePrevious, Journal, Restoring, TypeOK
    <2>2. QED
      BY <1>4, <2>1
      DEF RestoreCurrent, RestorePrevious, Restored, Quiet, TypeOK, Pairs
  <1>5. CASE Forget(t) \/ Commit(t)
    BY <1>5 DEF Forget, Commit, Quiet, TypeOK
  <1>6. CASE Record(t)
    BY <1>1, <1>6 DEF Record, Quiet, TypeOK, Tool
  <1>7. CASE WritePrevious(t)
    BY <1>1, <1>7 DEF WritePrevious, NewPrevious, Quiet, TypeOK, Tool, Pairs
  <1>8. CASE WriteCurrent(t)
    <2>1. NewCurrent(t) \in Versions
      BY <1>1, <1>8 DEF WriteCurrent, NewCurrent, Targets, Begun, Writing,
                        Tool, Pairs, Commands
    <2>2. QED
      BY <1>8, <2>1 DEF WriteCurrent, Quiet, TypeOK
  <1>9. CASE Fault(t)
    <2>1. faults' \in 0..MaxFaults
      BY <1>9, PointersAssumption DEF Fault, TypeOK
    <2>2. QED
      BY <1>9, <2>1 DEF Fault, files, TypeOK
  <1>10. QED
    BY <1>2, <1>3, <1>4, <1>5, <1>6, <1>7, <1>8, <1>9 DEF Works

LEMMA NextTyped == TypeOK /\ Journal /\ Targets /\ [Next]_vars => TypeOK'
  <1> SUFFICES ASSUME TypeOK, Journal, Targets, [Next]_vars PROVE TypeOK'
    OBVIOUS
  <1>1. ASSUME NEW t \in Tools, NEW c \in Commands, NEW v \in Versions,
               Start(t, c, v)
        PROVE  TypeOK'
    BY <1>1, StartFacts DEF Start, TypeOK
  <1>2. ASSUME NEW t \in Tools, Works(t) PROVE TypeOK'
    BY <1>2, WorksFacts, WorksTyped DEF Going, TypeOK
  <1>3. ASSUME NEW t \in Tools, Leave(t) PROVE TypeOK'
    BY <1>3, OffFacts DEF Leave, Quiet, TypeOK
  <1>4. ASSUME NEW t \in Tools, Crash(t) PROVE TypeOK'
    <2>1. crashes' \in 0..MaxCrashes
      BY <1>4, PointersAssumption DEF Crash, TypeOK
    <2>2. tool' \in [Tools -> Tool]
      BY <1>4, OffFacts DEF Crash
    <2>3. QED
      BY <1>4, <2>1, <2>2 DEF Crash, files, TypeOK
  <1>5. CASE Stage
    BY <1>5, PointersAssumption DEF Stage, files, ToolRuns, Running, TypeOK
  <1>6. CASE Replace
    BY <1>6 DEF Replace, ToolRuns, Running, TypeOK
  <1>7. CASE GiveUp
    BY <1>7 DEF GiveUp, files, TypeOK
  <1>8. CASE UNCHANGED vars
    BY <1>8 DEF vars, TypeOK
  <1>9. QED
    BY <1>1, <1>2, <1>3, <1>4, <1>5, <1>6, <1>7, <1>8, NextSteps

-----------------------------------------------------------------------------
(* The lock file. *)

LEMMA NextAlone == Inv /\ [Next]_vars => Alone'
  <1> SUFFICES ASSUME Inv, [Next]_vars PROVE Alone'
    OBVIOUS
  <1> USE DEF Inv
  <1>1. ASSUME NEW t \in Tools, NEW c \in Commands, NEW v \in Versions,
               Start(t, c, v)
        PROVE  Alone'
    <2>1. \A u \in Tools : ~Running(u)
      BY <1>1 DEF Start, LockIsFree, Alone, TypeOK
    <2>2. \A u \in Tools \ {t} : ~Running(u)'
      BY <1>1, <2>1, StartFacts DEF Running
    <2>3. QED
      BY <1>1, <2>2 DEF Start, Alone
  <1>2. ASSUME NEW t \in Tools, Works(t) PROVE Alone'
    BY <1>2, WorksFacts DEF Going, Alone, Running
  <1>3. ASSUME NEW t \in Tools, Leave(t) PROVE Alone'
    <2>1. Running(t)
      BY <1>3 DEF Leave, Running
    <2>2. \A u \in Tools : ~Running(u)'
      BY <1>3, <2>1, OffFacts DEF Leave, Alone, Running
    <2>3. QED
      BY <2>2 DEF Alone
  <1>4. ASSUME NEW t \in Tools, Crash(t) PROVE Alone'
    <2>1. \A u \in Tools : ~Running(u)'
      BY <1>4, OffFacts DEF Crash, Alone, Running
    <2>2. QED
      BY <2>1 DEF Alone
  <1>5. CASE Stage \/ Replace \/ GiveUp \/ UNCHANGED vars
    BY <1>5 DEF Stage, Replace, GiveUp, files, vars, Alone, Running
  <1>6. QED
    BY <1>1, <1>2, <1>3, <1>4, <1>5, NextSteps

\* While a tool works, the others are off, before and after.
LEMMA OthersOff ==
    ASSUME Inv, NEW t \in Tools, Works(t)
    PROVE  \A u \in Tools \ {t} : tool[u].at = "off" /\ tool'[u].at = "off"
  BY WorksFacts DEF Inv, Going, Alone, Running

\* When a tool starts, dies or returns, none runs before or after, but for a
\* starting one.
LEMMA NoneRuns ==
    ASSUME Inv, NEW t \in Tools, Leave(t) \/ Crash(t)
    PROVE  \A u \in Tools : tool'[u].at = "off"
  <1>1. Running(t) /\ tool' = [tool EXCEPT ![t] = Off]
    BY DEF Leave, Crash, Running
  <1>2. QED
    BY <1>1, OffFacts DEF Inv, Alone, Running

LEMMA OneStarts ==
    ASSUME Inv, NEW t \in Tools, NEW c \in Commands, NEW v \in Versions,
           Start(t, c, v)
    PROVE  /\ \A u \in Tools : tool[u].at = "off"
           /\ \A u \in Tools \ {t} : tool'[u].at = "off"
           /\ tool'[t].at \in {"fetch", "enter"}
  BY StartFacts DEF Inv, Start, LockIsFree, Alone, Running, TypeOK

-----------------------------------------------------------------------------
(* The journal and the targets of rollbacks. *)

LEMMA NextJournal == Inv /\ [Next]_vars => Journal'
  <1> SUFFICES ASSUME Inv, [Next]_vars PROVE Journal'
    OBVIOUS
  <1> USE DEF Inv, Restoring, Settled, Writing
  <1>1. ASSUME NEW t \in Tools, NEW c \in Commands, NEW v \in Versions,
               Start(t, c, v)
        PROVE  Journal'
    BY <1>1, OneStarts DEF Journal
  <1>2. ASSUME NEW t \in Tools, Works(t) PROVE Journal'
    <2> DEFINE Kept ==
          /\ tool'[t].at \in Restoring => transaction' # None
          /\ tool'[t].at \in Settled => transaction' = None
          /\ tool'[t].at \in Writing => transaction' = tool'[t].pair
    <2>1. Kept
      <3>1. CASE Fetch(t) \/ Recover(t) \/ RestoreCurrent(t)
                 \/ RestorePrevious(t)
        BY <1>2, <3>1, GoFacts
        DEF Fetch, Recover, RestoreCurrent, RestorePrevious, files, Quiet,
            Journal, Steps
      <3>2. CASE NothingToRecover(t)
        <4>1. tool[t].then \in Continuations
          BY DEF TypeOK, Tool
        <4>2. QED
          BY <3>2, <4>1, GoFacts
          DEF NothingToRecover, files, Continuations, Steps
      <3>3. CASE Forget(t)
        <4>1. tool[t].then \in Continuations
          BY DEF TypeOK, Tool
        <4>2. QED
          BY <3>3, <4>1, GoFacts DEF Forget, Continuations, Steps
      <3>4. CASE Settle(t)
        BY <3>4, EnterFacts DEF Settle, Continuations
      <3>5. CASE Look(t)
        BY <3>5, GoFacts, EnterFacts DEF Look, files, Steps, Continuations
      <3>6. CASE Read(t)
        BY <3>6, GoFacts, ReadFacts DEF Read, files, Steps, Journal
      <3>7. CASE Record(t)
        BY <3>7, GoFacts DEF Record, Steps
      <3>8. CASE WritePrevious(t) \/ WriteCurrent(t)
        BY <3>8, GoFacts DEF WritePrevious, WriteCurrent, Steps, Journal
      <3>9. CASE Commit(t)
        BY <3>9, GoFacts DEF Commit, Steps
      <3>10. CASE Finish(t)
        BY <3>10, GoFacts DEF Finish, files, Steps, Journal
      <3>11. CASE Fault(t)
        <4>1. tool[t].undo \in BOOLEAN
          BY DEF TypeOK, Tool
        <4>2. QED
          BY <3>11, <4>1, GoFacts, EnterFacts DEF Fault, Steps, Continuations
      <3>12. QED
        BY <1>2, <3>1, <3>2, <3>3, <3>4, <3>5, <3>6, <3>7, <3>8, <3>9,
           <3>10, <3>11 DEF Works
    <2>2. QED
      BY <1>2, <2>1, OthersOff DEF Journal
  <1>3. ASSUME NEW t \in Tools, Leave(t) \/ Crash(t) PROVE Journal'
    BY <1>3, NoneRuns DEF Journal
  <1>4. CASE Stage \/ Replace \/ GiveUp \/ UNCHANGED vars
    BY <1>4 DEF Stage, Replace, GiveUp, files, vars, Journal
  <1>5. QED
    BY <1>1, <1>2, <1>3, <1>4, NextSteps

LEMMA NextTargets == Inv /\ [Next]_vars => Targets'
  <1> SUFFICES ASSUME Inv, [Next]_vars PROVE Targets'
    OBVIOUS
  <1> USE DEF Inv, Begun, Writing
  <1>1. ASSUME NEW t \in Tools, NEW c \in Commands, NEW v \in Versions,
               Start(t, c, v)
        PROVE  Targets'
    BY <1>1, OneStarts DEF Targets
  <1>2. ASSUME NEW t \in Tools, Works(t) PROVE Targets'
    <2>1. CASE Read(t)
      BY <1>2, <2>1, OthersOff, GoFacts, ReadFacts
      DEF Read, HasTarget, Targets, Pointers, Steps
    <2>2. CASE ~Read(t)
      <3>1. tool'[t].at \in Begun => tool[t].at \in Begun
        <4>1. tool[t].then \in Continuations /\ tool[t].undo \in BOOLEAN
          BY DEF TypeOK, Tool
        <4>2. QED
          BY <1>2, <2>2, <4>1, GoFacts, EnterFacts
          DEF Works, Fetch, Settle, NothingToRecover, Recover, RestoreCurrent,
              RestorePrevious, Forget, Look, Record, WritePrevious,
              WriteCurrent, Commit, Finish, Fault, Steps, Continuations
      <3>2. QED
        BY <1>2, <2>2, <3>1, OthersOff, WorksFacts DEF Going, Targets
    <2>3. QED
      BY <2>1, <2>2
  <1>3. ASSUME NEW t \in Tools, Leave(t) \/ Crash(t) PROVE Targets'
    BY <1>3, NoneRuns DEF Targets
  <1>4. CASE Stage \/ Replace \/ GiveUp \/ UNCHANGED vars
    BY <1>4 DEF Stage, Replace, GiveUp, files, vars, Targets
  <1>5. QED
    BY <1>1, <1>2, <1>3, <1>4, NextSteps

-----------------------------------------------------------------------------
(* The files. *)

LEMMA NextWritten == Inv /\ [Next]_vars => WrittenByAll'
  <1> SUFFICES ASSUME Inv, [Next]_vars, ~overlap'
               PROVE  \A u \in Tools : Written(u)'
    BY DEF WrittenByAll
  <1> USE DEF Inv
  <1>1. ASSUME NEW t \in Tools, NEW c \in Commands, NEW v \in Versions,
               Start(t, c, v)
        PROVE  \A u \in Tools : Written(u)'
    BY <1>1, OneStarts DEF Written
  <1>2. ASSUME NEW t \in Tools, Works(t)
        PROVE  \A u \in Tools : Written(u)'
    <2>1. Written(t) /\ tool[t] \in Tool
      BY <1>2, WorksFacts DEF Going, WrittenByAll, TypeOK
    <2>2. tool[t].then \in Continuations /\ tool[t].undo \in BOOLEAN
      BY DEF TypeOK, Tool
    <2>3. Written(t)'
      <3>1. CASE \/ Fetch(t) \/ Settle(t) \/ NothingToRecover(t)
                 \/ Recover(t) \/ Look(t) \/ Fault(t)
        <4>1. tool'[t].at \in {"settle", "enter", "look", "read", "failed",
                               "restoreCurrent"}
          BY <2>2, <3>1, GoFacts, EnterFacts
          DEF Fetch, Settle, NothingToRecover, Recover, Look, Fault, Steps,
              Continuations
        <4>2. QED
          BY <4>1 DEF Written
      <3>2. CASE RestoreCurrent(t)
        BY <3>2, GoFacts DEF RestoreCurrent, Steps, Written
      <3>3. CASE RestorePrevious(t)
        <4>1. transaction \in Pairs /\ current = transaction.current
          BY <2>1, <3>3
          DEF RestorePrevious, Journal, Restoring, TypeOK, Written
        <4>2. /\ tool'[t].at = "forget"
              /\ previous' = transaction.previous
              /\ UNCHANGED <<current, transaction>>
          BY <3>3, GoFacts DEF RestorePrevious, Restored, Steps
        <4>3. Pointers' = transaction'
          BY <4>1, <4>2 DEF Pointers, Pairs
        <4>4. QED
          BY <4>2, <4>3 DEF Written
      <3>4. CASE Forget(t)
        <4>1. tool'[t].at \in Continuations
          BY <2>2, <3>4, GoFacts DEF Forget, Steps, Continuations
        <4>2. QED
          BY <4>1 DEF Continuations, Written
      <3>5. CASE Read(t)
        BY <3>5, GoFacts, ReadFacts
        DEF Read, files, Steps, Written, Pointers
      <3>6. CASE Record(t)
        BY <2>1, <3>6, GoFacts DEF Record, Steps, Written, Pointers
      <3>7. CASE WritePrevious(t)
        BY <2>1, <3>7, GoFacts
        DEF WritePrevious, NewPrevious, Steps, Written
      <3>8. CASE WriteCurrent(t)
        BY <2>1, <3>8, GoFacts
        DEF WriteCurrent, NewPrevious, NewCurrent, Steps, Written
      <3>9. CASE Commit(t)
        BY <2>1, <3>9, GoFacts
        DEF Commit, NewPrevious, NewCurrent, Steps, Written
      <3>10. CASE Finish(t)
        BY <2>1, <2>2, <3>10, GoFacts
        DEF Finish, files, NewPrevious, NewCurrent, Steps, Written
      <3>11. QED
        BY <1>2, <3>1, <3>2, <3>3, <3>4, <3>5, <3>6, <3>7, <3>8, <3>9, <3>10
        DEF Works
    <2>4. \A u \in Tools \ {t} : Written(u)'
      BY <1>2, OthersOff DEF Written
    <2>5. QED
      BY <2>3, <2>4
  <1>3. ASSUME NEW t \in Tools, Leave(t) \/ Crash(t)
        PROVE  \A u \in Tools : Written(u)'
    BY <1>3, NoneRuns DEF Written
  <1>4. CASE Stage \/ Replace
    <2>1. \A u \in Tools : tool'[u].at = "off"
      BY <1>4 DEF Stage, Replace, ToolRuns, Running
    <2>2. QED
      BY <2>1 DEF Written
  <1>5. CASE GiveUp \/ UNCHANGED vars
    BY <1>5 DEF GiveUp, files, vars, WrittenByAll, Written, Pointers,
                NewPrevious, NewCurrent
  <1>6. QED
    BY <1>1, <1>2, <1>3, <1>4, <1>5, NextSteps

LEMMA NextInstalled == Inv /\ [Next]_vars => Installed'
  <1> SUFFICES ASSUME Inv, [Next]_vars PROVE Installed'
    OBVIOUS
  <1> USE DEF Inv, Installed, PointersAreInstalled
  <1>1. ASSUME NEW t \in Tools, NEW c \in Commands, NEW v \in Versions,
               Start(t, c, v)
        PROVE  Installed'
    <2>1. /\ tool'[t].at = IF c = "install" THEN "fetch" ELSE "enter"
          /\ tool'[t].command = c
          /\ tool'[t].pair = [current |-> Seed, previous |-> None]
          /\ \A u \in Tools \ {t} : tool'[u] = tool[u]
      BY <1>1, StartFacts
    <2>2. UNCHANGED <<current, previous, transaction, versions, staged>>
      BY <1>1 DEF Start
    <2>3. QED
      BY <2>1, <2>2
  <1>2. ASSUME NEW t \in Tools, Works(t) PROVE Installed'
    <2>1. /\ tool[t] \in Tool
          /\ tool[t].then \in Continuations
          /\ tool[t].undo \in BOOLEAN
          /\ tool[t].command \in Commands
      BY DEF TypeOK, Tool
    <2>2. versions \subseteq versions'
      BY <1>2 DEF Works, Fetch, Settle, NothingToRecover, Recover,
         RestoreCurrent, RestorePrevious, Forget, Look, Read, Record,
         WritePrevious, WriteCurrent, Commit, Finish, Fault, files,
         WithVersion
    <2>3. /\ tool'[t].pair.current \in versions
          /\ tool'[t].pair.previous \in versions \union {None}
      BY <1>2, WorksFacts DEF Going, Pointers
    <2>4. tool'[t].at \in {"settle", "failed"} \/ Settle(t)
            \/ tool[t].at \notin {"off", "fetch", "settle", "failed"}
      BY <1>2, GoFacts
      DEF Works, Fetch, NothingToRecover, Recover, RestoreCurrent,
          RestorePrevious, Forget, Look, Read, Record, WritePrevious,
          WriteCurrent, Commit, Finish, Fault, Steps
    <2>5. Settle(t) => tool[t].manifest \in versions'
      BY DEF Settle, WithVersion
    <2>6. tool[t].command = "install"
            /\ tool'[t].at \notin {"off", "fetch", "settle", "failed"}
            => tool[t].manifest \in versions'
      BY <2>2, <2>4, <2>5
    <2>7. /\ current' \in versions
          /\ previous' \in versions \union {None}
          /\ transaction' # None =>
               /\ transaction'.current \in versions
               /\ transaction'.previous \in versions \union {None}
      <3>1. CASE RestoreCurrent(t) \/ RestorePrevious(t)
        BY <3>1 DEF RestoreCurrent, RestorePrevious, Restored, Journal,
                    Restoring
      <3>2. CASE Record(t)
        BY <3>2 DEF Record
      <3>3. CASE WritePrevious(t)
        BY <3>3 DEF WritePrevious, NewPrevious
      <3>4. CASE WriteCurrent(t)
        <4>1. NewCurrent(t) \in versions
          BY <2>1, <3>4 DEF WriteCurrent, NewCurrent, Targets, Begun,
                            Writing, Commands
        <4>2. QED
          BY <3>4, <4>1 DEF WriteCurrent
      <3>5. CASE Forget(t) \/ Commit(t) \/ Settle(t)
        BY <3>5 DEF Forget, Commit, Settle
      <3>6. CASE \/ Fetch(t) \/ NothingToRecover(t) \/ Recover(t)
                 \/ Look(t) \/ Read(t) \/ Finish(t) \/ Fault(t)
        BY <3>6 DEF Fetch, NothingToRecover, Recover, Look, Read, Finish,
                    Fault, files
      <3>7. QED
        BY <1>2, <3>1, <3>2, <3>3, <3>4, <3>5, <3>6 DEF Works
    <2>8. /\ UNCHANGED staged
          /\ tool'[t].command = tool[t].command
          /\ tool'[t].manifest = tool[t].manifest
          /\ \A u \in Tools \ {t} : tool'[u] = tool[u]
      BY <1>2, WorksFacts DEF Going
    <2>9. \A u \in Tools \ {t} : tool'[u].at = "off"
      BY <1>2, OthersOff
    <2>10. QED
      BY <2>2, <2>3, <2>6, <2>7, <2>8, <2>9
  <1>3. ASSUME NEW t \in Tools, Leave(t) \/ Crash(t) PROVE Installed'
    <2>1. /\ tool'[t].at = "off"
          /\ tool'[t].pair = [current |-> Seed, previous |-> None]
          /\ \A u \in Tools \ {t} : tool'[u] = tool[u]
      <3>1. tool' = [tool EXCEPT ![t] = Off]
        BY <1>3 DEF Leave, Crash
      <3>2. QED
        BY <3>1, OffFacts
    <2>2. UNCHANGED <<current, previous, transaction, versions, staged>>
      BY <1>3 DEF Leave, Crash, Quiet, files
    <2>3. QED
      BY <2>1, <2>2
  <1>4. CASE Stage
    BY <1>4 DEF Stage, files
  <1>5. CASE Replace
    BY <1>5 DEF Replace
  <1>6. CASE GiveUp \/ UNCHANGED vars
    BY <1>6 DEF GiveUp, files, vars
  <1>7. QED
    BY <1>1, <1>2, <1>3, <1>4, <1>5, <1>6, NextSteps

LEMMA NextSteady == Inv /\ [Next]_vars => Steady'
  <1> SUFFICES ASSUME Inv, [Next]_vars, staged' # None, ~overlap'
               PROVE  /\ ~ToolRuns'
                      /\ staged' = IF previous' # None THEN previous' ELSE Seed
    BY DEF Steady
  <1> USE DEF Inv
  <1>1. CASE \E t \in Tools, c \in Commands, v \in Versions : Start(t, c, v)
    BY <1>1 DEF Start
  <1>2. CASE \E t \in Tools : Works(t) \/ Leave(t) \/ Crash(t)
    <2>1. PICK t \in Tools : Works(t) \/ Leave(t) \/ Crash(t)
      BY <1>2
    <2>2. Running(t) /\ UNCHANGED <<staged, overlap>>
      BY <2>1, WorksFacts DEF Going, Leave, Crash, Quiet, Running
    <2>3. QED
      BY <2>2 DEF Steady, ToolRuns
  <1>3. CASE Stage
    <2>1. previous \in versions <=> previous # None
      BY PointersAssumption DEF Installed, PointersAreInstalled, TypeOK
    <2>2. QED
      BY <1>3, <2>1 DEF Stage, files, ToolRuns, Running
  <1>4. CASE Replace \/ GiveUp
    BY <1>4 DEF Replace, GiveUp
  <1>5. CASE UNCHANGED vars
    BY <1>5 DEF vars, Steady, ToolRuns, Running
  <1>6. QED
    BY <1>1, <1>2, <1>3, <1>4, <1>5, NextSteps

LEMMA Invariance == Spec => []Inv
  <1>1. Inv /\ [Next]_vars => Inv'
    BY NextTyped, NextAlone, NextJournal, NextTargets, NextWritten,
       NextInstalled, NextSteady
    DEF Inv
  <1>2. QED
    BY <1>1, InitInv, PTL DEF Spec

-----------------------------------------------------------------------------
(* Theorems. *)

\* The variables keep to their types.
THEOREM TypeCorrect == Spec => []TypeOK
  BY Invariance, PTL DEF Inv

\* Whatever fails, dies or overlaps, the pointers and the journal name
\* installed Runtimes only.
THEOREM PointersInstalled == Spec => []PointersAreInstalled
  BY Invariance, PTL DEF Inv, Installed

\* While a tool replaces the pointers, one of them names the Runtime that was
\* current.
THEOREM KnownGoodNamed == Spec => []KnownGoodIsNamed
  <1>1. Inv => KnownGoodIsNamed
    BY DEF Inv, WrittenByAll, Written, Pointers, NewPrevious, KnownGoodIsNamed
  <1>2. QED
    BY <1>1, Invariance, PTL

\* A tool that reports success has made its Runtime the current one and kept
\* the one before it.
THEOREM SuccessActive == Spec => []SuccessIsActive
  <1>1. Inv => SuccessIsActive
    BY DEF Inv, Journal, Settled, WrittenByAll, Written, NewPrevious, View,
           Pointers, SuccessIsActive
  <1>2. QED
    BY <1>1, Invariance, PTL

-----------------------------------------------------------------------------
(* Refinement: what the users of the pointers see is one pair. *)

LEMMA ViewTyped ==
    ASSUME TypeOK
    PROVE  /\ View.current \in Versions
           /\ View.previous \in Versions \union {None}
  BY DEF TypeOK, View, Pointers, Pairs

LEMMA UnderwayKept ==
    ASSUME Inv, NEW t \in Tools, Works(t)
    PROVE  Underway' = Underway
  BY WorksFacts DEF Inv, Going, Underway, Running

LEMMA InitPair == Init => Pair!Init
  BY DEF Init, Pair!Init, View, Pointers, Underway, Running, Off

LEMMA WorksPair ==
    ASSUME Inv, NEW t \in Tools, Works(t), ~overlap
    PROVE  \/ View' = View
           \/ /\ tool[t].command = "install"
              /\ View' = [current |-> tool[t].manifest,
                          previous |-> View.current]
           \/ /\ tool[t].command = "rollback"
              /\ View.previous # None
              /\ View' = [current |-> View.previous,
                          previous |-> View.current]
  <1> USE DEF Inv
  <1>1. Written(t) /\ tool[t] \in Tool
    BY DEF WrittenByAll, TypeOK
  <1>2. CASE \/ Fetch(t) \/ Settle(t) \/ NothingToRecover(t) \/ Recover(t)
             \/ Look(t) \/ Read(t) \/ Finish(t) \/ Fault(t)
    BY <1>2 DEF Fetch, Settle, NothingToRecover, Recover, Look, Read, Finish,
                Fault, files, View, Pointers
  <1>3. CASE RestoreCurrent(t) \/ RestorePrevious(t)
    BY <1>3 DEF RestoreCurrent, RestorePrevious, Journal, Restoring, View
  <1>4. CASE Forget(t)
    BY <1>1, <1>4 DEF Forget, Journal, Restoring, Written, View, Pointers
  <1>5. CASE Record(t)
    <2>1. tool[t].pair # None
      BY <1>1, PointersAssumption DEF Tool
    <2>2. QED
      BY <1>1, <1>5, <2>1 DEF Record, Journal, Settled, Written, View, Pointers
  <1>6. CASE WritePrevious(t) \/ WriteCurrent(t)
    <2>1. tool[t].pair # None
      BY <1>1, PointersAssumption DEF Tool
    <2>2. QED
      BY <1>6, <2>1 DEF WritePrevious, WriteCurrent, Journal, Writing, View
  <1>7. CASE Commit(t)
    <2>1. tool[t].pair # None /\ tool[t].command \in Commands
      BY <1>1, PointersAssumption DEF Tool
    <2>2. View = tool[t].pair
      BY <1>7, <2>1 DEF Commit, Journal, Writing, View
    <2>3. View' = [current |-> NewCurrent(t), previous |-> NewPrevious(t)]
      BY <1>1, <1>7 DEF Commit, Written, View, Pointers
    <2>4. tool[t].command = "rollback" => tool[t].pair.previous # None
      BY <1>7 DEF Commit, Targets, Begun, Writing
    <2>5. QED
      BY <2>1, <2>2, <2>3, <2>4 DEF NewCurrent, NewPrevious, Commands
  <1>8. QED
    BY <1>2, <1>3, <1>4, <1>5, <1>6, <1>7 DEF Works

LEMMA NextPair == Inv /\ Inv' /\ [Next]_vars => [Pair!Next]_(Pair!vars)
  <1> SUFFICES ASSUME Inv, Inv', [Next]_vars
               PROVE  [Pair!Next]_(Pair!vars)
    OBVIOUS
  <1> USE DEF Inv
  <1>1. View.current \in Versions /\ View.previous \in Versions \union {None}
    BY ViewTyped
  <1>2. /\ View'.current \in Versions
        /\ View'.previous \in Versions \union {None}
    BY DEF TypeOK, View, Pointers, Pairs
  <1>3. Underway' \in SUBSET Pair!Changes
    BY DEF TypeOK, Underway, Tool, Pair!Changes
  <1>4. overlap \in BOOLEAN /\ overlap' \in BOOLEAN
    BY DEF TypeOK
  <1>5. CASE overlap'
    BY <1>2, <1>3, <1>5 DEF Pair!Next, Pair!Disturb
  <1>6. CASE ~overlap'
    <2>1. ~overlap
      <3>1. ASSUME NEW t \in Tools, Works(t) PROVE ~overlap
        BY <1>6, <3>1, WorksFacts DEF Going
      <3>2. QED
        BY <1>6, <3>1, NextSteps
        DEF Start, Leave, Crash, Stage, Replace, GiveUp, Quiet, vars
    <2>2. ASSUME View' = View PROVE [Pair!Next]_(Pair!vars)
      <3>1. overlap' = overlap
        BY <1>4, <1>6, <2>1
      <3>2. Pair!Ask
        BY <1>3, <2>2, <3>1 DEF Pair!Ask
      <3>3. QED
        BY <3>2 DEF Pair!Next
    <2>3. CASE \E t \in Tools, c \in Commands, v \in Versions : Start(t, c, v)
      <3>1. View' = View
        BY <2>3 DEF Start, View, Pointers
      <3>2. QED
        BY <2>2, <3>1
    <2>4. ASSUME NEW t \in Tools, Works(t) PROVE [Pair!Next]_(Pair!vars)
      <3>1. UNCHANGED <<overlap, Underway>>
        BY <2>4, WorksFacts, UnderwayKept DEF Going
      <3>2. (IF tool[t].command = "install" THEN tool[t].manifest ELSE None)
              \in Underway
        BY <2>4, WorksFacts DEF Going, Underway
      <3>3. tool[t].manifest \in Versions
        BY DEF TypeOK, Tool
      <3>4. CASE View' = View
        BY <2>2, <3>4
      <3>5. CASE /\ tool[t].command = "install"
                 /\ View' = [current |-> tool[t].manifest,
                             previous |-> View.current]
        <4>1. Pair!Promote(tool[t].manifest)
          BY <3>1, <3>2, <3>5 DEF Pair!Promote
        <4>2. QED
          BY <3>3, <4>1 DEF Pair!Next
      <3>6. CASE /\ tool[t].command = "rollback"
                 /\ View.previous # None
                 /\ View' = [current |-> View.previous,
                             previous |-> View.current]
        <4>1. Pair!Rollback
          BY <3>1, <3>2, <3>6 DEF Pair!Rollback
        <4>2. QED
          BY <4>1 DEF Pair!Next
      <3>7. QED
        BY <2>1, <2>4, <3>4, <3>5, <3>6, WorksPair
    <2>5. CASE \E t \in Tools : Leave(t) \/ Crash(t)
      <3>1. View' = View
        BY <2>5 DEF Leave, Crash, files, View, Pointers
      <3>2. QED
        BY <2>2, <3>1
    <2>6. CASE Stage \/ GiveUp \/ UNCHANGED vars
      <3>1. View' = View
        BY <2>6 DEF Stage, GiveUp, files, vars, View, Pointers
      <3>2. QED
        BY <2>2, <3>1
    <2>7. CASE Replace
      <3>1. UNCHANGED <<overlap, Underway>>
        BY <1>4, <1>6, <2>1, <2>7 DEF Replace, Underway, Running
      <3>2. CASE transaction # None
        <4>1. View' = View
          BY <2>7, <3>2 DEF Replace, View
        <4>2. QED
          BY <2>2, <4>1
      <3>3. CASE transaction = None
        <4>1. staged = IF previous # None THEN previous ELSE Seed
          BY <2>1, <2>7 DEF Replace, Steady
        <4>2. /\ View = [current |-> current, previous |-> previous]
              /\ View' = [current |-> staged, previous |-> previous]
          BY <2>7, <3>3 DEF Replace, View, Pointers
        <4>3. Pair!Recover
          BY <3>1, <4>1, <4>2 DEF Pair!Recover
        <4>4. QED
          BY <4>3 DEF Pair!Next
      <3>4. QED
        BY <3>2, <3>3
    <2>8. QED
      BY <2>3, <2>4, <2>5, <2>6, <2>7, NextSteps
  <1>7. QED
    BY <1>5, <1>6

\* The files, the journal and the lock implement one pair that changes in one
\* step, and only as it is asked to.
THEOREM Refinement == Spec => PointersAreAtomic
  <1>1. Spec => Pair!Init /\ [][Pair!Next]_(Pair!vars)
    BY InitPair, NextPair, Invariance, PTL DEF Spec
  <1>2. QED
    BY <1>1 DEF PointersAreAtomic, Pair!Spec

=============================================================================
