-------------------------- MODULE RuntimePointers --------------------------
(***************************************************************************)
(* The Runtime pointer files and the processes that change them            *)
(* (packages/desktop-host/src/index.ts and runtime-cli.ts, and the         *)
(* recovery in apps/desktop/src-tauri/src/lib.rs).                         *)
(*                                                                         *)
(* current.json and previous.json are replaced one after the other.  The   *)
(* runtime tool - one process per install or rollback - records both in a  *)
(* journal first, pointers.transaction.json, and whoever next uses the     *)
(* pointers puts a recorded pair back.  A lock file keeps tools apart: it  *)
(* is removed when a tool returns, not when it dies.  The desktop, when a  *)
(* Runtime does not start, writes current.json itself and knows neither    *)
(* the journal nor the lock; a tool may be running then, because it has    *)
(* outlived its desktop or because the startup thread starts a Harness     *)
(* while a command runs the tool.                                          *)
(*                                                                         *)
(* A file is replaced by a rename, in one step.  Only the tool that holds  *)
(* the lock touches the journal, so its steps read it in place.            *)
(***************************************************************************)
EXTENDS Naturals

CONSTANTS
    Tools,      \* processes that may run the runtime tool
    Versions,   \* Runtimes
    Seed,       \* the Runtime bundled with the application
    None,       \* no Runtime, no journal
    MaxFaults,  \* bound: downloads, smoke tests and file operations that fail
    MaxCrashes  \* bound: tools that die

Pairs == [current : Versions, previous : Versions \union {None}]

ASSUME PointersAssumption ==
    /\ Seed \in Versions
    /\ None \notin Versions \union Pairs
    /\ MaxFaults \in Nat
    /\ MaxCrashes \in Nat

VARIABLES
    current,     \* current.json
    previous,    \* previous.json
    transaction, \* the journal: the pair to restore, or None
    updateLock,  \* the lock file exists
    versions,    \* Runtimes under versions/, each put there after its smoke
                 \* test
    tool,        \* per process: its place in the runtime tool
    staged,      \* what the desktop is about to make current, or None
    faults,      \* failures so far
    crashes,     \* tools that have died so far
    overlap      \* history: a recovery of the desktop and a tool overlapped

files == <<current, previous, transaction, updateLock, versions>>

vars == <<current, previous, transaction, updateLock, versions, tool, staged,
          faults, crashes, overlap>>

-----------------------------------------------------------------------------
(* Data. *)

Pointers == [current |-> current, previous |-> previous]

Commands == {"install", "rollback"}

Steps == {"off", "fetch", "settle", "enter", "restoreCurrent",
          "restorePrevious", "forget", "look", "read", "record",
          "writePrevious", "writeCurrent", "commit", "committed", "done",
          "failed"}

\* Where recoverInterruptedTransaction returns to.
Continuations == {"look", "read", "failed"}

\* undo: the tool is taking a rollback back and will fail.
Tool == [at : Steps, command : Commands, manifest : Versions,
         then : Continuations, pair : Pairs, undo : BOOLEAN]

Off == [at |-> "off", command |-> "install", manifest |-> Seed,
        then |-> "failed", pair |-> [current |-> Seed, previous |-> None],
        undo |-> FALSE]

TypeOK ==
    /\ current \in Versions
    /\ previous \in Versions \union {None}
    /\ transaction \in Pairs \union {None}
    /\ updateLock \in BOOLEAN
    /\ versions \subseteq Versions
    /\ tool \in [Tools -> Tool]
    /\ staged \in Versions \union {None}
    /\ faults \in 0..MaxFaults
    /\ crashes \in 0..MaxCrashes
    /\ overlap \in BOOLEAN

Running(t) == tool[t].at # "off"

ToolRuns == \E t \in Tools : Running(t)

\* The desktop seeds its files before anything else (app_paths).
Init ==
    /\ current = Seed
    /\ previous = None
    /\ transaction = None
    /\ updateLock = FALSE
    /\ versions = {Seed}
    /\ tool = [t \in Tools |-> Off]
    /\ staged = None
    /\ faults = 0
    /\ crashes = 0
    /\ overlap = FALSE

Go(t, step) == tool' = [tool EXCEPT ![t].at = step]

\* recoverInterruptedTransaction is called.
Enter(t, next, isUndo) ==
    tool' = [tool EXCEPT ![t].at = "enter", ![t].then = next,
                         ![t].undo = isUndo]

Quiet == UNCHANGED <<staged, faults, crashes, overlap>>

-----------------------------------------------------------------------------
(* main and withUpdateLock. *)

LockIsFree == ~updateLock

\* A tool that finds the lock file ends at once.
Start(t, command, v) ==
    /\ ~Running(t)
    /\ LockIsFree
    /\ updateLock' = TRUE
    /\ tool' = [tool EXCEPT ![t] =
                  [Off EXCEPT !.at = IF command = "install" THEN "fetch"
                                     ELSE "enter",
                              !.command = command, !.manifest = v,
                              !.then = "look"]]
    /\ overlap' = (overlap \/ staged # None)
    /\ UNCHANGED <<current, previous, transaction, versions, staged, faults,
                   crashes>>

\* The command returns, well or not: the lock file is removed.
Leave(t) ==
    /\ tool[t].at \in {"done", "failed"}
    /\ updateLock' = FALSE
    /\ tool' = [tool EXCEPT ![t] = Off]
    /\ UNCHANGED <<current, previous, transaction, versions>>
    /\ Quiet

-----------------------------------------------------------------------------
(* downloadAndInstallRuntime, up to the pointers. *)

\* Download, checks, extraction and smoke test in the staging directory.
Fetch(t) ==
    /\ tool[t].at = "fetch"
    /\ Go(t, "settle")
    /\ UNCHANGED files
    /\ Quiet

\* Mutant: the staging directory is not moved into place.
WithVersionMissing(v) == versions

WithVersion(v) == versions \union {v}

\* A Runtime that is already installed is smoke-tested and kept; otherwise the
\* staging directory becomes the Runtime.
Settle(t) ==
    /\ tool[t].at = "settle"
    /\ versions' = WithVersion(tool[t].manifest)
    /\ Enter(t, "read", FALSE)
    /\ UNCHANGED <<current, previous, transaction, updateLock>>
    /\ Quiet

-----------------------------------------------------------------------------
(* RuntimePointers: recoverInterruptedTransaction. *)

NothingToRecover(t) ==
    /\ tool[t].at = "enter"
    /\ transaction = None
    /\ Go(t, tool[t].then)
    /\ UNCHANGED files
    /\ Quiet

Recover(t) ==
    /\ tool[t].at = "enter"
    /\ transaction # None
    /\ Go(t, "restoreCurrent")
    /\ UNCHANGED files
    /\ Quiet

RestoreCurrent(t) ==
    /\ tool[t].at = "restoreCurrent"
    /\ current' = transaction.current
    /\ Go(t, "restorePrevious")
    /\ UNCHANGED <<previous, transaction, updateLock, versions>>
    /\ Quiet

\* Mutant: only the current Runtime is put back.
RestoredNotAtAll == previous

Restored == transaction.previous

RestorePrevious(t) ==
    /\ tool[t].at = "restorePrevious"
    /\ previous' = Restored
    /\ Go(t, "forget")
    /\ UNCHANGED <<current, transaction, updateLock, versions>>
    /\ Quiet

Forget(t) ==
    /\ tool[t].at = "forget"
    /\ transaction' = None
    /\ Go(t, tool[t].then)
    /\ UNCHANGED <<current, previous, updateLock, versions>>
    /\ Quiet

-----------------------------------------------------------------------------
(* RuntimePointers: promote and rollback. *)

HasTarget(t) == tool[t].command = "install" \/ previous # None

\* The rollback command looks for a previous Runtime and smoke-tests it.
Look(t) ==
    /\ tool[t].at = "look"
    /\ IF HasTarget(t) THEN Enter(t, "read", FALSE) ELSE Go(t, "failed")
    /\ UNCHANGED files
    /\ Quiet

Read(t) ==
    /\ tool[t].at = "read"
    /\ IF HasTarget(t)
       THEN tool' = [tool EXCEPT ![t].at = "record", ![t].pair = Pointers]
       ELSE Go(t, "failed")
    /\ UNCHANGED files
    /\ Quiet

Record(t) ==
    /\ tool[t].at = "record"
    /\ transaction' = tool[t].pair
    /\ Go(t, "writePrevious")
    /\ UNCHANGED <<current, previous, updateLock, versions>>
    /\ Quiet

\* Mutant: the older of the two Runtimes stays the previous one.
NewPreviousOld(t) == tool[t].pair.previous

NewPrevious(t) == tool[t].pair.current

WritePrevious(t) ==
    /\ tool[t].at = "writePrevious"
    /\ previous' = NewPrevious(t)
    /\ Go(t, "writeCurrent")
    /\ UNCHANGED <<current, transaction, updateLock, versions>>
    /\ Quiet

NewCurrent(t) == IF tool[t].command = "install" THEN tool[t].manifest
                 ELSE tool[t].pair.previous

WriteCurrent(t) ==
    /\ tool[t].at = "writeCurrent"
    /\ current' = NewCurrent(t)
    /\ Go(t, "commit")
    /\ UNCHANGED <<previous, transaction, updateLock, versions>>
    /\ Quiet

Commit(t) ==
    /\ tool[t].at = "commit"
    /\ transaction' = None
    /\ Go(t, "committed")
    /\ UNCHANGED <<current, previous, updateLock, versions>>
    /\ Quiet

\* The last journal entry of an install, or the smoke test after a rollback.
Finish(t) ==
    /\ tool[t].at = "committed"
    /\ Go(t, IF tool[t].undo THEN "failed" ELSE "done")
    /\ UNCHANGED files
    /\ Quiet

-----------------------------------------------------------------------------
(* What goes wrong: operations that fail, and tools that die. *)

Fault(t) ==
    /\ faults < MaxFaults
    /\ \/ /\ tool[t].at \in {"fetch", "settle", "enter", "restoreCurrent",
                             "restorePrevious", "forget", "look", "read",
                             "record"}
          /\ Go(t, "failed")
       \* Inside the try block: the recorded pair is put back.
       \/ /\ tool[t].at \in {"writePrevious", "writeCurrent", "commit"}
          /\ Enter(t, "failed", tool[t].undo)
       \* An install that cannot write its last journal entry fails although
       \* it has been committed; a rollback whose smoke test fails is taken
       \* back by a second one.
       \/ /\ tool[t].at = "committed"
          /\ ~tool[t].undo
          /\ IF tool[t].command = "install" THEN Go(t, "failed")
             ELSE Enter(t, "read", TRUE)
    /\ faults' = faults + 1
    /\ UNCHANGED files
    /\ UNCHANGED <<staged, crashes, overlap>>

\* The files stay as they are, the lock file among them.
Crash(t) ==
    /\ Running(t)
    /\ crashes < MaxCrashes
    /\ crashes' = crashes + 1
    /\ tool' = [tool EXCEPT ![t] = Off]
    /\ UNCHANGED files
    /\ UNCHANGED <<staged, faults, overlap>>

-----------------------------------------------------------------------------
(* The desktop: recover_previous_runtime and recover_embedded_runtime, when  *)
(* the current Runtime does not start.                                     *)

Stage ==
    /\ staged = None
    /\ staged' = IF previous \in versions THEN previous ELSE Seed
    /\ overlap' = (overlap \/ ToolRuns)
    /\ UNCHANGED files
    /\ UNCHANGED <<tool, faults, crashes>>

\* The previous Runtime comes by a rename, the embedded one by a copy
\* (recover_embedded_runtime), of which a torn file is not modelled.
Replace ==
    /\ staged # None
    /\ current' = staged
    /\ staged' = None
    /\ overlap' = (overlap \/ ToolRuns)
    /\ UNCHANGED <<previous, transaction, updateLock, versions, tool, faults,
                   crashes>>

\* The replacement fails, or the desktop ends before it.
GiveUp ==
    /\ staged # None
    /\ staged' = None
    /\ UNCHANGED files
    /\ UNCHANGED <<tool, faults, crashes, overlap>>

-----------------------------------------------------------------------------
\* A step of a tool at which nothing fails.
Proceed(t) ==
    \/ Fetch(t) \/ Settle(t)
    \/ NothingToRecover(t) \/ Recover(t)
    \/ RestoreCurrent(t) \/ RestorePrevious(t) \/ Forget(t)
    \/ Look(t) \/ Read(t) \/ Record(t)
    \/ WritePrevious(t) \/ WriteCurrent(t) \/ Commit(t)
    \/ Finish(t) \/ Leave(t)

Next ==
    \/ \E t \in Tools :
         \/ \E c \in Commands, v \in Versions : Start(t, c, v)
         \/ Proceed(t) \/ Fault(t) \/ Crash(t)
    \/ Stage \/ Replace \/ GiveUp

Spec == Init /\ [][Next]_vars

\* A tool gets on, and the user goes on asking for updates and rollbacks.
Fairness ==
    \A t \in Tools :
      /\ WF_vars(Proceed(t))
      /\ WF_vars(\E c \in Commands, v \in Versions : Start(t, c, v))

FairSpec == Spec /\ Fairness

-----------------------------------------------------------------------------
(* Properties. *)

\* The pointers and the journal name installed Runtimes only, at every moment a
\* tool may die at or the desktop may read them.
PointersAreInstalled ==
    /\ current \in versions
    /\ previous \in versions \union {None}
    /\ transaction # None =>
        /\ transaction.current \in versions
        /\ transaction.previous \in versions \union {None}

\* While a tool replaces the files, the Runtime that was current is still named
\* by one of them, so that the desktop, which knows no journal, can get back
\* to it if the tool dies.
KnownGoodIsNamed ==
    \A t \in Tools :
        tool[t].at \in {"writePrevious", "writeCurrent", "commit"} /\ ~overlap
          => tool[t].pair.current \in {current, previous}

\* What the users of RuntimePointers see: a recorded pair is put back before
\* anything is read.
View == IF transaction = None THEN Pointers ELSE transaction

\* A tool that reports success has done what was asked of it: its Runtime is
\* the current one and the one that was current is there to go back to.
SuccessIsActive ==
    \A t \in Tools :
        tool[t].at = "done" /\ ~overlap =>
            View = [current |-> NewCurrent(t),
                    previous |-> tool[t].pair.current]

\* What the running tools are asked for: a Runtime, or None for a rollback.
Underway == {IF tool[t].command = "install" THEN tool[t].manifest ELSE None :
               t \in {u \in Tools : Running(u)}}

\* The two files behave like one value that changes in one step: promoted or
\* rolled back by a tool that was asked to, or restored by the desktop, and
\* otherwise as it was, whatever fails or dies between the writes.
Pair == INSTANCE RuntimePair WITH
            cur <- View.current, prev <- View.previous,
            underway <- Underway, disturbed <- overlap

PointersAreAtomic == Pair!Spec

\* "recovers an interrupted pointer transaction before reading": as long as the
\* user goes on asking for updates or rollbacks, an interrupted transaction
\* is recovered.
InterruptedIsRecovered == transaction # None ~> transaction = None
=============================================================================
