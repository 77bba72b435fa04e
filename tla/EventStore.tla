----------------------------- MODULE EventStore -----------------------------
(***************************************************************************)
(* The event store of the control plane (DurableEventStore in              *)
(* packages/remote-daemon/src/index.ts) and the start of its server.       *)
(*                                                                         *)
(* The last MaxEvents events are in memory.  An event is published at once *)
(* and queued to be written: the promise chain appends it to the log,      *)
(* writes the generation file and, when the log has become too long,       *)
(* replaces it by the events in memory that have been written.  The server *)
(* lives in the Harness process and ends with it at any moment.            *)
(*                                                                         *)
(* The generation a process would draw (a UUID) is named by the number of  *)
(* the process.  Lengths in events stand for the length in bytes that the  *)
(* code compares.  The jobs are those of one session.                      *)
(***************************************************************************)
EXTENDS FiniteSets, Naturals, Sequences

CONSTANTS
    Jobs,         \* jobs of the Harness
    MaxEvents,    \* options.maxEvents: events kept in memory
    MaxLog,       \* options.maxFileBytes, in events
    PageLimit,    \* the limit of list() and page()
    MaxSequence,  \* bound: the last sequence number a running server gives
    MaxProcesses, \* bound: starts of the server
    MaxFaults     \* bound: file operations that fail

ASSUME StoreAssumption ==
    /\ IsFiniteSet(Jobs)
    /\ MaxEvents \in Nat \ {0}
    /\ PageLimit \in Nat \ {0}
    /\ {MaxLog, MaxSequence, MaxProcesses, MaxFaults} \subseteq Nat

VARIABLES
    process,        \* number of the process that runs, or ran last
    up,             \* the server runs
    generation,     \* this.generation, or NoGeneration
    events,         \* this.events
    sequence,       \* this.sequence
    writes,         \* the events the write chain has yet to finish
    writing,        \* what the chain does next with the first of them
    log,            \* the log file
    generationFile, \* the generation file, or NoGeneration
    job,            \* per job: what the Harness knows of it
    faults,         \* failures so far
    lost            \* history: published events were lost with a process, and
                    \* their numbers will be given again

memory == <<generation, events, sequence>>
files == <<log, generationFile>>
storeVars == <<process, up, generation, events, sequence, writes, writing,
               log, generationFile, job, faults, lost>>

-----------------------------------------------------------------------------
(* Data. *)

NoGeneration == 0
Generations == 1..MaxProcesses

Statuses == {"running", "done", "interrupted"}

\* What an event says of jobs: their statuses, or nothing.
Reports == UNION {[S -> Statuses] : S \in SUBSET Jobs}
NoReport == [j \in {} |-> "done"]

Events == [seq : Nat, generation : Generations, report : Reports]

FirstOf(s, n) == SubSeq(s, 1, IF Len(s) < n THEN Len(s) ELSE n)
LastOf(s, n) == SubSeq(s, IF Len(s) < n THEN 1 ELSE Len(s) - n + 1, Len(s))

InSeq(e, s) == \E i \in DOMAIN s : s[i] = e

LastSeq(s) == IF s = <<>> THEN 0 ELSE s[Len(s)].seq

\* How many events of a sequence are numbered up to n.  They are the first of
\* it, since the numbers increase: a filter cuts the sequence there.
CountUpTo(s, n) ==
    CHOOSE k \in 0..Len(s) : \A i \in DOMAIN s : s[i].seq <= n <=> i <= k

UpTo(s, n) == SubSeq(s, 1, CountUpTo(s, n))
Beyond(s, n) == SubSeq(s, CountUpTo(s, n) + 1, Len(s))

\* While there are too many events, the first is dropped.
Kept(s) == LastOf(s, MaxEvents)

StoreTypeOK ==
    /\ process \in 0..MaxProcesses
    /\ up \in BOOLEAN
    /\ generation \in Generations \union {NoGeneration}
    /\ events \in Seq(Events)
    /\ Len(events) <= MaxEvents
    /\ sequence \in Nat
    /\ writes \in Seq(Events)
    /\ writing \in {"line", "generation", "compact", "failed"}
    /\ log \in Seq(Events)
    /\ generationFile \in Generations \union {NoGeneration}
    /\ job \in [Jobs -> {"new", "running", "done", "gone"}]
    /\ faults \in 0..MaxFaults
    /\ lost \in BOOLEAN

StoreInit ==
    /\ process = 0
    /\ up = FALSE
    /\ generation = NoGeneration
    /\ events = <<>>
    /\ sequence = 0
    /\ writes = <<>>
    /\ writing = "line"
    /\ log = <<>>
    /\ generationFile = NoGeneration
    /\ job = [j \in Jobs |-> "new"]
    /\ faults = 0
    /\ lost = FALSE

-----------------------------------------------------------------------------
(* Reading. *)

\* list(after): the first events after a cursor.
List(after) == FirstOf(Beyond(events, after), PageLimit)

OldestSeq == IF events = <<>> THEN sequence + 1 ELSE events[1].seq

\* page(after, 500, of): the cursor is of no use if it belongs to another
\* generation or if events after it have been dropped.
ResetRequired(after, of) ==
    \/ of # NoGeneration /\ of # generation
    \/ after > 0 /\ after + 1 < OldestSeq

-----------------------------------------------------------------------------
(* Publishing and writing. *)

\* Events with these reports, numbered from n on.
Numbered(reports, g, n) ==
    [i \in DOMAIN reports |->
        [seq |-> n + i, generation |-> g, report |-> reports[i]]]

Publish(report) ==
    LET new == Numbered(<<report>>, generation, sequence) IN
    /\ up
    /\ sequence < MaxSequence
    /\ events' = Kept(events \o new)
    /\ sequence' = sequence + 1
    /\ writes' = writes \o new
    /\ UNCHANGED <<process, up, generation, writing, files, faults, lost>>

\* An event that says nothing of jobs; server.disconnected is one of them.
PublishOther == Publish(NoReport) /\ UNCHANGED job

\* What the Harness tells of its jobs whenever one begins or ends.
JobReport(now) ==
    [j \in {k \in Jobs : now[k] \in {"running", "done"}} |-> now[j]]

JobStep(j) ==
    /\ \/ job[j] = "new" /\ job' = [job EXCEPT ![j] = "running"]
       \/ job[j] = "running" /\ job' = [job EXCEPT ![j] = "done"]
    /\ Publish(JobReport(job'))

WriteLine ==
    /\ writes # <<>>
    /\ writing = "line"
    /\ log' = Append(log, Head(writes))
    /\ writing' = "generation"
    /\ UNCHANGED <<process, up, memory, writes, generationFile, job, faults,
                   lost>>

WriteGeneration ==
    /\ writes # <<>>
    /\ writing = "generation"
    /\ generationFile' = generation
    /\ writing' = "compact"
    /\ UNCHANGED <<process, up, memory, writes, log, job, faults, lost>>

\* Mutants: the filter lets later events pass, or not the one just written.
WrittenUpToLater(max) == events
WrittenUpToEarlier(max) == UpTo(events, max - 1)

\* The events in memory up to the one just written: later ones will be
\* appended by later links of the chain.
WrittenUpTo(max) == UpTo(events, max)

\* compactIfNeeded: the log is replaced in one step, by a rename.
Compact ==
    /\ writes # <<>>
    /\ writing = "compact"
    /\ log' = IF Len(log) > MaxLog
              THEN LastOf(WrittenUpTo(Head(writes).seq), MaxEvents)
              ELSE log
    /\ writes' = Tail(writes)
    /\ writing' = "line"
    /\ UNCHANGED <<process, up, memory, generationFile, job, faults, lost>>

\* A link of the chain fails, and with it every later one: nothing is written
\* any more, while events are still published.
WriteFails ==
    /\ writes # <<>>
    /\ writing # "failed"
    /\ faults < MaxFaults
    /\ faults' = faults + 1
    /\ writing' = "failed"
    /\ UNCHANGED <<process, up, memory, writes, files, job, lost>>

-----------------------------------------------------------------------------
(* The process. *)

\* Crash, kill, or an orderly end after all has been written.
ProcessEnds ==
    /\ up
    /\ up' = FALSE
    /\ lost' = (lost \/ /\ LastSeq(log) < sequence
                        /\ generationFile # NoGeneration \/ log # <<>>)
    /\ generation' = NoGeneration
    /\ events' = <<>>
    /\ sequence' = 0
    /\ writes' = <<>>
    /\ writing' = "line"
    /\ job' = [j \in Jobs |-> IF job[j] = "new" THEN "new" ELSE "gone"]
    /\ UNCHANGED <<process, files, faults>>

\* The latest status of a job in a sequence of events, if there is one.
Reported(j, s) ==
    LET about == {i \in DOMAIN s : j \in DOMAIN s[i].report}
    IN  IF about = {} THEN "none"
        ELSE s[CHOOSE i \in about : \A k \in about : k <= i].report[j]

\* hydrateStaleJobs: what it finds running it reports as interrupted, once
\* for all and once for each.
Hydration(loaded) ==
    LET stale == {j \in Jobs :
                    Reported(j, FirstOf(loaded, PageLimit)) = "running"}
    IN  IF stale = {} THEN <<>>
        ELSE <<[j \in stale |-> "interrupted"]>>
               \o [i \in 1..Cardinality(stale) |-> NoReport]

\* load refuses a log whose numbers do not increase.
Readable(s) == \A i, j \in DOMAIN s : i < j => s[i].seq < s[j].seq

\* load, then the hydration, then server.connected.
Start ==
    LET loaded == Kept(log)
        g == IF generationFile # NoGeneration THEN generationFile
             ELSE IF loaded # <<>> THEN loaded[1].generation
             ELSE process + 1
        new == Numbered(Hydration(loaded) \o <<NoReport>>, g, LastSeq(log))
    IN
    /\ ~up
    /\ process < MaxProcesses
    /\ Readable(log)
    /\ up' = TRUE
    /\ process' = process + 1
    /\ generation' = g
    /\ events' = Kept(loaded \o new)
    /\ sequence' = LastSeq(log) + Len(new)
    /\ log' = IF Len(log) > MaxLog THEN loaded ELSE log
    /\ writes' = new
    /\ UNCHANGED <<writing, generationFile, job, faults, lost>>

-----------------------------------------------------------------------------
\* Steps that publish nothing.
Background ==
    WriteLine \/ WriteGeneration \/ Compact \/ WriteFails

StoreNext ==
    \/ Start \/ ProcessEnds \/ Background
    \/ PublishOther \/ \E j \in Jobs : JobStep(j)

StoreSpec == StoreInit /\ [][StoreNext]_storeVars

-----------------------------------------------------------------------------
(* Properties. *)

\* The log can always be loaded again, and neither it nor the memory skips a
\* number: page() notices missing events only before the oldest it has.
NoHoles ==
    \A s \in {log, events} :
        \A i \in 1..(Len(s) - 1) : s[i + 1].seq = s[i].seq + 1

\* Whatever is in memory and no longer waits to be written is in the log: no
\* compaction loses it, however many events were published meanwhile.
WrittenIsKept ==
    \A i \in DOMAIN events :
        InSeq(events[i], writes) \/ InSeq(events[i], log)

\* "so the remote UI never shows a permanently running task": a job that the
\* events report as running is running.
NoJobStaysRunning ==
    up => \A j \in Jobs : Reported(j, events) = "running"
                            => job[j] = "running"
=============================================================================
