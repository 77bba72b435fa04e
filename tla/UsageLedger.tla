---------------------------- MODULE UsageLedger ----------------------------
(***************************************************************************)
(* The ledger of token usage kept by the desktop plugin (recordUsage,      *)
(* startUsageRecorder and usageRoute in                                    *)
(* packages/dsh-plugin-desktop/src/index.ts).  A pump reads the mux stream *)
(* of the Harness, which after a reconnect delivers recent messages again, *)
(* and appends the usage of each to a file.  Nobody awaits an append.  The *)
(* last signature of each session, which is to keep a message from being   *)
(* counted twice, is read back from the file while the pump already runs.  *)
(* A signature is the record it was taken from.                            *)
(***************************************************************************)
EXTENDS Naturals, Sequences, SequencesExt

CONSTANTS
    Chats,       \* ids of sessions
    Figures,     \* usages of a message, 0 stands for one that is all zero
    DedupWindow, \* 1500 ms
    RetryDelay,  \* 2000 ms
    TickBound,   \* bound: the clock
    ReportBound, \* bound: messages of the Harness
    RecordBound, \* bound: records made
    RunBound     \* bound: restarts of the process

ASSUME UsageAssumption ==
    /\ Figures \subseteq Nat
    /\ DedupWindow \in Nat \ {0}
    /\ {RetryDelay, TickBound, ReportBound, RecordBound, RunBound}
         \subseteq Nat

VARIABLES
    tick,      \* Date.now()
    process,   \* history: restarts of the process
    reports,   \* messages the Harness has sent out
    feed,      \* the mux stream: where it is, its first and its next message,
               \* and when it delivered each (history)
    signature, \* usageLastSig: a record of each session, or 0
    hydration, \* reading the ledger back, and the lines that were read
    made,      \* history: the records made, in this order
    appending, \* appendFile calls under way
    failed,    \* history: records of this process whose append failed
    ledger     \* usage.jsonl: records by their place in made

usageVars == <<tick, process, reports, feed, signature, hydration, made,
               appending, failed, ledger>>

Report == [chat : Chats, figure : Figures]

Record == [of : 1..ReportBound, chat : Chats, figure : Figures,
           at : 0..TickBound, process : 0..RunBound, hydrated : BOOLEAN]

NoFeed == [at |-> "down", from |-> 1, next |-> 1, since |-> 0,
           heard |-> [n \in 1..ReportBound |-> 0]]

UsageTypeOK ==
    /\ tick \in 0..TickBound /\ process \in 0..RunBound
    /\ reports \in Seq(Report) /\ Len(reports) <= ReportBound
    /\ feed \in [at : {"down", "open", "waiting"},
                 from : 1..ReportBound + 1, next : 1..ReportBound + 1,
                 since : 0..TickBound,
                 heard : [1..ReportBound -> 0..TickBound]]
    /\ made \in Seq(Record) /\ Len(made) <= RecordBound
    /\ signature \in [Chats -> 0..Len(made)]
    /\ hydration \in [at : {"reading", "read", "done"},
                      lines : 0..Len(ledger)]
    /\ appending \subseteq 1..Len(made) /\ failed \subseteq 1..Len(made)
    /\ ledger \in Seq(1..Len(made))

UsageInit ==
    /\ tick = 0 /\ process = 0
    /\ reports = <<>> /\ made = <<>> /\ ledger = <<>>
    /\ appending = {} /\ failed = {}
    /\ feed = NoFeed
    /\ signature = [c \in Chats |-> 0]
    /\ hydration = [at |-> "reading", lines |-> 0]

-----------------------------------------------------------------------------
(* The Harness. *)

TimePasses ==
    /\ tick < TickBound
    /\ tick' = tick + 1
    /\ UNCHANGED <<process, reports, feed, signature, hydration, made,
                   appending, failed, ledger>>

\* An assistant/message with a usage.
HarnessReports(r) ==
    /\ Len(reports) < ReportBound
    /\ reports' = Append(reports, r)
    /\ UNCHANGED <<tick, process, feed, signature, hydration, made, appending,
                   failed, ledger>>

-----------------------------------------------------------------------------
(* The pump. *)

\* The stream delivers recent messages again, then the new ones.
Anywhere == 1..Len(reports) + 1

Resubscribe ==
    /\ feed.at = "down"
    /\ \E n \in Anywhere :
         feed' = [NoFeed EXCEPT !.at = "open", !.from = n, !.next = n]
    /\ UNCHANGED <<tick, process, reports, signature, hydration, made,
                   appending, failed, ledger>>

\* The stream ends, and is opened again at once.
FeedEnds ==
    /\ feed.at = "open"
    /\ feed' = NoFeed
    /\ UNCHANGED <<tick, process, reports, signature, hydration, made,
                   appending, failed, ledger>>

\* It fails: the pump waits for RetryDelay.
FeedFails ==
    /\ feed.at = "open"
    /\ feed' = [NoFeed EXCEPT !.at = "waiting", !.since = tick]
    /\ UNCHANGED <<tick, process, reports, signature, hydration, made,
                   appending, failed, ledger>>

RetryFeed ==
    /\ feed.at = "waiting" /\ tick - feed.since >= RetryDelay
    /\ feed' = NoFeed
    /\ UNCHANGED <<tick, process, reports, signature, hydration, made,
                   appending, failed, ledger>>

\* Mutant: any usage in the window counts as a repetition.
RepeatedAtAll(r) ==
    signature[r.chat] # 0 /\ tick - made[signature[r.chat]].at < DedupWindow

\* Mutant: the same figures, however long ago.
RepeatedEver(r) ==
    signature[r.chat] # 0 /\ made[signature[r.chat]].figure = r.figure

\* recordUsage: the same figures as the last of the session, and recently.
Repeated(r) ==
    /\ signature[r.chat] # 0
    /\ made[signature[r.chat]].figure = r.figure
    /\ tick - made[signature[r.chat]].at < DedupWindow

\* Mutant: the signature of the session stays as it is.
NotRemembered(c, i) == signature

Remembered(c, i) == [signature EXCEPT ![c] = i]

\* The signature is set before the append is known to succeed.
Deliver ==
    /\ feed.at = "open" /\ feed.next <= Len(reports)
    /\ feed' = [feed EXCEPT !.next = @ + 1, !.heard[feed.next] = tick]
    /\ LET r == reports[feed.next] IN
       IF r.figure = 0 \/ Repeated(r)
       THEN UNCHANGED <<signature, made, appending>>
       ELSE /\ Len(made) < RecordBound
            /\ made' = Append(made,
                 [of |-> feed.next, chat |-> r.chat, figure |-> r.figure,
                  at |-> tick, process |-> process,
                  hydrated |-> hydration.at = "done"])
            /\ signature' = Remembered(r.chat, Len(made) + 1)
            /\ appending' = appending \union {Len(made) + 1}
    /\ UNCHANGED <<tick, process, reports, hydration, failed, ledger>>

-----------------------------------------------------------------------------
(* The file. *)

\* Appends end in any order.
AppendLine(i) ==
    /\ i \in appending
    /\ appending' = appending \ {i}
    /\ ledger' = Append(ledger, i)
    /\ UNCHANGED <<tick, process, reports, feed, signature, hydration, made,
                   failed>>

\* The error is logged; the usage is lost, and the signature stays.
AppendLineFails(i) ==
    /\ i \in appending
    /\ appending' = appending \ {i}
    /\ failed' = failed \union {i}
    /\ UNCHANGED <<tick, process, reports, feed, signature, hydration, made,
                   ledger>>

ReadLedger ==
    /\ hydration.at = "reading"
    /\ hydration' = [at |-> "read", lines |-> Len(ledger)]
    /\ UNCHANGED <<tick, process, reports, feed, signature, made, appending,
                   failed, ledger>>

\* The lines of a session among those read.
LinesOf(c) == {k \in 1..hydration.lines : made[ledger[k]].chat = c}

LastLine(c) == CHOOSE k \in LinesOf(c) : \A l \in LinesOf(c) : l <= k

\* Each line overwrites what the map has of its session, be it newer.
Hydrate ==
    /\ hydration.at = "read"
    /\ hydration' = [hydration EXCEPT !.at = "done"]
    /\ signature' = [c \in Chats |->
         IF LinesOf(c) = {} THEN signature[c]
         ELSE ledger[LastLine(c)]]
    /\ UNCHANGED <<tick, process, reports, feed, made, appending, failed,
                   ledger>>

\* The Harness, and the plugin in it, is started again.
ProcessRestarts ==
    /\ process < RunBound
    /\ process' = process + 1
    /\ feed' = NoFeed
    /\ signature' = [c \in Chats |-> 0]
    /\ hydration' = [at |-> "reading", lines |-> 0]
    /\ appending' = {} /\ failed' = {}
    /\ UNCHANGED <<tick, reports, made, ledger>>

UsageNext ==
    \/ TimePasses \/ Resubscribe \/ FeedEnds \/ FeedFails \/ RetryFeed
    \/ Deliver \/ ReadLedger \/ Hydrate \/ ProcessRestarts
    \/ \E r \in Report : HarnessReports(r)
    \/ \E i \in appending : AppendLine(i) \/ AppendLineFails(i)

UsageSpec == UsageInit /\ [][UsageNext]_usageVars

-----------------------------------------------------------------------------
(* Totals. *)

SumOf(numbers) == FoldLeft(LAMBDA sum, n : sum + n, 0, numbers)

\* usageRoute: the sum over the records of the file, for the range of all
\* time.
UsageTotal == SumOf([k \in DOMAIN ledger |-> made[ledger[k]].figure])

\* What the messages of the Harness amount to.
Reported == SumOf([n \in DOMAIN reports |-> reports[n].figure])

-----------------------------------------------------------------------------
(* Properties. *)

\* Record i is the last of its session in what was read back.
LastRead(i) ==
    \E k \in LinesOf(made[i].chat) :
        ledger[k] = i /\ \A l \in LinesOf(made[i].chat) : l <= k

\* The map could know of record i when j was made: one process made both, with
\* no reading back of the ledger ending in between, or j was made in this
\* process after the ledger was read back and i was the last of its session
\* in it.
KnownTo(i, j) ==
    \/ /\ made[i].process = made[j].process
       /\ made[i].hydrated <=> made[j].hydrated
    \/ made[j].process = process /\ made[j].hydrated /\ LastRead(i)

\* A message is counted again only when the window has passed, except in the
\* cases recordUsage does not guard: another message of its session was
\* counted in between, or the map did not know of the first time, which is so
\* before the ledger has been read back after a restart, when the reading ends
\* between the two, and when what was read did not hold it or not as the last.
RecountIsLate ==
    \A i, j \in 1..Len(made) :
        /\ i < j /\ made[i].of = made[j].of
        /\ KnownTo(i, j)
        /\ \A k \in i + 1..j - 1 : made[k].chat # made[i].chat
        => made[j].at - made[i].at >= DedupWindow

\* The records that are in the file or on the way to it, or whose loss this
\* process has logged.
AccountedFor ==
    {ledger[k] : k \in DOMAIN ledger} \union appending \union failed

\* A message with a usage that the stream has delivered is in the file, or on
\* its way there, or its append has failed in this very process: by a record
\* made when it was delivered, or in the window before by one of its session
\* with the same figures (recordUsage).
DeliveredIsWritten ==
    \A n \in feed.from..feed.next - 1 :
        reports[n].figure # 0 =>
            \E i \in AccountedFor :
               /\ made[i].chat = reports[n].chat
               /\ made[i].figure = reports[n].figure
               /\ feed.heard[n] - made[i].at \in 0..DedupWindow - 1

\* The total over all time covers the messages of the Harness, once all have
\* been delivered and no append is under way or has failed, unless two of
\* them look alike (usageRoute).
TotalCoversReports ==
    /\ feed.from = 1 /\ feed.next = Len(reports) + 1
    /\ Len(ledger) = Len(made)
    /\ \A m, n \in 1..Len(reports) :
         reports[m] = reports[n] => m = n \/ reports[n].figure = 0
    => UsageTotal >= Reported

=============================================================================
