----------------------------- MODULE HostProofs -----------------------------
(***************************************************************************)
(* Proofs about the parts of the desktop: the usage ledger (UsageLedger),  *)
(* the stores of content (ContentStore), the bridge between the Harness    *)
(* and the devices (HarnessBridge) and the MCP servers (McpServers); and   *)
(* that in MCHost, where these and the parts of DaemonProofs,              *)
(* RelayPathProofs and ChildProcessProofs take turns, every part behaves   *)
(* as its own specification says, so that what is proved of the parts      *)
(* holds there.                                                            *)
(***************************************************************************)
EXTENDS MCHost, DaemonProofs, RelayPathProofs, ChildProcessProofs,
        SequenceTheorems, FiniteSetTheorems, WellFoundedInduction, TLAPS

-----------------------------------------------------------------------------
(* The ledger of usages. *)

LEMMA GreatestOf ==
    ASSUME NEW n \in Nat, NEW S \in SUBSET (1..n), S # {}
    PROVE  \E x \in S : \A y \in S : y <= x
  <1> DEFINE T == {n - x : x \in S}
  <1>0. \A x \in S : x \in 1..n /\ n - x \in Nat
    OBVIOUS
  <1>1. T \in SUBSET Nat /\ T # {}
    BY <1>0, Zenon
  <1> HIDE DEF T
  <1>2. PICK t \in T : \A u \in T : ~(<<u, t>> \in OpToRel(<, Nat))
    BY <1>1, NatLessThanWellFounded, WFMin
  <1>3. ASSUME NEW u \in T PROVE ~(u < t)
    <2>1. ~(<<u, t>> \in OpToRel(<, Nat))
      BY <1>2
    <2> QED
      BY <1>1, <2>1 DEF OpToRel
  <1>4. PICK x \in S : t = n - x
    BY DEF T
  <1>5. ASSUME NEW y \in S PROVE y <= x
    <2>1. n - y \in T
      BY DEF T
    <2>2. ~(n - y < n - x)
      BY <1>3, <1>4, <2>1
    <2> QED
      BY <2>2
  <1> QED
    BY <1>5

\* Where the stream is: never beyond the messages there are.
FeedPlaced ==
    /\ feed.from \in 1..Len(reports) + 1
    /\ feed.next \in 1..Len(reports) + 1

\* A record is of a message, and was made earlier.
MadeOf ==
    \A i \in 1..Len(made) :
        /\ made[i].of \in 1..Len(reports)
        /\ made[i].chat = reports[made[i].of].chat
        /\ made[i].figure = reports[made[i].of].figure
        /\ made[i].at <= tick
        /\ made[i].process <= process
        /\ made[i].process = process /\ made[i].hydrated
             => hydration.at = "done"

\* The map has to know of record i now.
KnownNow(i) ==
    \/ /\ made[i].process = process
       /\ made[i].hydrated <=> hydration.at = "done"
    \/ hydration.at = "done" /\ LastRead(i)

\* The signature of a session is a record of it that is accounted for: the
\* last one, if the map has to know of that one.
Signed ==
    /\ \A c \in Chats :
         signature[c] # 0 => /\ made[signature[c]].chat = c
                            /\ signature[c] \in AccountedFor
    /\ \A i \in 1..Len(made) :
         /\ KnownNow(i)
         /\ \A k \in i + 1..Len(made) : made[k].chat # made[i].chat
         => signature[made[i].chat] = i

Hearings == [1..ReportBound -> 0..TickBound]

Feeds == [at : {"down", "open", "waiting"},
          from : 1..ReportBound + 1, next : 1..ReportBound + 1,
          since : 0..TickBound, heard : Hearings]

UsageInv ==
    /\ UsageTypeOK /\ FeedPlaced /\ MadeOf /\ Signed
    /\ RecountIsLate /\ DeliveredIsWritten

LEMMA NoFeedType == NoFeed \in Feeds
  <1>1. 1 \in 1..ReportBound + 1 /\ 0 \in 0..TickBound
    BY UsageAssumption
  <1>2. [n \in 1..ReportBound |-> 0] \in Hearings
    BY <1>1 DEF Hearings
  <1> QED
    BY <1>1, <1>2 DEF NoFeed, Feeds

LEMMA UsageInitInv == UsageInit => UsageInv
  <1> SUFFICES ASSUME UsageInit PROVE UsageInv
    OBVIOUS
  <1>0. /\ made = <<>> /\ reports = <<>> /\ ledger = <<>> /\ Len(<<>>) = 0
        /\ 1..0 = {} /\ appending = {} /\ failed = {}
        /\ tick = 0 /\ process = 0
        /\ feed = NoFeed /\ signature = [c \in Chats |-> 0]
        /\ hydration = [at |-> "reading", lines |-> 0]
    BY DEF UsageInit
  <1>1. UsageTypeOK
    <2>1. feed \in Feeds
      BY <1>0, NoFeedType
    <2> QED
      BY <1>0, <2>1, UsageAssumption DEF UsageTypeOK, Feeds, Hearings
  <1>2. FeedPlaced /\ MadeOf
    BY <1>0 DEF FeedPlaced, MadeOf, NoFeed
  <1>3. Signed /\ RecountIsLate
    BY <1>0 DEF Signed, RecountIsLate
  <1>4. DeliveredIsWritten
    BY <1>0 DEF DeliveredIsWritten, NoFeed
  <1> QED
    BY <1>1, <1>2, <1>3, <1>4 DEF UsageInv

LEMMA MadeTypes ==
    ASSUME UsageTypeOK, NEW i \in 1..Len(made)
    PROVE  /\ made[i] \in Record
           /\ made[i].of \in Nat /\ made[i].at \in Nat
           /\ made[i].chat \in Chats /\ made[i].process \in Nat
           /\ made[i].hydrated \in BOOLEAN
  <1>1. made[i] \in Record
    <2>1. made \in Seq(Record)
      BY DEF UsageTypeOK
    <2> QED
      BY <2>1, ElementOfSeq
  <1>2. made[i].of \in 1..ReportBound /\ made[i].at \in 0..TickBound
        /\ made[i].process \in 0..RunBound /\ made[i].chat \in Chats
        /\ made[i].hydrated \in BOOLEAN
    BY <1>1 DEF Record
  <1> QED
    BY <1>1, <1>2, UsageAssumption

LEMMA UsageTypes ==
    ASSUME UsageInv
    PROVE  /\ UsageTypeOK /\ FeedPlaced /\ MadeOf /\ Signed
           /\ RecountIsLate /\ DeliveredIsWritten
           /\ made \in Seq(Record) /\ Len(made) \in Nat
           /\ ledger \in Seq(1..Len(made)) /\ Len(ledger) \in Nat
           /\ reports \in Seq(Report) /\ Len(reports) \in Nat
           /\ Len(reports) <= ReportBound
           /\ hydration \in [at : {"reading", "read", "done"},
                             lines : 0..Len(ledger)]
           /\ hydration.lines \in 0..Len(ledger)
           /\ signature \in [Chats -> 0..Len(made)]
           /\ appending \subseteq 1..Len(made) /\ failed \subseteq 1..Len(made)
           /\ feed \in Feeds
           /\ tick \in 0..TickBound /\ tick \in Nat
           /\ process \in 0..RunBound /\ process \in Nat
           /\ {DedupWindow, ReportBound, TickBound, RecordBound, RunBound}
                \subseteq Nat
           /\ DedupWindow # 0
  <1>1. /\ UsageTypeOK /\ FeedPlaced /\ MadeOf /\ Signed
        /\ RecountIsLate /\ DeliveredIsWritten
    BY DEF UsageInv
  <1>2. /\ made \in Seq(Record) /\ ledger \in Seq(1..Len(made))
        /\ reports \in Seq(Report) /\ Len(reports) <= ReportBound
        /\ hydration \in [at : {"reading", "read", "done"},
                          lines : 0..Len(ledger)]
        /\ signature \in [Chats -> 0..Len(made)]
        /\ appending \subseteq 1..Len(made) /\ failed \subseteq 1..Len(made)
        /\ feed \in Feeds
        /\ tick \in 0..TickBound /\ process \in 0..RunBound
    BY <1>1 DEF UsageTypeOK, Feeds, Hearings
  <1>3. /\ {DedupWindow, ReportBound, TickBound, RecordBound, RunBound}
             \subseteq Nat
        /\ DedupWindow # 0
    BY UsageAssumption
  <1>4. /\ Len(made) \in Nat /\ Len(ledger) \in Nat /\ Len(reports) \in Nat
        /\ hydration.lines \in 0..Len(ledger)
        /\ tick \in Nat /\ process \in Nat
    BY <1>2, <1>3
  <1> QED
    BY <1>1, <1>2, <1>3, <1>4

\* What is accounted for is a record.
LEMMA AccountedTypes ==
    UsageInv => AccountedFor \subseteq 1..Len(made)
  <1> SUFFICES ASSUME UsageInv PROVE AccountedFor \subseteq 1..Len(made)
    OBVIOUS
  <1>1. /\ ledger \in Seq(1..Len(made)) /\ appending \subseteq 1..Len(made)
        /\ failed \subseteq 1..Len(made)
    BY UsageTypes
  <1>2. \A k \in DOMAIN ledger : ledger[k] \in 1..Len(made)
    BY <1>1
  <1> QED
    BY <1>1, <1>2 DEF AccountedFor

\* The stream.
LEMMA FeedSteps ==
    ASSUME UsageInv,
           TimePasses \/ Resubscribe \/ FeedEnds \/ FeedFails \/ RetryFeed
    PROVE  UsageInv'
  <1>0. /\ UsageTypeOK /\ FeedPlaced /\ MadeOf /\ Signed
        /\ RecountIsLate /\ DeliveredIsWritten /\ feed \in Feeds
        /\ ReportBound \in Nat /\ TickBound \in Nat /\ Len(reports) \in Nat
        /\ Len(reports) <= ReportBound /\ tick \in 0..TickBound
    BY UsageTypes
  <1>1. /\ UNCHANGED <<process, reports, signature, hydration, made,
                       appending, failed, ledger>>
        /\ tick' \in 0..TickBound /\ tick <= tick'
    <2>1. CASE TimePasses
      BY <1>0, <2>1 DEF TimePasses
    <2>2. CASE ~TimePasses
      <3>1. UNCHANGED <<tick, process, reports, signature, hydration, made,
                        appending, failed, ledger>>
        BY <2>2 DEF Resubscribe, FeedEnds, FeedFails, RetryFeed
      <3> QED
        BY <1>0, <3>1
    <2> QED
      BY <2>1, <2>2
  <1>2. /\ feed' \in Feeds /\ FeedPlaced'
        /\ \/ UNCHANGED feed
           \/ feed'.from = feed'.next
    <2>1. CASE TimePasses
      BY <1>0, <1>1, <2>1 DEF TimePasses, FeedPlaced
    <2>2. CASE Resubscribe
      <3>1. PICK n \in 1..Len(reports) + 1 :
              feed' = [NoFeed EXCEPT !.at = "open", !.from = n, !.next = n]
        BY <2>2 DEF Resubscribe, Anywhere
      <3>2. n \in 1..ReportBound + 1
        BY <1>0
      <3>3. feed' \in Feeds /\ feed'.from = n /\ feed'.next = n
        BY <3>1, <3>2, NoFeedType DEF Feeds
      <3> QED
        BY <1>1, <3>3 DEF FeedPlaced
    <2>3. CASE FeedEnds \/ RetryFeed \/ FeedFails
      <3>1. /\ feed' \in {NoFeed, [NoFeed EXCEPT !.at = "waiting",
                                                 !.since = tick]}
        BY <2>3 DEF FeedEnds, RetryFeed, FeedFails
      <3>2. NoFeed.from = 1 /\ NoFeed.next = 1
        BY DEF NoFeed
      <3>3. feed' \in Feeds /\ feed'.from = 1 /\ feed'.next = 1
        BY <1>0, <3>1, <3>2, NoFeedType DEF Feeds
      <3> QED
        BY <1>0, <1>1, <3>3 DEF FeedPlaced
    <2> QED
      BY <2>1, <2>2, <2>3
  <1>3. UsageTypeOK'
    BY <1>0, <1>1, <1>2 DEF UsageTypeOK, Feeds, Hearings
  <1>4. MadeOf'
    <2>1. \A i \in 1..Len(made) : made[i].at \in Nat
      BY <1>0, MadeTypes
    <2> QED
      BY <1>0, <1>1, <2>1 DEF MadeOf
  <1>5. Signed' /\ RecountIsLate'
    BY <1>0, <1>1 DEF Signed, RecountIsLate, KnownNow, KnownTo, LastRead,
                      LinesOf, AccountedFor
  <1>6. DeliveredIsWritten'
    <2>1. CASE UNCHANGED feed
      BY <1>0, <1>1, <2>1 DEF DeliveredIsWritten, AccountedFor
    <2>2. CASE feed'.from = feed'.next
      <3>1. feed'.from \in Nat
        BY <1>0, <1>2 DEF Feeds
      <3>2. feed'.from..feed'.next - 1 = {}
        BY <2>2, <3>1
      <3> QED
        BY <3>2 DEF DeliveredIsWritten
    <2> QED
      BY <1>2, <2>1, <2>2
  <1> QED
    BY <1>2, <1>3, <1>4, <1>5, <1>6 DEF UsageInv

LEMMA HarnessReportsStep ==
    ASSUME UsageInv, NEW r \in Report, HarnessReports(r)
    PROVE  UsageInv'
  <1>0. /\ UsageTypeOK /\ FeedPlaced /\ MadeOf /\ Signed
        /\ RecountIsLate /\ DeliveredIsWritten
        /\ reports \in Seq(Report) /\ Len(reports) \in Nat
        /\ ReportBound \in Nat
    BY UsageTypes
  <1>1. /\ UNCHANGED <<tick, process, feed, signature, hydration, made,
                       appending, failed, ledger>>
        /\ reports' = Append(reports, r) /\ Len(reports) < ReportBound
    BY DEF HarnessReports
  <1>2. /\ reports' \in Seq(Report) /\ Len(reports') = Len(reports) + 1
        /\ \A n \in 1..Len(reports) : reports'[n] = reports[n]
    BY <1>0, <1>1
  <1>3. UsageTypeOK'
    <2>1. Len(reports') <= ReportBound
      BY <1>0, <1>1, <1>2
    <2> QED
      BY <1>0, <1>1, <1>2, <2>1 DEF UsageTypeOK
  <1>4. FeedPlaced'
    BY <1>0, <1>1, <1>2 DEF FeedPlaced
  <1>5. MadeOf'
    BY <1>0, <1>1, <1>2 DEF MadeOf
  <1>6. Signed' /\ RecountIsLate'
    <2>1. /\ AccountedFor' = AccountedFor
          /\ \A i \in 1..Len(made) : LastRead(i)' <=> LastRead(i)
      BY <1>1 DEF AccountedFor, LastRead, LinesOf
    <2>2. Signed'
      BY <1>0, <1>1, <2>1 DEF Signed, KnownNow
    <2>3. RecountIsLate'
      BY <1>0, <1>1, <2>1 DEF RecountIsLate, KnownTo
    <2> QED
      BY <2>2, <2>3
  <1>7. DeliveredIsWritten'
    <2>1. \A n \in feed.from..feed.next - 1 : n \in 1..Len(reports)
      BY <1>0 DEF FeedPlaced
    <2> QED
      BY <1>0, <1>1, <1>2, <2>1 DEF DeliveredIsWritten, AccountedFor
  <1> QED
    BY <1>3, <1>4, <1>5, <1>6, <1>7 DEF UsageInv

\* The lines of a session, as read back, do not change with what is made or
\* appended later.
LEMMA LinesStay ==
    ASSUME UsageInv, UNCHANGED hydration,
           \A i \in 1..Len(made) : made'[i] = made[i],
           \A k \in 1..Len(ledger) : ledger'[k] = ledger[k]
    PROVE  /\ \A c \in Chats : LinesOf(c)' = LinesOf(c)
           /\ \A i \in 1..Len(made) : LastRead(i)' <=> LastRead(i)
  <1>1. /\ hydration.lines \in 0..Len(ledger)
        /\ \A k \in 1..Len(ledger) : ledger[k] \in 1..Len(made)
        /\ Len(ledger) \in Nat
    BY DEF UsageInv, UsageTypeOK
  <1>2. \A k \in 1..hydration.lines : made'[ledger'[k]] = made[ledger[k]]
    BY <1>1
  <1>3. \A c \in Chats : LinesOf(c)' = LinesOf(c)
    BY <1>2 DEF LinesOf
  <1>4. ASSUME NEW i \in 1..Len(made)
        PROVE  LastRead(i)' <=> LastRead(i)
    <2>1. made[i].chat \in Chats /\ made'[i] = made[i]
      BY MadeTypes DEF UsageInv
    <2>2. LinesOf(made[i].chat)' = LinesOf(made[i].chat)
      BY <1>3, <2>1
    <2>3. \A k \in LinesOf(made[i].chat) : ledger'[k] = ledger[k]
      BY <1>1 DEF LinesOf
    <2> QED
      BY <2>1, <2>2, <2>3 DEF LastRead
  <1> QED
    BY <1>3, <1>4

LEMMA AppendSteps ==
    ASSUME UsageInv, NEW i \in appending, AppendLine(i) \/ AppendLineFails(i)
    PROVE  UsageInv'
  <1>0. /\ UsageTypeOK /\ FeedPlaced /\ MadeOf /\ Signed
        /\ RecountIsLate /\ DeliveredIsWritten
        /\ ledger \in Seq(1..Len(made)) /\ i \in 1..Len(made)
        /\ hydration.lines \in 0..Len(ledger) /\ Len(ledger) \in Nat
        /\ failed \subseteq 1..Len(made)
    BY UsageTypes
  <1>1. /\ UNCHANGED <<tick, process, reports, feed, signature, hydration,
                       made>>
        /\ appending' = appending \ {i}
        /\ \/ ledger' = ledger /\ failed' = failed \union {i}
           \/ ledger' = Append(ledger, i) /\ failed' = failed
    BY DEF AppendLine, AppendLineFails
  <1>2. /\ ledger' \in Seq(1..Len(made)) /\ Len(ledger') \in Nat
        /\ Len(ledger) <= Len(ledger')
        /\ \A k \in 1..Len(ledger) : ledger'[k] = ledger[k]
        /\ failed' \subseteq 1..Len(made) /\ failed \subseteq failed'
        /\ i \in failed' \/ \E k \in 1..Len(ledger') : ledger'[k] = i
    <2>1. CASE ledger' = ledger /\ failed' = failed \union {i}
      BY <1>0, <2>1
    <2>2. CASE ledger' = Append(ledger, i) /\ failed' = failed
      <3>1. /\ ledger' \in Seq(1..Len(made))
            /\ Len(ledger') = Len(ledger) + 1
            /\ \A k \in 1..Len(ledger) : ledger'[k] = ledger[k]
            /\ ledger'[Len(ledger) + 1] = i
        BY <1>0, <2>2, AppendProperties
      <3>2. Len(ledger) + 1 \in 1..Len(ledger')
        BY <1>0, <3>1
      <3> QED
        BY <1>0, <2>2, <3>1, <3>2
    <2> QED
      BY <1>1, <2>1, <2>2
  <1>3. UsageTypeOK'
    BY <1>0, <1>1, <1>2 DEF UsageTypeOK
  <1>4. AccountedFor \subseteq AccountedFor'
    <2>1. DOMAIN ledger = 1..Len(ledger) /\ DOMAIN ledger' = 1..Len(ledger')
      BY <1>0, <1>2
    <2>2. ASSUME NEW k \in DOMAIN ledger PROVE ledger[k] \in AccountedFor'
      <3>1. k \in DOMAIN ledger' /\ ledger'[k] = ledger[k]
        BY <1>0, <1>2, <2>1, <2>2
      <3> QED
        BY <3>1 DEF AccountedFor
    <2>3. i \in AccountedFor'
      BY <1>2, <2>1 DEF AccountedFor
    <2>4. appending \ {i} \subseteq AccountedFor'
          /\ failed \subseteq AccountedFor'
      BY <1>1, <1>2 DEF AccountedFor
    <2> QED
      BY <2>2, <2>3, <2>4 DEF AccountedFor
  <1>5. FeedPlaced' /\ MadeOf' /\ DeliveredIsWritten'
    BY <1>0, <1>1, <1>4 DEF FeedPlaced, MadeOf, DeliveredIsWritten
  <1>6. \A j \in 1..Len(made) : LastRead(j)' <=> LastRead(j)
    BY <1>1, <1>2, LinesStay
  <1>7. Signed' /\ RecountIsLate'
    BY <1>0, <1>1, <1>4, <1>6 DEF Signed, RecountIsLate, KnownNow, KnownTo
  <1> QED
    BY <1>3, <1>5, <1>7 DEF UsageInv

LEMMA HydrationSteps ==
    ASSUME UsageInv, ReadLedger \/ Hydrate \/ ProcessRestarts
    PROVE  UsageInv'
  <1>0. /\ UsageTypeOK /\ FeedPlaced /\ MadeOf /\ Signed
        /\ RecountIsLate /\ DeliveredIsWritten
        /\ ledger \in Seq(1..Len(made)) /\ Len(made) \in Nat
        /\ hydration.lines \in 0..Len(ledger) /\ Len(ledger) \in Nat
        /\ signature \in [Chats -> 0..Len(made)]
        /\ hydration \in [at : {"reading", "read", "done"},
                          lines : 0..Len(ledger)]
        /\ process \in Nat /\ process \in 0..RunBound /\ RunBound \in Nat
        /\ ReportBound \in Nat /\ TickBound \in Nat
        /\ \A j \in 1..Len(made) : made[j].process \in Nat
    BY UsageTypes, MadeTypes
  <1>a. hydration.at # "done" =>
          \A j \in 1..Len(made) : ~(made[j].process = process
                                     /\ made[j].hydrated)
    BY <1>0 DEF MadeOf
  <1>1. CASE ReadLedger
    <2>1. /\ UNCHANGED <<tick, process, reports, feed, signature, made,
                         appending, failed, ledger>>
          /\ hydration' = [at |-> "read", lines |-> Len(ledger)]
          /\ hydration.at = "reading"
      BY <1>1 DEF ReadLedger
    <2>2. UsageTypeOK'
      BY <1>0, <2>1 DEF UsageTypeOK
    <2>3. FeedPlaced' /\ MadeOf' /\ DeliveredIsWritten'
      BY <1>0, <2>1
      DEF FeedPlaced, MadeOf, DeliveredIsWritten, AccountedFor
    <2>4. \A i \in 1..Len(made) : KnownNow(i)' => KnownNow(i)
      BY <2>1 DEF KnownNow
    <2>5. \A i, j \in 1..Len(made) : KnownTo(i, j)' => KnownTo(i, j)
      BY <1>a, <2>1 DEF KnownTo
    <2>6. Signed'
      BY <1>0, <2>1, <2>4 DEF Signed, AccountedFor
    <2>7. RecountIsLate'
      BY <1>0, <2>1, <2>5 DEF RecountIsLate
    <2> QED
      BY <2>2, <2>3, <2>6, <2>7 DEF UsageInv
  <1>2. CASE ProcessRestarts
    <2>1. /\ UNCHANGED <<tick, reports, made, ledger>>
          /\ hydration' = [at |-> "reading", lines |-> 0]
          /\ signature' = [c \in Chats |-> 0]
          /\ appending' = {} /\ failed' = {}
          /\ process' = process + 1 /\ process < RunBound
          /\ feed' = NoFeed
      BY <1>2 DEF ProcessRestarts
    <2>2. UsageTypeOK'
      <3>1. feed' \in Feeds
        BY <2>1, NoFeedType
      <3> QED
        BY <1>0, <2>1, <3>1 DEF UsageTypeOK, Feeds, Hearings
    <2>3. FeedPlaced' /\ DeliveredIsWritten'
      BY <1>0, <2>1 DEF FeedPlaced, DeliveredIsWritten, NoFeed, UsageTypeOK
    <2>4. \A j \in 1..Len(made) :
            made[j].process <= process' /\ made[j].process # process'
      BY <1>0, <2>1 DEF MadeOf
    <2>5. MadeOf'
      BY <1>0, <2>1, <2>4 DEF MadeOf
    <2>6. \A i \in 1..Len(made) : ~KnownNow(i)'
      BY <2>1, <2>4 DEF KnownNow
    <2>7. \A i, j \in 1..Len(made) : KnownTo(i, j)' => KnownTo(i, j)
      BY <2>1, <2>4 DEF KnownTo
    <2>8. Signed'
      BY <2>1, <2>6 DEF Signed
    <2>9. RecountIsLate'
      BY <1>0, <2>1, <2>7 DEF RecountIsLate
    <2> QED
      BY <2>2, <2>3, <2>5, <2>8, <2>9 DEF UsageInv
  <1>3. CASE Hydrate
    <2>1. /\ UNCHANGED <<tick, process, reports, feed, made, appending,
                         failed, ledger>>
          /\ hydration' = [hydration EXCEPT !.at = "done"]
          /\ signature' = [c \in Chats |->
               IF LinesOf(c) = {} THEN signature[c] ELSE ledger[LastLine(c)]]
          /\ hydration.at = "read"
      BY <1>3 DEF Hydrate
    <2>2. ASSUME NEW c \in Chats, LinesOf(c) # {}
          PROVE  /\ LastLine(c) \in LinesOf(c)
                 /\ \A l \in LinesOf(c) : l <= LastLine(c)
      <3>1. LinesOf(c) \in SUBSET (1..hydration.lines)
            /\ hydration.lines \in Nat
        BY <1>0 DEF LinesOf
      <3>2. \E k \in LinesOf(c) : \A l \in LinesOf(c) : l <= k
        BY <2>2, <3>1, GreatestOf
      <3> QED
        BY <3>2 DEF LastLine
    <2>3. \A c \in Chats : /\ signature'[c] \in 0..Len(made)
                           /\ signature'[c] # 0 =>
                                /\ made[signature'[c]].chat = c
                                /\ signature'[c] \in AccountedFor
      <3> SUFFICES ASSUME NEW c \in Chats
                   PROVE  /\ signature'[c] \in 0..Len(made)
                          /\ signature'[c] # 0 =>
                               /\ made[signature'[c]].chat = c
                               /\ signature'[c] \in AccountedFor
        OBVIOUS
      <3>1. CASE LinesOf(c) = {}
        BY <1>0, <2>1, <3>1 DEF Signed
      <3>2. CASE LinesOf(c) # {}
        <4>1. LastLine(c) \in 1..Len(ledger)
              /\ made[ledger[LastLine(c)]].chat = c
          BY <1>0, <2>2, <3>2 DEF LinesOf
        <4>2. /\ ledger[LastLine(c)] \in 1..Len(made)
              /\ ledger[LastLine(c)] \in AccountedFor
          BY <1>0, <4>1 DEF AccountedFor
        <4> QED
          BY <1>0, <2>1, <3>2, <4>1, <4>2
      <3> QED
        BY <3>1, <3>2
    <2>4. hydration' = [at |-> "done", lines |-> hydration.lines]
      BY <1>0, <2>1
    <2>5. UsageTypeOK'
      <3>1. signature' \in [Chats -> 0..Len(made)]
        BY <2>1, <2>3
      <3> HIDE DEF LastLine
      <3> QED
        BY <1>0, <2>1, <2>4, <3>1 DEF UsageTypeOK
    <2>6. FeedPlaced' /\ MadeOf' /\ DeliveredIsWritten'
      BY <1>0, <2>1, <2>4
      DEF FeedPlaced, MadeOf, DeliveredIsWritten, AccountedFor
    <2>7. \A j \in 1..Len(made) : ~(made[j].process = process
                                     /\ made[j].hydrated)
      BY <1>a, <2>1
    <2>8. RecountIsLate'
      <3>1. \A i, j \in 1..Len(made) : KnownTo(i, j)' => KnownTo(i, j)
        BY <2>1, <2>7 DEF KnownTo
      <3> QED
        BY <1>0, <2>1, <3>1 DEF RecountIsLate
    <2>9. ASSUME NEW j \in 1..Len(made), KnownNow(j)'
          PROVE  signature'[made[j].chat] = j
      <3> DEFINE c == made[j].chat
      <3>1. c \in Chats
        BY <1>0, MadeTypes
      <3>2. LinesOf(c)' = LinesOf(c)
        BY <2>1, <2>4 DEF LinesOf
      <3>3. PICK k \in LinesOf(c) :
              ledger[k] = j /\ \A l \in LinesOf(c) : l <= k
        BY <2>1, <2>4, <2>7, <2>9, <3>2 DEF KnownNow, LastRead
      <3>4. LastLine(c) = k
        <4>1. /\ LastLine(c) \in LinesOf(c) /\ LastLine(c) <= k
              /\ k <= LastLine(c)
          BY <2>2, <3>1, <3>3
        <4>2. LastLine(c) \in Nat /\ k \in Nat
          BY <1>0, <4>1 DEF LinesOf
        <4> QED
          BY <4>1, <4>2
      <3> HIDE DEF c
      <3>5. signature'[c] = ledger[LastLine(c)]
        BY <2>1, <3>1, <3>3
      <3> QED
        BY <3>3, <3>4, <3>5 DEF c
    <2>10. Signed'
      <3>1. AccountedFor' = AccountedFor /\ made' = made
        BY <2>1 DEF AccountedFor
      <3> QED
        BY <2>3, <2>9, <3>1 DEF Signed
    <2> QED
      BY <2>5, <2>6, <2>8, <2>10 DEF UsageInv
  <1> QED
    BY <1>1, <1>2, <1>3

LEMMA DeliverStep == ASSUME UsageInv, Deliver PROVE UsageInv'
  <1> DEFINE n == feed.next
             r == reports[n]
             c == r.chat
             rec == [of |-> n, chat |-> c, figure |-> r.figure, at |-> tick,
                     process |-> process, hydrated |-> hydration.at = "done"]
             new == Len(made) + 1
  <1>0. /\ UsageTypeOK /\ FeedPlaced /\ MadeOf /\ Signed
        /\ RecountIsLate /\ DeliveredIsWritten
        /\ made \in Seq(Record) /\ Len(made) \in Nat
        /\ ledger \in Seq(1..Len(made)) /\ Len(reports) \in Nat
        /\ Len(ledger) \in Nat /\ hydration.lines \in 0..Len(ledger)
        /\ signature \in [Chats -> 0..Len(made)]
        /\ appending \subseteq 1..Len(made) /\ failed \subseteq 1..Len(made)
        /\ Len(reports) <= ReportBound /\ reports \in Seq(Report)
        /\ tick \in 0..TickBound /\ process \in 0..RunBound
        /\ feed \in Feeds
    BY UsageTypes
  <1>n. /\ ReportBound \in Nat /\ RecordBound \in Nat
        /\ DedupWindow \in Nat \ {0} /\ tick \in Nat /\ process \in Nat
    BY UsageTypes
  <1>b. Len(reports) \in Nat /\ Len(reports) <= ReportBound
    BY <1>0
  <1>1. /\ feed.at = "open" /\ n <= Len(reports)
        /\ feed' = [feed EXCEPT !.next = n + 1, !.heard[n] = tick]
        /\ UNCHANGED <<tick, process, reports, hydration, failed, ledger>>
    BY DEF Deliver
  <1>2. /\ n \in 1..Len(reports) /\ feed.from \in 1..Len(reports) + 1
        /\ r \in Report /\ c \in Chats /\ r.figure \in Figures
    <2>1. n \in 1..Len(reports) /\ feed.from \in 1..Len(reports) + 1
      BY <1>0, <1>1 DEF FeedPlaced
    <2>2. r \in Report
      BY <1>0, <2>1, ElementOfSeq
    <2> QED
      BY <2>1, <2>2 DEF Report
  <1>3. /\ feed' \in Feeds
        /\ FeedPlaced' /\ feed'.from = feed.from /\ feed'.next = n + 1
        /\ feed'.heard[n] = tick
        /\ \A m \in 1..ReportBound : m # n =>
             feed'.heard[m] = feed.heard[m]
    <2>c. n \in 1..Len(reports) /\ ReportBound \in Nat
      BY <1>n, <1>2
    <2> HIDE DEF n
    <2>2. /\ n + 1 \in 1..ReportBound + 1 /\ n + 1 \in 1..Len(reports) + 1
          /\ n \in 1..ReportBound
      BY <1>b, <2>c
    <2>3. PICK h : h = [feed.heard EXCEPT ![n] = tick]
      OBVIOUS
    <2>4. /\ h \in Hearings /\ h[n] = tick
          /\ \A m \in 1..ReportBound : m # n => h[m] = feed.heard[m]
      BY <1>0, <2>2, <2>3 DEF Feeds, Hearings
    <2>5. feed' = [feed EXCEPT !.next = n + 1, !.heard = h]
      BY <1>1, <2>3
    <2>6. /\ feed' \in Feeds /\ feed'.from = feed.from
          /\ feed'.next = n + 1 /\ feed'.heard = h
      BY <1>0, <2>2, <2>4, <2>5 DEF Feeds
    <2> QED
      BY <1>1, <1>2, <2>2, <2>4, <2>6 DEF FeedPlaced
  <1>d. n \in 1..Len(reports) /\ feed.from \in Nat /\ feed.from >= 1
    BY <1>b, <1>2
  <1> HIDE DEF n
  <1>4. ASSUME \A i \in 1..Len(made) : made'[i] = made[i],
               AccountedFor \subseteq AccountedFor',
               r.figure # 0 =>
                 \E i \in AccountedFor' :
                    /\ made'[i].chat = c /\ made'[i].figure = r.figure
                    /\ tick - made'[i].at \in 0..DedupWindow - 1
        PROVE  DeliveredIsWritten'
    <2>b. feed'.from..feed'.next - 1 = feed.from..n
      <3>1. feed'.from = feed.from /\ feed'.next = n + 1
        BY <1>3
      <3>2. feed'.next - 1 = n
        BY <1>b, <1>d, <3>1
      <3> QED
        BY <3>1, <3>2
    <2>c. SUFFICES ASSUME NEW m \in feed.from..n, reports[m].figure # 0
                 PROVE  \E i \in AccountedFor' :
                          /\ made'[i].chat = reports[m].chat
                          /\ made'[i].figure = reports[m].figure
                          /\ feed'.heard[m] - made'[i].at
                               \in 0..DedupWindow - 1
      <3>1. reports' = reports
        BY <1>1
      <3> QED
        BY <2>b, <3>1 DEF DeliveredIsWritten
    <2>1. CASE m = n
      <3>1. PICK i \in AccountedFor' :
               /\ made'[i].chat = c /\ made'[i].figure = r.figure
               /\ tick - made'[i].at \in 0..DedupWindow - 1
        BY <1>4, <2>c, <2>1
      <3>2. feed'.heard[m] = tick /\ reports[m] = r
        BY <1>3, <2>1
      <3> QED
        BY <3>1, <3>2
    <2>2. CASE m # n
      <3>1. m \in feed.from..n - 1 /\ m \in 1..ReportBound
        BY <1>b, <1>n, <1>d, <2>c, <2>2
      <3>2. PICK i \in AccountedFor :
              /\ made[i].chat = reports[m].chat
              /\ made[i].figure = reports[m].figure
              /\ feed.heard[m] - made[i].at \in 0..DedupWindow - 1
        <4>1. m \in feed.from..feed.next - 1
          BY <3>1 DEF n
        <4> QED
          BY <1>0, <2>c, <4>1 DEF DeliveredIsWritten
      <3>3. i \in 1..Len(made) /\ i \in AccountedFor'
        BY <1>4, <3>2, AccountedTypes
      <3>4. made'[i] = made[i] /\ feed'.heard[m] = feed.heard[m]
        BY <1>3, <1>4, <2>2, <3>1, <3>3
      <3> QED
        BY <3>2, <3>3, <3>4
    <2> QED
      BY <2>1, <2>2
  <1>5. CASE r.figure = 0 \/ Repeated(r)
    <2>1. UNCHANGED <<signature, made, appending>>
      BY <1>5 DEF Deliver, n
    <2>2. UsageTypeOK'
      BY <1>0, <1>1, <1>3, <2>1 DEF UsageTypeOK, Feeds, Hearings
    <2>3. MadeOf' /\ Signed' /\ RecountIsLate'
          /\ AccountedFor' = AccountedFor
      BY <1>0, <1>1, <2>1
      DEF MadeOf, Signed, RecountIsLate, KnownNow, KnownTo, LastRead, LinesOf,
          AccountedFor
    <2>4. r.figure # 0 =>
            \E i \in AccountedFor :
               /\ made[i].chat = c /\ made[i].figure = r.figure
               /\ tick - made[i].at \in 0..DedupWindow - 1
      <3> SUFFICES ASSUME Repeated(r)
                   PROVE  \E i \in AccountedFor :
                             /\ made[i].chat = c /\ made[i].figure = r.figure
                             /\ tick - made[i].at \in 0..DedupWindow - 1
        BY <1>5
      <3>1. /\ signature[c] # 0 /\ made[signature[c]].figure = r.figure
            /\ tick - made[signature[c]].at < DedupWindow
        BY DEF Repeated
      <3>2. PICK i : i = signature[c]
        OBVIOUS
      <3>3. /\ i \in 1..Len(made) /\ made[i].chat = c /\ i \in AccountedFor
        BY <1>0, <1>2, <3>1, <3>2 DEF Signed
      <3>4. made[i].at \in Nat /\ made[i].at <= tick
        BY <1>0, <3>3, MadeTypes DEF MadeOf
      <3>5. tick - made[i].at \in 0..DedupWindow - 1
        BY <1>n, <3>1, <3>2, <3>4
      <3> QED
        BY <3>1, <3>2, <3>3, <3>5
    <2>5. DeliveredIsWritten'
      BY <1>0, <1>4, <2>1, <2>3, <2>4
    <2> QED
      BY <1>3, <2>2, <2>3, <2>5 DEF UsageInv
  <1>6. CASE r.figure # 0 /\ ~Repeated(r)
    <2>1. /\ Len(made) < RecordBound /\ made' = Append(made, rec)
          /\ signature' = [signature EXCEPT ![c] = new]
          /\ appending' = appending \union {new}
      BY <1>6 DEF Deliver, Remembered, n
    <2>2. rec \in Record
      <3>1. n \in 1..ReportBound /\ (hydration.at = "done") \in BOOLEAN
        BY <1>0, <1>n, <1>2
      <3> QED
        BY <1>0, <1>2, <3>1 DEF Record
    <2>3. /\ made' \in Seq(Record) /\ Len(made') = new
          /\ \A i \in 1..Len(made) : made'[i] = made[i]
          /\ made'[new] = rec
      BY <1>0, <2>1, <2>2, AppendProperties
    <2> HIDE DEF rec
    <2>4. rec.of = n /\ rec.chat = c /\ rec.figure = r.figure
          /\ rec.at = tick /\ rec.process = process
          /\ (rec.hydrated <=> hydration.at = "done")
      BY DEF rec
    <2>a. AccountedFor \subseteq AccountedFor' /\ new \in AccountedFor'
      BY <1>1, <2>1 DEF AccountedFor
    <2>5. UsageTypeOK'
      <3>1. signature' \in [Chats -> 0..Len(made')]
        BY <1>0, <1>2, <2>1, <2>3
      <3>2. /\ ledger' \in Seq(1..Len(made')) /\ appending' \subseteq 1..new
            /\ failed' \subseteq 1..new
        BY <1>0, <1>1, <2>1, <2>3, SeqMonotonic
      <3> QED
        <4>1. Len(made') <= RecordBound
          BY <1>0, <1>n, <2>1, <2>3
        <4> HIDE DEF new
        <4> QED
          BY <1>0, <1>1, <1>3, <2>1, <2>3, <3>1, <3>2, <4>1
          DEF UsageTypeOK, Feeds, Hearings
    <2>6. MadeOf'
      <3> SUFFICES ASSUME NEW i \in 1..new
                   PROVE  /\ made'[i].of \in 1..Len(reports)
                          /\ made'[i].chat = reports[made'[i].of].chat
                          /\ made'[i].figure = reports[made'[i].of].figure
                          /\ made'[i].at <= tick
                          /\ made'[i].process <= process
                          /\ made'[i].process = process /\ made'[i].hydrated
                               => hydration.at = "done"
        BY <1>1, <2>3 DEF MadeOf
      <3>1. CASE i = new
        <4>1. made'[i] = rec
          BY <2>3, <3>1
        <4>2. tick <= tick /\ process <= process
          BY <1>n
        <4> QED
          BY <1>2, <2>4, <4>1, <4>2
      <3>2. CASE i # new
        <4>1. i \in 1..Len(made)
          BY <1>0, <3>2
        <4> QED
          BY <1>0, <2>3, <4>1 DEF MadeOf
      <3> QED
        BY <3>1, <3>2
    <2>7. \A i \in 1..Len(made) : LastRead(i)' <=> LastRead(i)
      BY <1>1, <2>3, LinesStay
    <2>8. Signed'
      <3>1. ASSUME NEW d \in Chats, signature'[d] # 0
            PROVE  /\ made'[signature'[d]].chat = d
                   /\ signature'[d] \in AccountedFor'
        <4>1. CASE d = c
          BY <1>0, <1>2, <2>1, <2>3, <2>4, <2>a, <4>1
        <4>2. CASE d # c
          <5>1. signature'[d] = signature[d] /\ signature[d] \in 1..Len(made)
            BY <1>0, <2>1, <3>1, <4>2
          <5> QED
            BY <1>0, <2>3, <2>a, <3>1, <5>1 DEF Signed
        <4> QED
          BY <4>1, <4>2
      <3>2. ASSUME NEW i \in 1..new, KnownNow(i)',
                   \A k \in i + 1..new : made'[k].chat # made'[i].chat
            PROVE  signature'[made'[i].chat] = i
        <4>1. CASE i = new
          BY <1>0, <1>2, <2>1, <2>3, <2>4, <4>1
        <4>2. CASE i # new
          <5>1. i \in 1..Len(made) /\ new \in i + 1..new
            BY <1>0, <4>2
          <5>2. made[i].chat # c /\ made'[i] = made[i]
            BY <2>3, <2>4, <3>2, <5>1
          <5>3. \A k \in i + 1..Len(made) : made[k].chat # made[i].chat
            <6> TAKE k \in i + 1..Len(made)
            <6>1. k \in i + 1..new /\ k \in 1..Len(made)
              BY <1>0, <5>1
            <6> QED
              BY <2>3, <3>2, <5>2, <6>1
          <5>a. KnownNow(i)
            BY <1>1, <2>7, <3>2, <5>1, <5>2 DEF KnownNow
          <5>4. signature[made[i].chat] = i
            BY <1>0, <5>1, <5>3, <5>a DEF Signed
          <5>5. made[i].chat \in Chats
            BY <1>0, <5>1, MadeTypes
          <5> QED
            BY <1>0, <2>1, <5>2, <5>4, <5>5
        <4> QED
          BY <4>1, <4>2
      <3> QED
        BY <2>3, <3>1, <3>2 DEF Signed
    <2>9. RecountIsLate'
      <3> SUFFICES ASSUME NEW i \in 1..new, NEW j \in 1..new,
                          i < j, made'[i].of = made'[j].of,
                          KnownTo(i, j)',
                          \A k \in i + 1..j - 1 :
                             made'[k].chat # made'[i].chat
                   PROVE  made'[j].at - made'[i].at >= DedupWindow
        BY <2>3 DEF RecountIsLate
      <3>1. i \in 1..Len(made) /\ made'[i] = made[i]
            /\ (LastRead(i)' <=> LastRead(i))
        <4>1. i \in 1..Len(made)
          BY <1>0
        <4> QED
          BY <2>3, <2>7, <4>1
      <3>2. CASE j # new
        <4>1. j \in 1..Len(made) /\ made'[j] = made[j]
          <5>0. Len(made) \in Nat
            BY <1>0
          <5>1. j \in 1..Len(made)
            BY <5>0, <3>2
          <5> QED
            BY <2>3, <5>1
        <4>2. \A k \in i + 1..j - 1 : made[k].chat # made[i].chat
          <5> TAKE k \in i + 1..j - 1
          <5>1. k \in 1..Len(made)
            BY <1>0, <3>1, <4>1
          <5> QED
            BY <2>3, <3>1, <5>1
        <4>3. KnownTo(i, j)
          BY <1>1, <3>1, <4>1 DEF KnownTo
        <4> QED
          BY <1>0, <3>1, <4>1, <4>2, <4>3 DEF RecountIsLate
      <3>3. CASE j = new
        <4>0. made[i].of = n
          BY <2>3, <2>4, <3>1, <3>3
        <4>1. made[i].of = n /\ made[i].chat = c /\ made[i].figure = r.figure
          BY <1>0, <1>n, <3>1, <4>0 DEF MadeOf
        <4>2. \A k \in i + 1..Len(made) : made[k].chat # made[i].chat
          <5> TAKE k \in i + 1..Len(made)
          <5>1. k \in 1..Len(made) /\ k \in i + 1..j - 1
            BY <1>0, <3>1, <3>3
          <5> QED
            BY <2>3, <3>1, <5>1
        <4>a. KnownNow(i)
          <5>1. /\ made'[j].process = process
                /\ made'[j].hydrated <=> hydration.at = "done"
            BY <2>3, <2>4, <3>3
          <5> QED
            BY <1>1, <3>1, <5>1 DEF KnownTo, KnownNow
        <4>3. signature[c] = i
          BY <1>0, <3>1, <4>1, <4>2, <4>a DEF Signed
        <4>4. ~(tick - made[i].at < DedupWindow)
          BY <1>0, <1>6, <3>1, <4>1, <4>3 DEF Repeated
        <4>5. made[i].at \in Nat
          BY <1>0, <3>1, MadeTypes
        <4>6. made'[j].at = tick /\ made'[i].at = made[i].at
          BY <2>3, <2>4, <3>1, <3>3
        <4>7. tick - made[i].at >= DedupWindow
          BY <1>n, <4>4, <4>5
        <4> QED
          BY <4>6, <4>7
      <3> QED
        BY <3>2, <3>3
    <2>10. DeliveredIsWritten'
      <3>1. /\ new \in AccountedFor' /\ made'[new].chat = c
            /\ made'[new].figure = r.figure
            /\ tick - made'[new].at \in 0..DedupWindow - 1
        BY <1>n, <2>3, <2>4, <2>a
      <3> QED
        BY <1>4, <2>3, <2>a, <3>1
    <2> QED
      BY <1>3, <2>5, <2>6, <2>8, <2>9, <2>10 DEF UsageInv
  <1> QED
    BY <1>5, <1>6

LEMMA UsageNextInv == UsageInv /\ [UsageNext]_usageVars => UsageInv'
  <1> SUFFICES ASSUME UsageInv, [UsageNext]_usageVars PROVE UsageInv'
    OBVIOUS
  <1>1. CASE UNCHANGED usageVars
    <2>1. UsageTypeOK'
      BY <1>1 DEF usageVars, UsageInv, UsageTypeOK
    <2>2. FeedPlaced' /\ MadeOf' /\ Signed' /\ DeliveredIsWritten'
      BY <1>1 DEF usageVars, UsageInv, FeedPlaced, MadeOf, Signed,
                  DeliveredIsWritten, KnownNow, LastRead, LinesOf,
                  AccountedFor
    <2>3. RecountIsLate'
      BY <1>1 DEF usageVars, UsageInv, RecountIsLate, KnownTo, LastRead,
                  LinesOf
    <2> QED
      BY <2>1, <2>2, <2>3 DEF UsageInv
  <1> QED
    BY <1>1, FeedSteps, HarnessReportsStep, AppendSteps, HydrationSteps,
       DeliverStep DEF UsageNext

LEMMA UsageAlwaysInv == UsageSpec => []UsageInv
  BY UsageInitInv, UsageNextInv, PTL DEF UsageSpec

\* A message is counted again only when the window has passed, except when
\* another message of its session was counted in between, and when the map did
\* not know of the first time: before the ledger has been read back, when the
\* reading ends between the two, or when what was read did not hold it or not
\* as the last of its session (recordUsage, startUsageRecorder).
THEOREM RecountsAreLate == UsageSpec => []RecountIsLate
  BY UsageAlwaysInv, PTL DEF UsageInv

\* A message with a usage that the stream has delivered is in the file, or on
\* its way there, or its append has failed in this very process: by a record
\* made when it was delivered, or in the window before by one of its session
\* with the same figures (recordUsage).
THEOREM DeliveredAreWritten == UsageSpec => []DeliveredIsWritten
  BY UsageAlwaysInv, PTL DEF UsageInv

-----------------------------------------------------------------------------
(* Sums over a sequence of numbers. *)

LEMMA NumberInduction ==
    ASSUME NEW S, 0 \in S, \A n \in Nat : n \in S => n + 1 \in S
    PROVE  Nat \subseteq S
  <1> DEFINE T == {n \in Nat : n \notin S}
  <1> SUFFICES ASSUME T # {} PROVE FALSE
    OBVIOUS
  <1>1. PICK x \in T : \A y \in T : ~(<<y, x>> \in OpToRel(<, Nat))
    <2>1. T \in SUBSET Nat
      OBVIOUS
    <2> HIDE DEF T
    <2> QED
      BY <2>1, NatLessThanWellFounded, WFMin
  <1>2. x \in Nat /\ x # 0 /\ x - 1 \in Nat /\ x - 1 < x
    OBVIOUS
  <1>3. x - 1 \in S
    <2> SUFFICES ASSUME x - 1 \notin S PROVE FALSE
      OBVIOUS
    <2>1. x - 1 \in T
      BY <1>2
    <2>2. ~(<<x - 1, x>> \in OpToRel(<, Nat))
      BY <1>1, <2>1
    <2> QED
      BY <1>2, <2>2 DEF OpToRel
  <1> QED
    BY <1>2, <1>3

LEMMA MaxOfPlaces ==
    ASSUME NEW n \in Nat, NEW T \in SUBSET (1..n), n \in T
    PROVE  Max(T) = n
  <1>1. T \in SUBSET Nat /\ \A m \in T : m <= n
    OBVIOUS
  <1> QED
    BY <1>1, MaxIs

\* The fold is defined over sets of places; it exists for each of them.
SumOver(s, n, iter) ==
    iter = [T \in SUBSET (1..n) |->
              IF T = {} THEN 0 ELSE iter[T \ {Max(T)}] + s[Max(T)]]

LEMMA SumExists ==
    ASSUME NEW s, NEW n \in Nat
    PROVE  \E iter : SumOver(s, n, iter)
  <1> DEFINE S == {k \in Nat : \E iter : SumOver(s, k, iter)}
  <1>1. 0 \in S
    <2> DEFINE iter == [T \in SUBSET (1..0) |-> 0]
    <2>1. SumOver(s, 0, iter)
      BY DEF SumOver
    <2> QED
      BY <2>1
  <1>2. ASSUME NEW k \in Nat, k \in S
        PROVE  k + 1 \in S
    <2>1. PICK h : SumOver(s, k, h)
      BY <1>2
    <2> DEFINE g == [T \in SUBSET (1..(k + 1)) |->
                       IF k + 1 \in T THEN h[T \ {k + 1}] + s[k + 1]
                       ELSE h[T]]
    <2>2. ASSUME NEW T \in SUBSET (1..(k + 1))
          PROVE  g[T] = IF T = {} THEN 0
                        ELSE g[T \ {Max(T)}] + s[Max(T)]
      <3>1. CASE k + 1 \in T
        <4>1. Max(T) = k + 1
          BY <3>1, MaxOfPlaces
        <4>2. /\ T \ {k + 1} \in SUBSET (1..(k + 1))
              /\ k + 1 \notin T \ {k + 1}
          OBVIOUS
        <4>3. g[T \ {k + 1}] = h[T \ {k + 1}]
          BY <4>2
        <4>4. g[T] = h[T \ {k + 1}] + s[k + 1]
          BY <3>1
        <4> HIDE DEF g
        <4> QED
          BY <3>1, <4>1, <4>3, <4>4
      <3>2. CASE k + 1 \notin T
        <4>1. T \in SUBSET (1..k)
          BY <3>2
        <4>2. T \ {Max(T)} \in SUBSET (1..(k + 1))
              /\ k + 1 \notin T \ {Max(T)}
          BY <3>2
        <4>3. g[T] = h[T] /\ g[T \ {Max(T)}] = h[T \ {Max(T)}]
          BY <3>2, <4>2
        <4>4. h[T] = IF T = {} THEN 0 ELSE h[T \ {Max(T)}] + s[Max(T)]
          BY <2>1, <4>1, Zenon DEF SumOver
        <4> HIDE DEF g
        <4> QED
          BY <4>3, <4>4
      <3> QED
        BY <3>1, <3>2
    <2>3. g = [T \in SUBSET (1..(k + 1)) |-> g[T]]
      OBVIOUS
    <2> HIDE DEF g
    <2>4. g = [T \in SUBSET (1..(k + 1)) |->
                 IF T = {} THEN 0 ELSE g[T \ {Max(T)}] + s[Max(T)]]
      BY <2>2, <2>3, Zenon
    <2>5. SumOver(s, k + 1, g)
      BY <2>4 DEF SumOver
    <2> QED
      BY <2>5
  <1> HIDE DEF S
  <1>3. Nat \subseteq S
    BY <1>1, <1>2, NumberInduction
  <1> QED
    BY <1>3 DEF S

\* f has the sums of the first numbers of s.
Sums(s, f) == /\ f[0] = 0
              /\ \A i \in 1..Len(s) : f[i] = f[i - 1] + s[i]
              /\ \A i \in 0..Len(s) : f[i] \in Nat

LEMMA SumSteps ==
    ASSUME NEW s \in Seq(Nat)
    PROVE  \E f : Sums(s, f) /\ SumOf(s) = f[Len(s)]
  <1> DEFINE iter == CHOOSE it : SumOver(s, Len(s), it)
  <1>0. /\ Len(s) \in Nat /\ DOMAIN s = 1..Len(s)
        /\ \A i \in 1..Len(s) : s[i] \in Nat
    OBVIOUS
  <1>1. SumOver(s, Len(s), iter)
    BY <1>0, SumExists
  <1>2. SumOf(s) = iter[1..Len(s)]
    BY <1>0, <1>1, Zenon DEF SumOf, FoldLeft, MapThenFoldSet, SumOver
  <1> HIDE DEF iter
  <1> DEFINE f == [i \in 0..Len(s) |-> iter[1..i]]
  <1>3. \A T \in SUBSET (1..Len(s)) :
          iter[T] = IF T = {} THEN 0 ELSE iter[T \ {Max(T)}] + s[Max(T)]
    BY <1>1, Zenon DEF SumOver
  <1>4. f[0] = 0
    <2>1. 1..0 = {} /\ 0 \in 0..Len(s) /\ {} \in SUBSET (1..Len(s))
      BY <1>0
    <2> QED
      BY <1>3, <2>1
  <1>5. ASSUME NEW i \in 1..Len(s)
        PROVE  f[i] = f[i - 1] + s[i]
    <2>1. /\ 1..i \in SUBSET (1..Len(s)) /\ i \in 1..i /\ i \in Nat
          /\ (1..i) \ {i} = 1..(i - 1)
          /\ i \in 0..Len(s) /\ i - 1 \in 0..Len(s)
      BY <1>0
    <2>2. Max(1..i) = i
      BY <2>1, MaxOfPlaces
    <2>3. iter[1..i] = iter[1..(i - 1)] + s[i]
      BY <1>3, <2>1, <2>2
    <2> QED
      BY <2>1, <2>3
  <1>6. f[Len(s)] = iter[1..Len(s)]
    BY <1>0
  <1> HIDE DEF f
  <1>7. \A i \in 0..Len(s) : f[i] \in Nat
    <2> DEFINE S == {i \in Nat : i <= Len(s) => f[i] \in Nat}
    <2>1. 0 \in S
      BY <1>4
    <2>2. ASSUME NEW i \in Nat, i \in S PROVE i + 1 \in S
      <3> SUFFICES ASSUME i + 1 <= Len(s) PROVE f[i + 1] \in Nat
        OBVIOUS
      <3>1. i + 1 \in 1..Len(s) /\ (i + 1) - 1 = i /\ i <= Len(s)
        BY <1>0
      <3>2. f[i] \in Nat /\ s[i + 1] \in Nat /\ f[i + 1] = f[i] + s[i + 1]
        BY <1>0, <1>5, <2>2, <3>1
      <3> QED
        BY <3>2
    <2> HIDE DEF S
    <2>3. Nat \subseteq S
      BY <2>1, <2>2, NumberInduction
    <2> QED
      BY <1>0, <2>3 DEF S
  <1> QED
    BY <1>2, <1>4, <1>5, <1>6, <1>7 DEF Sums

\* Sums of what is the same up to some place are the same there.
LEMMA SumsAgree ==
    ASSUME NEW s \in Seq(Nat), NEW t \in Seq(Nat), NEW f, NEW g,
           Sums(s, f), Sums(t, g),
           NEW n \in Nat, n <= Len(s), n <= Len(t),
           \A i \in 1..n : s[i] = t[i]
    PROVE  f[n] = g[n]
  <1> DEFINE S == {i \in Nat : i <= n => f[i] = g[i]}
  <1>1. 0 \in S
    BY DEF Sums
  <1>2. ASSUME NEW i \in Nat, i \in S PROVE i + 1 \in S
    <2> SUFFICES ASSUME i + 1 <= n PROVE f[i + 1] = g[i + 1]
      OBVIOUS
    <2>1. /\ i + 1 \in 1..Len(s) /\ i + 1 \in 1..Len(t) /\ i + 1 \in 1..n
          /\ (i + 1) - 1 = i /\ i <= n
      OBVIOUS
    <2>2. f[i] = g[i] /\ s[i + 1] = t[i + 1]
      BY <1>2, <2>1
    <2>3. f[i + 1] = f[i] + s[i + 1] /\ g[i + 1] = g[i] + t[i + 1]
      BY <2>1 DEF Sums
    <2> QED
      BY <2>2, <2>3
  <1> HIDE DEF S
  <1>3. Nat \subseteq S
    BY <1>1, <1>2, NumberInduction
  <1> QED
    BY <1>3 DEF S

LEMMA SumOfNone ==
    ASSUME NEW s \in Seq(Nat), Len(s) = 0
    PROVE  SumOf(s) = 0
  BY SumSteps DEF Sums

LEMMA SumIsNat == ASSUME NEW s \in Seq(Nat) PROVE SumOf(s) \in Nat
  <1>1. Len(s) \in 0..Len(s)
    OBVIOUS
  <1> QED
    BY <1>1, SumSteps DEF Sums

LEMMA SumOfFirst ==
    ASSUME NEW s \in Seq(Nat), NEW n \in Nat, Len(s) = n + 1
    PROVE  /\ [i \in 1..n |-> s[i]] \in Seq(Nat)
           /\ SumOf(s) = SumOf([i \in 1..n |-> s[i]]) + s[n + 1]
  <1> DEFINE t == [i \in 1..n |-> s[i]]
  <1>1. /\ t \in Seq(Nat) /\ Len(t) = n
        /\ \A i \in 1..n : s[i] = t[i]
    <2>1. \A i \in 1..n : s[i] \in Nat
      OBVIOUS
    <2> QED
      BY <2>1
  <1> HIDE DEF t
  <1>2. PICK f : Sums(s, f) /\ SumOf(s) = f[Len(s)]
    BY SumSteps
  <1>3. PICK g : Sums(t, g) /\ SumOf(t) = g[Len(t)]
    BY <1>1, SumSteps
  <1>4. f[n] = g[n]
    BY <1>1, <1>2, <1>3, SumsAgree
  <1>5. f[n + 1] = f[n] + s[n + 1]
    <2>1. n + 1 \in 1..Len(s) /\ (n + 1) - 1 = n
      OBVIOUS
    <2> QED
      BY <1>2, <2>1 DEF Sums
  <1>6. SumOf(s) = SumOf(t) + s[n + 1]
    BY <1>1, <1>2, <1>3, <1>4, <1>5
  <1> QED
    BY <1>1, <1>6 DEF t

\* Without one of its numbers.
LEMMA SumWithout ==
    ASSUME NEW s \in Seq(Nat), NEW k \in 1..Len(s)
    PROVE  /\ [s EXCEPT ![k] = 0] \in Seq(Nat)
           /\ Len([s EXCEPT ![k] = 0]) = Len(s)
           /\ SumOf(s) = SumOf([s EXCEPT ![k] = 0]) + s[k]
  <1> DEFINE t == [s EXCEPT ![k] = 0]
  <1>1. /\ t \in Seq(Nat) /\ Len(t) = Len(s) /\ k \in Nat
        /\ t[k] = 0 /\ s[k] \in Nat
        /\ \A i \in 1..Len(s) : i # k => t[i] = s[i]
    OBVIOUS
  <1> HIDE DEF t
  <1>2. PICK f : Sums(s, f) /\ SumOf(s) = f[Len(s)]
    BY SumSteps
  <1>3. PICK g : Sums(t, g) /\ SumOf(t) = g[Len(t)]
    BY <1>1, SumSteps
  <1>4. f[k - 1] = g[k - 1]
    <2>1. /\ k - 1 \in Nat /\ k - 1 <= Len(s)
          /\ \A i \in 1..(k - 1) : s[i] = t[i]
      BY <1>1
    <2> QED
      BY <1>1, <1>2, <1>3, <2>1, SumsAgree
  <1> DEFINE S == {i \in Nat : k + i <= Len(s) => f[k + i] = g[k + i] + s[k]}
  <1>5. 0 \in S
    <2>1. f[k] = f[k - 1] + s[k] /\ g[k] = g[k - 1] + t[k]
      BY <1>1, <1>2, <1>3 DEF Sums
    <2>2. k - 1 \in 0..Len(s)
      BY <1>1
    <2>3. f[k - 1] \in Nat
      BY <1>2, <2>2 DEF Sums
    <2>4. f[k] = g[k] + s[k]
      BY <1>1, <1>4, <2>1, <2>3
    <2>5. k + 0 = k
      BY <1>1
    <2> QED
      BY <2>4, <2>5
  <1>6. ASSUME NEW i \in Nat, i \in S PROVE i + 1 \in S
    <2> SUFFICES ASSUME k + (i + 1) <= Len(s)
                 PROVE  f[k + (i + 1)] = g[k + (i + 1)] + s[k]
      OBVIOUS
    <2> DEFINE n == k + (i + 1)
    <2>1. /\ n \in 1..Len(s) /\ n - 1 = k + i /\ n # k /\ n \in 1..Len(t)
          /\ k + i <= Len(s) /\ n - 1 \in 0..Len(s) /\ n - 1 \in 0..Len(t)
      BY <1>1
    <2>2. f[n - 1] = g[n - 1] + s[k]
      BY <1>6, <2>1
    <2> HIDE DEF n
    <2>3. /\ f[n] = f[n - 1] + s[n] /\ g[n] = g[n - 1] + t[n]
          /\ f[n - 1] \in Nat /\ g[n - 1] \in Nat /\ t[n] = s[n]
          /\ s[n] \in Nat
      <3>1. f[n] = f[n - 1] + s[n] /\ f[n - 1] \in Nat
        BY <1>2, <2>1 DEF Sums
      <3>2. g[n] = g[n - 1] + t[n] /\ g[n - 1] \in Nat
        BY <1>3, <2>1 DEF Sums
      <3>3. t[n] = s[n] /\ s[n] \in Nat
        BY <1>1, <2>1
      <3> QED
        BY <3>1, <3>2, <3>3
    <2>4. \A a, b, d, e \in Nat : a = b + d => a + e = (b + e) + d
      OBVIOUS
    <2>5. f[n] = g[n] + s[k]
      BY <1>1, <2>2, <2>3, <2>4
    <2> QED
      BY <2>5 DEF n
  <1> HIDE DEF S
  <1>7. Nat \subseteq S
    BY <1>5, <1>6, NumberInduction
  <1>8. f[Len(s)] = g[Len(s)] + s[k]
    <2>1. Len(s) - k \in Nat /\ k + (Len(s) - k) = Len(s)
      BY <1>1
    <2>2. Len(s) - k \in S
      BY <1>7, <2>1
    <2> QED
      BY <2>1, <2>2 DEF S
  <1>9. SumOf(s) = SumOf(t) + s[k]
    BY <1>1, <1>2, <1>3, <1>8
  <1> QED
    BY <1>1, <1>9 DEF t

\* Numbers that are found, each at a place of its own, among others have no
\* greater sum than these.
LEMMA SumCovers ==
    ASSUME NEW r \in Seq(Nat), NEW w \in Seq(Nat), NEW g,
           \A n \in 1..Len(r) :
              r[n] # 0 => g[n] \in 1..Len(w) /\ w[g[n]] = r[n],
           \A m, n \in 1..Len(r) :
              r[m] # 0 /\ r[n] # 0 /\ g[m] = g[n] => m = n
    PROVE  SumOf(r) <= SumOf(w)
  <1> DEFINE FoundIn(q, v) ==
               /\ \A n \in 1..Len(q) :
                    q[n] # 0 => g[n] \in 1..Len(v) /\ v[g[n]] = q[n]
               /\ \A m, n \in 1..Len(q) :
                    q[m] # 0 /\ q[n] # 0 /\ g[m] = g[n] => m = n
             S == {k \in Nat : \A q, v \in Seq(Nat) :
                     Len(q) = k /\ FoundIn(q, v) => SumOf(q) <= SumOf(v)}
  <1>1. 0 \in S
    BY SumOfNone, SumIsNat
  <1>2. ASSUME NEW k \in Nat, k \in S PROVE k + 1 \in S
    <2> SUFFICES ASSUME NEW q \in Seq(Nat), NEW v \in Seq(Nat),
                        Len(q) = k + 1, FoundIn(q, v)
                 PROVE  SumOf(q) <= SumOf(v)
      OBVIOUS
    <2> DEFINE p == [i \in 1..k |-> q[i]]
    <2>1. /\ p \in Seq(Nat) /\ Len(p) = k
          /\ \A i \in 1..k : p[i] = q[i]
          /\ SumOf(q) = SumOf(p) + q[k + 1]
          /\ k + 1 \in 1..Len(q) /\ q[k + 1] \in Nat
          /\ \A i \in 1..k : i \in 1..Len(q) /\ i # k + 1
      <3>1. p \in Seq(Nat) /\ SumOf(q) = SumOf(p) + q[k + 1]
        BY SumOfFirst
      <3>2. k + 1 \in 1..Len(q) /\ \A i \in 1..k : i \in 1..Len(q)
        OBVIOUS
      <3>3. q[k + 1] \in Nat
        BY <3>2, ElementOfSeq
      <3>4. Len(p) = k /\ \A i \in 1..k : p[i] = q[i] /\ i # k + 1
        OBVIOUS
      <3> QED
        BY <3>1, <3>2, <3>3, <3>4
    <2> HIDE DEF p
    <2>2. ASSUME NEW u \in Seq(Nat), FoundIn(p, u)
          PROVE  SumOf(p) <= SumOf(u)
      BY <1>2, <2>1, <2>2
    <2>3. CASE q[k + 1] = 0
      <3>1. FoundIn(p, v)
        BY <2>1
      <3>2. SumOf(p) <= SumOf(v) /\ SumOf(q) = SumOf(p) + 0
        BY <2>1, <2>2, <2>3, <3>1
      <3> QED
        BY <2>1, <3>2, SumIsNat
    <2>4. CASE q[k + 1] # 0
      <3> DEFINE j == g[k + 1]
                 u == [v EXCEPT ![j] = 0]
      <3>1. j \in 1..Len(v) /\ v[j] = q[k + 1]
        BY <2>1, <2>4
      <3>2. /\ u \in Seq(Nat) /\ Len(u) = Len(v)
            /\ SumOf(v) = SumOf(u) + v[j]
        BY <3>1, SumWithout
      <3>3. \A i \in 1..Len(v) : i # j => u[i] = v[i]
        OBVIOUS
      <3> HIDE DEF u
      <3>4. FoundIn(p, u)
        <4>1. ASSUME NEW n \in 1..Len(p), p[n] # 0
              PROVE  g[n] \in 1..Len(u) /\ u[g[n]] = p[n]
          <5>1. n \in 1..Len(q) /\ n # k + 1 /\ q[n] = p[n]
            BY <2>1
          <5>2. g[n] \in 1..Len(v) /\ v[g[n]] = p[n]
            BY <4>1, <5>1
          <5>3. g[n] # j
            BY <2>1, <2>4, <4>1, <5>1
          <5> QED
            BY <3>2, <3>3, <5>2, <5>3
        <4>2. ASSUME NEW m \in 1..Len(p), NEW n \in 1..Len(p),
                     p[m] # 0, p[n] # 0, g[m] = g[n]
              PROVE  m = n
          <5>1. /\ m \in 1..Len(q) /\ n \in 1..Len(q)
                /\ q[m] = p[m] /\ q[n] = p[n]
            BY <2>1
          <5> QED
            BY <4>2, <5>1
        <4> QED
          BY <4>1, <4>2
      <3>5. SumOf(p) <= SumOf(u)
        BY <2>2, <3>2, <3>4
      <3>6. SumOf(p) \in Nat /\ SumOf(u) \in Nat
        BY <2>1, <3>2, SumIsNat
      <3> HIDE DEF j
      <3> QED
        BY <2>1, <3>1, <3>2, <3>5, <3>6
    <2> QED
      BY <2>3, <2>4
  <1> HIDE DEF S
  <1>3. Nat \subseteq S
    BY <1>1, <1>2, NumberInduction
  <1>4. Len(r) \in S /\ FoundIn(r, w)
    BY <1>3
  <1> QED
    BY <1>4 DEF S

-----------------------------------------------------------------------------
(* The total of the ledger. *)

\* A record is written once, and not while its append is under way.
WrittenOnce ==
    /\ \A k, l \in 1..Len(ledger) : ledger[k] = ledger[l] => k = l
    /\ \A k \in 1..Len(ledger) : ledger[k] \notin appending

TotalInv == UsageInv /\ WrittenOnce

LEMMA TotalInitInv == UsageInit => TotalInv
  BY UsageInitInv DEF TotalInv, WrittenOnce, UsageInit

LEMMA TotalNextInv == TotalInv /\ [UsageNext]_usageVars => TotalInv'
  <1> SUFFICES ASSUME TotalInv, [UsageNext]_usageVars PROVE WrittenOnce'
    BY UsageNextInv DEF TotalInv
  <1>0. /\ UsageInv /\ WrittenOnce
        /\ ledger \in Seq(1..Len(made)) /\ Len(made) \in Nat
        /\ \A k \in 1..Len(ledger) : ledger[k] \in 1..Len(made)
    <2>1. UsageInv /\ WrittenOnce /\ UsageTypeOK
      BY DEF TotalInv, UsageInv
    <2>2. ledger \in Seq(1..Len(made)) /\ made \in Seq(Record)
      BY <2>1 DEF UsageTypeOK
    <2> QED
      BY <2>1, <2>2
  <1>1. ASSUME ledger' = ledger, appending' \subseteq appending
        PROVE  WrittenOnce'
    BY <1>0, <1>1 DEF WrittenOnce
  <1>2. CASE Deliver
    <2>1. /\ ledger' = ledger
          /\ appending' \subseteq appending \union {Len(made) + 1}
      BY <1>2 DEF Deliver
    <2> QED
      BY <1>0, <2>1 DEF WrittenOnce
  <1>3. ASSUME NEW i \in appending, AppendLine(i)
        PROVE  WrittenOnce'
    <2>1. appending' = appending \ {i} /\ ledger' = Append(ledger, i)
      BY <1>3 DEF AppendLine
    <2>2. i \in 1..Len(made)
      BY <1>0 DEF UsageInv, UsageTypeOK
    <2>3. /\ Len(ledger') = Len(ledger) + 1
          /\ \A k \in 1..Len(ledger') :
               ledger'[k] = IF k = Len(ledger) + 1 THEN i ELSE ledger[k]
      BY <1>0, <2>1, <2>2, AppendProperties
    <2>4. \A k \in 1..Len(ledger) : ledger[k] # i
      BY <1>0 DEF WrittenOnce
    <2>5. \A k \in 1..Len(ledger') :
            k # Len(ledger) + 1 => k \in 1..Len(ledger)
      BY <1>0, <2>3
    <2>6. /\ \A k, l \in 1..Len(ledger) : ledger[k] = ledger[l] => k = l
          /\ \A k \in 1..Len(ledger) : ledger[k] \notin appending
      BY <1>0 DEF WrittenOnce
    <2>7. ASSUME NEW k \in 1..Len(ledger'), NEW l \in 1..Len(ledger'),
                 ledger'[k] = ledger'[l]
          PROVE  k = l
      BY <2>3, <2>4, <2>5, <2>6, <2>7
    <2>8. ASSUME NEW k \in 1..Len(ledger')
          PROVE  ledger'[k] \notin appending'
      BY <2>1, <2>3, <2>5, <2>6
    <2> QED
      BY <2>7, <2>8 DEF WrittenOnce
  <1>4. ASSUME NEW i \in appending, AppendLineFails(i)
        PROVE  WrittenOnce'
    BY <1>1, <1>4 DEF AppendLineFails
  <1>5. CASE \/ TimePasses \/ Resubscribe \/ FeedEnds \/ FeedFails
             \/ RetryFeed \/ ReadLedger \/ Hydrate \/ ProcessRestarts
             \/ UNCHANGED usageVars
    BY <1>1, <1>5
    DEF TimePasses, Resubscribe, FeedEnds, FeedFails, RetryFeed, ReadLedger,
        Hydrate, ProcessRestarts, usageVars
  <1>6. ASSUME NEW r \in Report, HarnessReports(r)
        PROVE  WrittenOnce'
    BY <1>1, <1>6 DEF HarnessReports
  <1> QED
    BY <1>2, <1>3, <1>4, <1>5, <1>6 DEF UsageNext

\* As many lines as records, none twice: every record is written.
LEMMA AllWritten ==
    ASSUME TotalInv, Len(ledger) = Len(made), NEW i \in 1..Len(made)
    PROVE  \E k \in 1..Len(ledger) : ledger[k] = i
  <1> DEFINE N == 1..Len(made)
  <1>0. ledger \in Seq(N) /\ Len(made) \in Nat
    BY DEF TotalInv, UsageInv, UsageTypeOK
  <1>1. ledger \in [N -> N]
    BY <1>0
  <1>2. ledger \in Injection(N, N)
    BY <1>1 DEF TotalInv, WrittenOnce, Injection, IsInjective
  <1>3. IsFiniteSet(N)
    BY <1>0, FS_Interval
  <1> HIDE DEF N
  <1>4. ledger \in Surjection(N, N)
    BY <1>2, <1>3, FS_Injection
  <1>5. \A m \in N : \E k \in N : ledger[k] = m
    BY <1>4 DEF Surjection
  <1> QED
    BY <1>5 DEF N

\* The total over all time covers the messages of the Harness, once all have
\* been delivered and no append is under way or has failed, unless two of
\* them look alike (usageRoute).
THEOREM TotalsCoverReports == UsageSpec => []TotalCoversReports
  <1>1. TotalInv => TotalCoversReports
    <2> SUFFICES ASSUME TotalInv,
                        feed.from = 1, feed.next = Len(reports) + 1,
                        Len(ledger) = Len(made),
                        \A m, n \in 1..Len(reports) :
                           reports[m] = reports[n] =>
                             m = n \/ reports[n].figure = 0
                 PROVE  UsageTotal >= Reported
      BY DEF TotalCoversReports
    <2>0. /\ UsageInv /\ WrittenOnce /\ UsageTypeOK /\ DeliveredIsWritten
          /\ reports \in Seq(Report) /\ ledger \in Seq(1..Len(made))
          /\ Figures \subseteq Nat /\ Len(made) \in Nat
      <3>1. UsageInv /\ WrittenOnce /\ Figures \subseteq Nat
        BY UsageAssumption DEF TotalInv
      <3> QED
        BY <3>1, UsageTypes
    <2>1. \A i \in 1..Len(made) : made[i].figure \in Nat
      <3> SUFFICES ASSUME NEW i \in 1..Len(made)
                   PROVE  made[i].figure \in Nat
        OBVIOUS
      <3>1. made[i] \in Record
        BY <2>0, MadeTypes
      <3> QED
        BY <2>0, <3>1 DEF Record
    <2>2. \A n \in 1..Len(reports) :
            reports[n] \in Report /\ reports[n].figure \in Nat
      <3> SUFFICES ASSUME NEW n \in 1..Len(reports)
                   PROVE  reports[n] \in Report /\ reports[n].figure \in Nat
        OBVIOUS
      <3>1. reports[n] \in Report
        BY <2>0, ElementOfSeq
      <3> QED
        BY <2>0, <3>1 DEF Report
    <2> DEFINE r == [n \in DOMAIN reports |-> reports[n].figure]
               w == [k \in DOMAIN ledger |-> made[ledger[k]].figure]
               Of(n, k) == /\ made[ledger[k]].chat = reports[n].chat
                           /\ made[ledger[k]].figure = reports[n].figure
               g == [n \in 1..Len(reports) |->
                       CHOOSE k \in 1..Len(ledger) : Of(n, k)]
    <2>3. /\ r \in Seq(Nat) /\ Len(r) = Len(reports)
          /\ \A n \in 1..Len(r) : r[n] = reports[n].figure
      <3>1. DOMAIN reports = 1..Len(reports) /\ Len(reports) \in Nat
        BY <2>0
      <3>2. /\ \A n \in 1..Len(reports) :
                 r[n] = reports[n].figure /\ r[n] \in Nat
            /\ r = [n \in 1..Len(reports) |-> r[n]]
        BY <2>2, <3>1
      <3> HIDE DEF r
      <3>3. r \in [1..Len(reports) -> Nat]
        BY <3>2
      <3> QED
        BY <3>1, <3>2, <3>3
    <2>4. /\ w \in Seq(Nat) /\ Len(w) = Len(ledger)
          /\ \A k \in 1..Len(w) : w[k] = made[ledger[k]].figure
      <3>1. \A k \in 1..Len(ledger) : ledger[k] \in 1..Len(made)
        BY <2>0, ElementOfSeq
      <3>2. DOMAIN ledger = 1..Len(ledger) /\ Len(ledger) \in Nat
        BY <2>0
      <3>3. \A k \in 1..Len(ledger) :
              w[k] = made[ledger[k]].figure /\ w[k] \in Nat
        BY <2>1, <3>1, <3>2
      <3>4. w = [k \in 1..Len(ledger) |-> w[k]]
        BY <3>2
      <3> HIDE DEF w
      <3>5. w \in [1..Len(ledger) -> Nat]
        BY <3>3, <3>4
      <3> QED
        BY <3>2, <3>3, <3>5
    <2>5. ASSUME NEW n \in 1..Len(reports), reports[n].figure # 0
          PROVE  g[n] \in 1..Len(ledger) /\ Of(n, g[n])
      <3>1. n \in feed.from..feed.next - 1
        BY <2>0
      <3>2. PICK i \in 1..Len(made) : /\ made[i].chat = reports[n].chat
                                      /\ made[i].figure = reports[n].figure
        BY <2>0, <2>5, <3>1, AccountedTypes DEF DeliveredIsWritten
      <3>3. PICK k \in 1..Len(ledger) : ledger[k] = i
        BY AllWritten
      <3>4. Of(n, k)
        BY <3>2, <3>3
      <3> HIDE DEF Of
      <3> QED
        BY <3>4
    <2>6. ASSUME NEW m \in 1..Len(reports), NEW n \in 1..Len(reports),
                 reports[m].figure # 0, reports[n].figure # 0, g[m] = g[n]
          PROVE  m = n
      <3> HIDE DEF g
      <3>1. /\ reports[m].chat = reports[n].chat
            /\ reports[m].figure = reports[n].figure
        BY <2>5, <2>6
      <3>2. reports[m] = reports[n]
        BY <2>2, <3>1 DEF Report
      <3> QED
        BY <2>6, <3>2
    <2>7. UsageTotal = SumOf(w) /\ Reported = SumOf(r)
      BY DEF UsageTotal, Reported
    <2> HIDE DEF r, w, g
    <2>8. SumOf(r) <= SumOf(w)
      <3>1. \A n \in 1..Len(r) :
              r[n] # 0 => g[n] \in 1..Len(w) /\ w[g[n]] = r[n]
        BY <2>3, <2>4, <2>5
      <3>2. \A m, n \in 1..Len(r) :
              r[m] # 0 /\ r[n] # 0 /\ g[m] = g[n] => m = n
        BY <2>3, <2>6
      <3> QED
        BY <2>3, <2>4, <3>1, <3>2, SumCovers
    <2> QED
      BY <2>3, <2>4, <2>7, <2>8, SumIsNat
  <1> QED
    BY <1>1, TotalInitInv, TotalNextInv, PTL DEF UsageSpec

-----------------------------------------------------------------------------
(* The stores of content. *)

Adding ==
    [at : {"idle", "begin", "absent", "object", "placed", "manifest",
           "written", "clean"},
     store : Stores, open : Paths \union {"none", "gone"}]

\* What a request has open where it is.
OpenFits ==
    \A w \in Adders :
        /\ adder[w].at \notin {"object", "manifest"} => adder[w].open = "none"
        /\ adder[w].at = "manifest"
             => adder[w].open \in {"manifest", "manifestTmp", "gone"}
        /\ adder[w].at = "object"
             => adder[w].open \in {"object", "objectTmp", "gone", "none"}
        /\ adder[w].at = "object" /\ adder[w].store = "artifacts"
             => adder[w].open = "object"
        /\ adder[w].at = "absent" => adder[w].store = "artifacts"

\* The object is there before a manifest is, and it stays.
ObjectComesFirst ==
    /\ \A s \in Stores :
         file[s]["manifest"] # "none" => file[s]["object"] # "none"
    /\ \A w \in Adders :
         \/ adder[w].at \in {"placed", "manifest", "written"}
         \/ adder[w].open = "object"
         => file[adder[w].store]["object"] # "none"

HasWriter(s, p) ==
    \E w \in Adders : adder[w].store = s /\ adder[w].open = p

\* A torn object is being written, and so is a torn temporary file of a
\* document that some request is about to rename.
TornIsWritten ==
    /\ \A s \in Stores \ broken :
         file[s]["object"] = "torn" => HasWriter(s, "object")
    /\ /\ "documents" \notin broken
       /\ file["documents"]["objectTmp"] = "torn"
       /\ \E w \in Adders : /\ adder[w].store = "documents"
                            /\ adder[w].at = "object"
       => HasWriter("documents", "objectTmp")

ContentInv == ContentTypeOK /\ OpenFits /\ ObjectComesFirst /\ TornIsWritten

LEMMA AdderTypes ==
    ASSUME ContentTypeOK, NEW w \in Adders
    PROVE  /\ adder[w] \in Adding /\ adder[w].store \in Stores
           /\ adder[w].at \in {"idle", "begin", "absent", "object", "placed",
                               "manifest", "written", "clean"}
           /\ adder[w].open \in Paths \union {"none", "gone"}
  BY DEF ContentTypeOK, Adding

LEMMA AdderFunction == ContentTypeOK => adder \in [Adders -> Adding]
  BY DEF ContentTypeOK, Adding

LEMMA ContentInitInv == ContentInit => ContentInv
  <1> SUFFICES ASSUME ContentInit PROVE ContentInv
    OBVIOUS
  <1>1. /\ \A s \in Stores, p \in Paths : file[s][p] = "none"
        /\ \A w \in Adders : adder[w] = NotAdding
        /\ NotAdding \in Adding
    BY DEF ContentInit, NotAdding, Adding, Stores, Paths
  <1>2. ContentTypeOK
    BY <1>1 DEF ContentInit, ContentTypeOK, Adding
  <1>3. OpenFits
    BY <1>1 DEF OpenFits, NotAdding
  <1>4. ObjectComesFirst /\ TornIsWritten
    BY <1>1
    DEF ObjectComesFirst, TornIsWritten, NotAdding, Stores, Paths
  <1> QED
    BY <1>2, <1>3, <1>4 DEF ContentInv

LEMMA InvListed == ContentInv => ListedIsReadable
  <1> SUFFICES ASSUME ContentInv, NEW s \in Stores \ broken,
                      file[s]["manifest"] = "whole",
                      \A w \in Adders :
                         adder[w].store = s => adder[w].open # "object"
               PROVE  file[s]["object"] = "whole"
    BY DEF ListedIsReadable
  <1>1. file[s]["object"] # "none"
    BY DEF ContentInv, ObjectComesFirst
  <1>2. file[s]["object"] \in {"none", "torn", "whole"}
    BY DEF ContentInv, ContentTypeOK, Paths
  <1>3. ASSUME file[s]["object"] = "torn" PROVE FALSE
    <2>1. PICK w \in Adders : adder[w].store = s /\ adder[w].open = "object"
      BY <1>3 DEF ContentInv, TornIsWritten, HasWriter
    <2> QED
      BY <2>1
  <1> QED
    BY <1>1, <1>2, <1>3

\* A step of w that leaves the files and what other requests have open.
LEMMA QuietStep ==
    ASSUME ContentInv, NEW w \in Adders, NEW a \in Adding,
           adder' = [adder EXCEPT ![w] = a], UNCHANGED <<file, broken>>,
           adder[w].open = "none" /\ a.open = "none",
           a.at \notin {"manifest", "object"},
           a.at = "absent" => a.store = "artifacts",
           a.at \in {"placed", "written"} =>
             file[a.store]["object"] # "none"
    PROVE  ContentInv'
  <1>1. /\ ContentTypeOK /\ OpenFits /\ ObjectComesFirst /\ TornIsWritten
        /\ adder \in [Adders -> Adding]
    BY DEF ContentInv, ContentTypeOK, Adding
  <1>2. /\ adder' \in [Adders -> Adding] /\ adder'[w] = a
        /\ \A v \in Adders : v # w => adder'[v] = adder[v]
    BY <1>1
  <1>3. ContentTypeOK'
    BY <1>1, <1>2 DEF ContentTypeOK, Adding
  <1>4. OpenFits'
    BY <1>1, <1>2 DEF OpenFits
  <1>5. ObjectComesFirst'
    BY <1>1, <1>2 DEF ObjectComesFirst, Adding
  <1>6. \A s \in Stores, p \in Paths : HasWriter(s, p) => HasWriter(s, p)'
    <2> SUFFICES ASSUME NEW s \in Stores, NEW p \in Paths, HasWriter(s, p)
                 PROVE  HasWriter(s, p)'
      OBVIOUS
    <2>1. PICK v \in Adders : adder[v].store = s /\ adder[v].open = p
      BY DEF HasWriter
    <2>2. v # w
      BY <2>1 DEF Paths
    <2> QED
      BY <1>2, <2>1, <2>2 DEF HasWriter
  <1>7. TornIsWritten'
    <2>1. ASSUME NEW v \in Adders, adder'[v].store = "documents",
                 adder'[v].at = "object"
          PROVE  adder[v].store = "documents" /\ adder[v].at = "object"
      BY <1>2, <2>1
    <2> QED
      BY <1>1, <1>6, <2>1 DEF TornIsWritten, Stores, Paths
  <1> QED
    BY <1>3, <1>4, <1>5, <1>7 DEF ContentInv

\* w opens a file, which is torn from now on.
LEMMA OpenStep ==
    ASSUME ContentInv, NEW w \in Adders, NEW p \in Paths, NEW place,
           OpenFile(w, p, place), UNCHANGED broken,
           adder[w].open = "none",
           \/ /\ place = "object"
              /\ p = IF adder[w].store = "documents" THEN "objectTmp"
                     ELSE "object"
           \/ /\ adder[w].at = "placed" /\ place = "manifest"
              /\ p = IF adder[w].store = "documents" THEN "manifest"
                     ELSE "manifestTmp"
    PROVE  ContentInv'
  <1> DEFINE s == adder[w].store
             a == [adder[w] EXCEPT !.at = place, !.open = p]
  <1>1. /\ ContentTypeOK /\ OpenFits /\ ObjectComesFirst /\ TornIsWritten
        /\ adder \in [Adders -> Adding] /\ s \in Stores
        /\ file \in [Stores -> [Paths -> {"none", "torn", "whole"}]]
    BY DEF ContentInv, ContentTypeOK, Adding
  <1>2. a \in Adding /\ a.at = place /\ a.open = p /\ a.store = s
    BY <1>1 DEF Adding
  <1>3. /\ adder' \in [Adders -> Adding] /\ adder'[w] = a
        /\ \A v \in Adders : v # w => adder'[v] = adder[v]
    BY <1>1, <1>2 DEF OpenFile
  <1>4. /\ file' \in [Stores -> [Paths -> {"none", "torn", "whole"}]]
        /\ \A t \in Stores, q \in Paths :
             file'[t][q] = IF t = s /\ q = p THEN "torn" ELSE file[t][q]
    BY <1>1 DEF OpenFile
  <1> HIDE DEF a
  <1>5. ContentTypeOK'
    BY <1>1, <1>3, <1>4 DEF ContentTypeOK, Adding
  <1>6. OpenFits'
    BY <1>1, <1>2, <1>3 DEF OpenFits, Stores
  <1>7. ObjectComesFirst'
    <2>1. \A t \in Stores :
            file[t]["object"] # "none" => file'[t]["object"] # "none"
      BY <1>4 DEF Paths
    <2>2. ASSUME NEW t \in Stores, file'[t]["manifest"] # "none"
          PROVE  file'[t]["object"] # "none"
      <3>1. CASE t = s /\ p = "manifest"
        <4>1. file[s]["object"] # "none"
          BY <1>1, <3>1 DEF ObjectComesFirst
        <4> QED
          BY <2>1, <3>1, <4>1
      <3>2. CASE ~(t = s /\ p = "manifest")
        <4>1. file'[t]["manifest"] = file[t]["manifest"]
          BY <1>4, <3>2 DEF Paths
        <4> QED
          BY <1>1, <2>1, <2>2, <4>1 DEF ObjectComesFirst
      <3> QED
        BY <3>1, <3>2
    <2>3. ASSUME NEW v \in Adders,
                 \/ adder'[v].at \in {"placed", "manifest", "written"}
                 \/ adder'[v].open = "object"
          PROVE  file'[adder'[v].store]["object"] # "none"
      <3>1. CASE v = w /\ p = "object"
        BY <1>1, <1>2, <1>3, <1>4, <3>1
      <3>2. CASE v = w /\ p # "object"
        <4>1. place = "manifest"
          BY <1>2, <1>3, <2>3, <3>2
        <4>2. file[s]["object"] # "none"
          BY <1>1, <4>1 DEF ObjectComesFirst
        <4> QED
          BY <1>1, <1>2, <1>3, <2>1, <3>2, <4>2
      <3>3. CASE v # w
        <4>1. adder'[v] = adder[v] /\ adder[v].store \in Stores
          BY <1>1, <1>3, <3>3, AdderTypes
        <4> QED
          BY <1>1, <2>1, <2>3, <4>1 DEF ObjectComesFirst
      <3> QED
        BY <3>1, <3>2, <3>3
    <2> QED
      BY <2>2, <2>3 DEF ObjectComesFirst
  <1>8. \A t \in Stores, q \in Paths : HasWriter(t, q) => HasWriter(t, q)'
    <2> SUFFICES ASSUME NEW t \in Stores, NEW q \in Paths, HasWriter(t, q)
                 PROVE  HasWriter(t, q)'
      OBVIOUS
    <2>1. PICK v \in Adders : adder[v].store = t /\ adder[v].open = q
      BY DEF HasWriter
    <2>2. v # w
      BY <2>1 DEF Paths
    <2> QED
      BY <1>3, <2>1, <2>2 DEF HasWriter
  <1>9. adder'[w].store = s /\ adder'[w].open = p
    BY <1>2, <1>3
  <1>10. TornIsWritten'
    <2>1. ASSUME NEW t \in Stores \ broken, file'[t]["object"] = "torn"
          PROVE  HasWriter(t, "object")'
      <3>1. CASE t = s /\ p = "object"
        BY <1>9, <3>1 DEF HasWriter
      <3>2. CASE ~(t = s /\ p = "object")
        <4>1. file[t]["object"] = "torn"
          BY <1>4, <2>1, <3>2 DEF Paths
        <4> QED
          BY <1>1, <1>8, <2>1, <4>1 DEF TornIsWritten, Paths
      <3> QED
        BY <3>1, <3>2
    <2>2. ASSUME "documents" \notin broken,
                 file'["documents"]["objectTmp"] = "torn",
                 NEW v \in Adders, adder'[v].store = "documents",
                 adder'[v].at = "object"
          PROVE  HasWriter("documents", "objectTmp")'
      <3>1. CASE s = "documents" /\ p = "objectTmp"
        BY <1>9, <3>1 DEF HasWriter
      <3>2. CASE ~(s = "documents" /\ p = "objectTmp")
        <4>1. file["documents"]["objectTmp"] = "torn"
          BY <1>4, <2>2, <3>2 DEF Stores, Paths
        <4>2. v # w
          BY <1>2, <1>3, <2>2, <3>2
        <4>3. HasWriter("documents", "objectTmp")
          BY <1>1, <1>3, <2>2, <4>1, <4>2 DEF TornIsWritten
        <4> QED
          BY <1>8, <4>3 DEF Stores, Paths
      <3> QED
        BY <3>1, <3>2
    <2> QED
      BY <2>1, <2>2 DEF TornIsWritten
  <1> QED
    BY <1>5, <1>6, <1>7, <1>10 DEF ContentInv

\* w has written what it has open; its next place needs no more.
LEMMA WrittenStep ==
    ASSUME ContentInv, NEW w \in Adders, NEW a \in Adding, Written(w),
           adder' = [adder EXCEPT ![w] = a], UNCHANGED broken,
           adder[w].at \in {"object", "manifest"}, a.open = "none",
           a.store = adder[w].store,
           \/ a.at \in {"written", "clean"} /\ adder[w].at = "manifest"
           \/ /\ adder[w].at = "object"
              /\ a.at = IF a.store = "artifacts" THEN "placed" ELSE "object"
    PROVE  ContentInv'
  <1> DEFINE s == adder[w].store
             p == adder[w].open
  <1>1. /\ ContentTypeOK /\ OpenFits /\ ObjectComesFirst /\ TornIsWritten
        /\ adder \in [Adders -> Adding] /\ s \in Stores
        /\ file \in [Stores -> [Paths -> {"none", "torn", "whole"}]]
    BY DEF ContentInv, ContentTypeOK, Adding
  <1>2. /\ adder' \in [Adders -> Adding] /\ adder'[w] = a
        /\ \A v \in Adders : v # w => adder'[v] = adder[v]
    BY <1>1
  <1>3. /\ file' \in [Stores -> [Paths -> {"none", "torn", "whole"}]]
        /\ \A t \in Stores, q \in Paths :
             \/ file'[t][q] = file[t][q]
             \/ file'[t][q] = "whole" /\ t = s /\ q = p
        /\ \/ p \notin Paths
           \/ \E v \in Adders \ {w} : adder[v].store = s /\ adder[v].open = p
           \/ file'[s][p] = "whole"
    <2>1. p \in Paths \union {"none", "gone"}
      BY <1>1, AdderTypes
    <2> QED
      BY <1>1, <2>1 DEF Written, Paths
  <1>4. ContentTypeOK'
    BY <1>1, <1>2, <1>3 DEF ContentTypeOK, Adding
  <1>5. OpenFits'
    BY <1>1, <1>2 DEF OpenFits
  <1>6. ObjectComesFirst'
    <2>1. \A t \in Stores :
            file[t]["object"] # "none" => file'[t]["object"] # "none"
      BY <1>3 DEF Paths
    <2>2. ASSUME NEW t \in Stores, file'[t]["manifest"] # "none"
          PROVE  file'[t]["object"] # "none"
      <3>1. CASE t = s /\ p = "manifest"
        <4>1. adder[w].at = "manifest"
          BY <1>1, <3>1 DEF OpenFits
        <4> QED
          BY <1>1, <2>1, <3>1, <4>1 DEF ObjectComesFirst
      <3>2. CASE ~(t = s /\ p = "manifest")
        BY <1>1, <1>3, <2>1, <2>2, <3>2 DEF ObjectComesFirst, Paths
      <3> QED
        BY <3>1, <3>2
    <2>3. ASSUME NEW v \in Adders,
                 \/ adder'[v].at \in {"placed", "manifest", "written"}
                 \/ adder'[v].open = "object"
          PROVE  file'[adder'[v].store]["object"] # "none"
      <3>1. CASE v = w
        <4>1. adder'[v] = a /\ a.at \in {"placed", "written"}
          BY <1>2, <2>3, <3>1
        <4>2. adder[w].at = "manifest" \/ adder[w].open = "object"
          BY <1>1, <4>1 DEF OpenFits
        <4> QED
          BY <1>1, <2>1, <3>1, <4>1, <4>2 DEF ObjectComesFirst
      <3>2. CASE v # w
        <4>1. adder'[v] = adder[v] /\ adder[v].store \in Stores
          BY <1>1, <1>2, <3>2, AdderTypes
        <4> QED
          BY <1>1, <2>1, <2>3, <4>1 DEF ObjectComesFirst
      <3> QED
        BY <3>1, <3>2
    <2> QED
      BY <2>2, <2>3 DEF ObjectComesFirst
  <1>7. ASSUME NEW t \in Stores, NEW q \in Paths, HasWriter(t, q),
               file'[t][q] = "torn"
        PROVE  HasWriter(t, q)'
    <2>1. PICK v \in Adders : adder[v].store = t /\ adder[v].open = q
      BY <1>7 DEF HasWriter
    <2>2. CASE v # w
      BY <1>2, <2>1, <2>2 DEF HasWriter
    <2>3. CASE v = w
      <3>1. t = s /\ q = p
        BY <2>1, <2>3
      <3>2. PICK u \in Adders \ {w} : adder[u].store = s /\ adder[u].open = p
        BY <1>3, <1>7, <3>1
      <3> QED
        BY <1>2, <3>1, <3>2 DEF HasWriter
    <2> QED
      BY <2>2, <2>3
  <1>8. TornIsWritten'
    <2>1. ASSUME NEW t \in Stores \ broken, file'[t]["object"] = "torn"
          PROVE  HasWriter(t, "object")'
      <3>1. file[t]["object"] = "torn"
        BY <1>3, <2>1 DEF Paths
      <3> QED
        BY <1>1, <1>7, <2>1, <3>1 DEF TornIsWritten, Paths
    <2>2. ASSUME "documents" \notin broken,
                 file'["documents"]["objectTmp"] = "torn",
                 NEW v \in Adders, adder'[v].store = "documents",
                 adder'[v].at = "object"
          PROVE  HasWriter("documents", "objectTmp")'
      <3>1. file["documents"]["objectTmp"] = "torn"
        BY <1>3, <2>2 DEF Paths, Stores
      <3>2. adder[v].store = "documents" /\ adder[v].at = "object"
        BY <1>2, <2>2
      <3>3. HasWriter("documents", "objectTmp")
        BY <1>1, <2>2, <3>1, <3>2 DEF TornIsWritten
      <3> QED
        BY <1>7, <2>2, <3>3 DEF Stores, Paths
    <2> QED
      BY <2>1, <2>2 DEF TornIsWritten
  <1> QED
    BY <1>4, <1>5, <1>6, <1>8 DEF ContentInv

\* What a renaming does to the files and to what requests have open.
RenamedTo(w, from, to, place) ==
    /\ file' \in [Stores -> [Paths -> {"none", "torn", "whole"}]]
    /\ \A t \in Stores, q \in Paths :
         file'[t][q] = IF t # adder[w].store THEN file[t][q]
                       ELSE IF q = to THEN file[t][from]
                       ELSE IF q = from THEN "none" ELSE file[t][q]
    /\ adder' \in [Adders -> Adding]
    /\ adder'[w] = [adder[w] EXCEPT !.at = place]
    /\ \A v \in Adders : v # w =>
         /\ adder'[v].store = adder[v].store
         /\ adder'[v].at = adder[v].at
         /\ adder'[v].open =
              IF adder[v].store # adder[w].store THEN adder[v].open
              ELSE IF adder[v].open = from THEN to
              ELSE IF adder[v].open = to THEN "gone" ELSE adder[v].open

LEMMA RenameFacts ==
    ASSUME ContentTypeOK, NEW w \in Adders, NEW from \in Paths,
           NEW to \in Paths, from # to,
           NEW place \in {"placed", "idle"}, Rename(w, from, to, place)
    PROVE  RenamedTo(w, from, to, place)
  <1>1. /\ adder \in [Adders -> Adding] /\ adder[w].store \in Stores
        /\ file \in [Stores -> [Paths -> {"none", "torn", "whole"}]]
    BY DEF ContentTypeOK, Adding
  <1>2. /\ file' \in [Stores -> [Paths -> {"none", "torn", "whole"}]]
        /\ \A t \in Stores, q \in Paths :
             file'[t][q] = IF t # adder[w].store THEN file[t][q]
                           ELSE IF q = to THEN file[t][from]
                           ELSE IF q = from THEN "none" ELSE file[t][q]
    <2>1. [file[adder[w].store] EXCEPT ![to] = file[adder[w].store][from],
                                       ![from] = "none"]
            \in [Paths -> {"none", "torn", "whole"}]
      BY <1>1
    <2> QED
      BY <1>1, <2>1 DEF Rename
  <1> DEFINE moved(o) == CASE o = from -> to [] o = to -> "gone" [] OTHER -> o
  <1>3. /\ adder' = [v \in Adders |->
             IF v = w THEN [adder[w] EXCEPT !.at = place]
             ELSE IF adder[v].store # adder[w].store THEN adder[v]
             ELSE [adder[v] EXCEPT !.open = moved(@)]]
        /\ \A o : moved(o) = IF o = from THEN to
                             ELSE IF o = to THEN "gone" ELSE o
    BY DEF Rename
  <1> HIDE DEF moved
  <1>4. ASSUME NEW v \in Adders
        PROVE  /\ adder'[v] \in Adding
               /\ v = w => adder'[v] = [adder[w] EXCEPT !.at = place]
               /\ v # w =>
                    /\ adder'[v].store = adder[v].store
                    /\ adder'[v].at = adder[v].at
                    /\ adder'[v].open =
                         IF adder[v].store # adder[w].store
                         THEN adder[v].open ELSE moved(adder[v].open)
    <2>1. adder[v] \in Adding /\ adder[w] \in Adding
      BY <1>1
    <2>2. moved(adder[v].open) \in Paths \union {"none", "gone"}
      BY <1>3, <2>1 DEF Adding
    <2>3. CASE v = w
      BY <1>3, <2>1, <2>3 DEF Adding
    <2>4. CASE v # w /\ adder[v].store # adder[w].store
      BY <1>3, <2>1, <2>4
    <2>5. CASE v # w /\ adder[v].store = adder[w].store
      <3>1. adder'[v] = [adder[v] EXCEPT !.open = moved(adder[v].open)]
        BY <1>3, <2>5
      <3> QED
        BY <2>1, <2>2, <2>5, <3>1 DEF Adding
    <2> QED
      BY <2>3, <2>4, <2>5
  <1>5. adder' \in [Adders -> Adding]
    BY <1>3, <1>4
  <1> QED
    BY <1>2, <1>3, <1>4, <1>5 DEF RenamedTo

LEMMA RenameObjectStep ==
    ASSUME ContentInv, NEW w \in Adders, adder[w].at = "object",
           adder[w].open = "none", UNCHANGED broken,
           file[adder[w].store]["objectTmp"] # "none",
           Rename(w, "objectTmp", "object", "placed")
    PROVE  ContentInv'
  <1>1. /\ ContentTypeOK /\ OpenFits /\ ObjectComesFirst /\ TornIsWritten
        /\ adder[w].store = "documents" /\ adder[w] \in Adding
    BY AdderTypes DEF ContentInv, OpenFits, Stores
  <1>2. /\ file' \in [Stores -> [Paths -> {"none", "torn", "whole"}]]
        /\ \A p \in Paths : file'["artifacts"][p] = file["artifacts"][p]
        /\ file'["documents"]["object"] = file["documents"]["objectTmp"]
        /\ file'["documents"]["objectTmp"] = "none"
        /\ file'["documents"]["manifest"] = file["documents"]["manifest"]
        /\ adder' \in [Adders -> Adding]
        /\ adder'[w] = [adder[w] EXCEPT !.at = "placed"]
        /\ \A v \in Adders : v # w =>
             /\ adder'[v].store = adder[v].store
             /\ adder'[v].at = adder[v].at
             /\ adder'[v].open =
                  IF adder[v].store # "documents" THEN adder[v].open
                  ELSE IF adder[v].open = "objectTmp" THEN "object"
                  ELSE IF adder[v].open = "object" THEN "gone"
                  ELSE adder[v].open
    <2>1. "object" \in Paths /\ "objectTmp" \in Paths /\ "manifest" \in Paths
          /\ "documents" \in Stores /\ "artifacts" \in Stores
      BY DEF Paths, Stores
    <2>2. RenamedTo(w, "objectTmp", "object", "placed")
      BY <1>1, <2>1, RenameFacts
    <2> QED
      BY <1>1, <2>1, <2>2 DEF RenamedTo
  <1>3. /\ adder'[w].at = "placed" /\ adder'[w].open = "none"
        /\ adder'[w].store = "documents"
    BY <1>1, <1>2 DEF Adding
  <1>4. ContentTypeOK'
    BY <1>1, <1>2 DEF ContentTypeOK, Adding
  <1>5. OpenFits'
    <2> SUFFICES ASSUME NEW v \in Adders
        PROVE  /\ adder'[v].at \notin {"object", "manifest"}
                    => adder'[v].open = "none"
               /\ adder'[v].at = "manifest"
                    => adder'[v].open \in {"manifest", "manifestTmp", "gone"}
               /\ adder'[v].at = "object" =>
                    adder'[v].open \in {"object", "objectTmp", "gone", "none"}
               /\ adder'[v].at = "object" /\ adder'[v].store = "artifacts"
                    => adder'[v].open = "object"
               /\ adder'[v].at = "absent" => adder'[v].store = "artifacts"
      BY DEF OpenFits
    <2>1. CASE v = w
      BY <1>3, <2>1
    <2>2. CASE v # w
      BY <1>1, <1>2, <2>2 DEF OpenFits
    <2> QED
      BY <2>1, <2>2
  <1>6. ObjectComesFirst'
    <2>1. file'["documents"]["object"] # "none"
      BY <1>1, <1>2
    <2>2. ASSUME NEW v \in Adders, adder'[v].store = "artifacts",
                 \/ adder'[v].at \in {"placed", "manifest", "written"}
                 \/ adder'[v].open = "object"
          PROVE  file'["artifacts"]["object"] # "none"
      <3>1. v # w /\ adder[v].store = "artifacts"
        BY <1>2, <1>3, <2>2
      <3>2. adder[v].at = adder'[v].at /\ adder[v].open = adder'[v].open
        BY <1>2, <3>1
      <3> QED
        BY <1>1, <1>2, <2>2, <3>1, <3>2 DEF ObjectComesFirst, Paths
    <2>3. \A v \in Adders : adder'[v].store \in Stores
      BY <1>2 DEF Adding
    <2> QED
      BY <1>1, <1>2, <2>1, <2>2, <2>3 DEF ObjectComesFirst, Stores, Paths
  <1>7. TornIsWritten'
    <2>1. ASSUME "artifacts" \notin broken,
                 file'["artifacts"]["object"] = "torn"
          PROVE  HasWriter("artifacts", "object")'
      <3>1. HasWriter("artifacts", "object")
        BY <1>1, <1>2, <2>1 DEF TornIsWritten, Stores, Paths
      <3>2. PICK v \in Adders : adder[v].store = "artifacts"
                                /\ adder[v].open = "object"
        BY <3>1 DEF HasWriter
      <3>3. v # w
        BY <1>1, <3>2
      <3> QED
        BY <1>2, <3>2, <3>3 DEF HasWriter
    <2>2. ASSUME "documents" \notin broken,
                 file'["documents"]["object"] = "torn"
          PROVE  HasWriter("documents", "object")'
      <3>1. HasWriter("documents", "objectTmp")
        BY <1>1, <1>2, <2>2 DEF TornIsWritten
      <3>2. PICK v \in Adders : adder[v].store = "documents"
                                /\ adder[v].open = "objectTmp"
        BY <3>1 DEF HasWriter
      <3>3. v # w
        BY <3>2
      <3> QED
        BY <1>2, <3>2, <3>3 DEF HasWriter
    <2> QED
      BY <1>2, <2>1, <2>2 DEF TornIsWritten, Stores
  <1> QED
    BY <1>4, <1>5, <1>6, <1>7 DEF ContentInv

LEMMA RenameManifestStep ==
    ASSUME ContentInv, NEW w \in Adders, adder[w].at = "written",
           UNCHANGED broken, Rename(w, "manifestTmp", "manifest", "idle")
    PROVE  ContentInv'
  <1> DEFINE s == adder[w].store
  <1>1. /\ ContentTypeOK /\ OpenFits /\ ObjectComesFirst /\ TornIsWritten
        /\ s \in Stores /\ adder[w] \in Adding /\ adder[w].open = "none"
        /\ file[s]["object"] # "none"
    BY AdderTypes DEF ContentInv, OpenFits, ObjectComesFirst
  <1>2. /\ file' \in [Stores -> [Paths -> {"none", "torn", "whole"}]]
        /\ \A t \in Stores : /\ file'[t]["object"] = file[t]["object"]
                             /\ file'[t]["objectTmp"] = file[t]["objectTmp"]
                             /\ t # s => file'[t]["manifest"]
                                           = file[t]["manifest"]
        /\ adder' \in [Adders -> Adding]
        /\ adder'[w] = [adder[w] EXCEPT !.at = "idle"]
        /\ \A v \in Adders : v # w =>
             /\ adder'[v].store = adder[v].store
             /\ adder'[v].at = adder[v].at
             /\ adder'[v].open =
                  IF adder[v].store # s THEN adder[v].open
                  ELSE IF adder[v].open = "manifestTmp" THEN "manifest"
                  ELSE IF adder[v].open = "manifest" THEN "gone"
                  ELSE adder[v].open
    <2>1. "object" \in Paths /\ "objectTmp" \in Paths /\ "manifest" \in Paths
          /\ "manifestTmp" \in Paths
      BY DEF Paths
    <2>2. RenamedTo(w, "manifestTmp", "manifest", "idle")
      BY <1>1, <2>1, RenameFacts
    <2> QED
      BY <1>1, <2>1, <2>2 DEF RenamedTo
  <1>3. /\ adder'[w].at = "idle" /\ adder'[w].open = "none"
        /\ adder'[w].store = s
    BY <1>1, <1>2 DEF Adding
  <1>4. ContentTypeOK'
    BY <1>1, <1>2 DEF ContentTypeOK, Adding
  <1>5. OpenFits'
    <2> SUFFICES ASSUME NEW v \in Adders
        PROVE  /\ adder'[v].at \notin {"object", "manifest"}
                    => adder'[v].open = "none"
               /\ adder'[v].at = "manifest"
                    => adder'[v].open \in {"manifest", "manifestTmp", "gone"}
               /\ adder'[v].at = "object" =>
                    adder'[v].open \in {"object", "objectTmp", "gone", "none"}
               /\ adder'[v].at = "object" /\ adder'[v].store = "artifacts"
                    => adder'[v].open = "object"
               /\ adder'[v].at = "absent" => adder'[v].store = "artifacts"
      BY DEF OpenFits
    <2>1. CASE v = w
      BY <1>3, <2>1
    <2>2. CASE v # w
      BY <1>1, <1>2, <2>2 DEF OpenFits
    <2> QED
      BY <2>1, <2>2
  <1>6. ObjectComesFirst'
    <2>1. ASSUME NEW v \in Adders,
                 \/ adder'[v].at \in {"placed", "manifest", "written"}
                 \/ adder'[v].open = "object"
          PROVE  file'[adder'[v].store]["object"] # "none"
      <3>1. v # w
        BY <1>3, <2>1
      <3>2. /\ adder[v].at = adder'[v].at /\ adder[v].store = adder'[v].store
            /\ adder'[v].open = "object" => adder[v].open = "object"
            /\ adder[v].store \in Stores
        BY <1>1, <1>2, <3>1, AdderTypes
      <3> QED
        BY <1>1, <1>2, <2>1, <3>2 DEF ObjectComesFirst
    <2>2. ASSUME NEW t \in Stores, file'[t]["manifest"] # "none"
          PROVE  file'[t]["object"] # "none"
      BY <1>1, <1>2, <2>2 DEF ObjectComesFirst
    <2> QED
      BY <2>1, <2>2 DEF ObjectComesFirst
  <1>7. \A t \in Stores, q \in {"object", "objectTmp"} :
          HasWriter(t, q) => HasWriter(t, q)'
    <2> SUFFICES ASSUME NEW t \in Stores, NEW q \in {"object", "objectTmp"},
                        HasWriter(t, q)
                 PROVE  HasWriter(t, q)'
      OBVIOUS
    <2>1. PICK v \in Adders : adder[v].store = t /\ adder[v].open = q
      BY DEF HasWriter
    <2>2. v # w
      BY <1>1, <2>1
    <2> QED
      BY <1>2, <2>1, <2>2 DEF HasWriter
  <1>8. TornIsWritten'
    <2>1. ASSUME NEW v \in Adders, adder'[v].at = "object"
          PROVE  adder[v].at = "object" /\ adder[v].store = adder'[v].store
      BY <1>2, <1>3, <2>1
    <2> QED
      BY <1>1, <1>2, <1>7, <2>1 DEF TornIsWritten, Stores
  <1> QED
    BY <1>4, <1>5, <1>6, <1>8 DEF ContentInv

LEMMA RemoveTemporaryStep ==
    ASSUME ContentInv, NEW w \in Adders, RemoveTemporary(w)
    PROVE  ContentInv'
  <1>1. /\ ContentTypeOK /\ OpenFits /\ ObjectComesFirst /\ TornIsWritten
        /\ adder[w].open = "none" /\ adder[w].at = "clean"
        /\ NotAdding \in Adding
    BY DEF ContentInv, RemoveTemporary, OpenFits, NotAdding, Adding, Stores
  <1>2. /\ file' \in [Stores -> [Paths -> {"none", "torn", "whole"}]]
        /\ file'["documents"]["objectTmp"] = "none"
        /\ \A t \in Stores : /\ file'[t]["object"] = file[t]["object"]
                             /\ file'[t]["manifest"] = file[t]["manifest"]
        /\ UNCHANGED broken
    BY <1>1 DEF ContentTypeOK, RemoveTemporary, Stores, Paths
  <1>3. ASSUME NEW v \in Adders
        PROVE  /\ adder'[v] \in Adding
               /\ v = w => adder'[v] = NotAdding
               /\ v # w => /\ adder'[v].at = adder[v].at
                           /\ adder'[v].store = adder[v].store
                           /\ \/ adder'[v].open = adder[v].open
                              \/ /\ adder'[v].open = "gone"
                                 /\ adder[v].open = "objectTmp"
                                 /\ adder[v].store = "documents"
    <2>1. adder[v] \in Adding
      BY <1>1, AdderTypes
    <2> QED
      BY <1>1, <2>1 DEF RemoveTemporary, Adding
  <1>4. ContentTypeOK'
    <2>1. adder' = [v \in Adders |-> adder'[v]]
      BY DEF RemoveTemporary
    <2>2. adder' \in [Adders -> Adding]
      BY <1>3, <2>1
    <2> QED
      BY <1>1, <1>2, <2>2 DEF ContentTypeOK, Adding
  <1>5. OpenFits'
    <2> SUFFICES ASSUME NEW v \in Adders
        PROVE  /\ adder'[v].at \notin {"object", "manifest"}
                    => adder'[v].open = "none"
               /\ adder'[v].at = "manifest"
                    => adder'[v].open \in {"manifest", "manifestTmp", "gone"}
               /\ adder'[v].at = "object" =>
                    adder'[v].open \in {"object", "objectTmp", "gone", "none"}
               /\ adder'[v].at = "object" /\ adder'[v].store = "artifacts"
                    => adder'[v].open = "object"
               /\ adder'[v].at = "absent" => adder'[v].store = "artifacts"
      BY DEF OpenFits
    <2>1. CASE v = w
      BY <1>3, <2>1 DEF NotAdding
    <2>2. CASE v # w
      BY <1>1, <1>3, <2>2 DEF OpenFits
    <2> QED
      BY <2>1, <2>2
  <1>6. ObjectComesFirst'
    <2>1. ASSUME NEW v \in Adders,
                 \/ adder'[v].at \in {"placed", "manifest", "written"}
                 \/ adder'[v].open = "object"
          PROVE  file'[adder'[v].store]["object"] # "none"
      <3>1. v # w
        BY <1>3, <2>1 DEF NotAdding
      <3>2. /\ adder[v].at = adder'[v].at /\ adder[v].store = adder'[v].store
            /\ adder'[v].open = "object" => adder[v].open = "object"
            /\ adder[v].store \in Stores
        BY <1>1, <1>3, <3>1, AdderTypes
      <3> QED
        BY <1>1, <1>2, <2>1, <3>2 DEF ObjectComesFirst
    <2> QED
      BY <1>1, <1>2, <2>1 DEF ObjectComesFirst
  <1>7. TornIsWritten'
    <2>1. ASSUME NEW t \in Stores \ broken, file'[t]["object"] = "torn"
          PROVE  HasWriter(t, "object")'
      <3>1. PICK v \in Adders : adder[v].store = t /\ adder[v].open = "object"
        BY <1>1, <1>2, <2>1 DEF TornIsWritten, HasWriter
      <3>2. v # w
        BY <1>1, <3>1
      <3> QED
        BY <1>3, <3>1, <3>2 DEF HasWriter
    <2> QED
      BY <1>2, <2>1 DEF TornIsWritten
  <1> QED
    BY <1>4, <1>5, <1>6, <1>7 DEF ContentInv

LEMMA WriteFailsStep ==
    ASSUME ContentInv, NEW w \in Adders, WriteFails(w) PROVE ContentInv'
  <1> DEFINE a == [adder[w] EXCEPT !.at = AfterFailure(w), !.open = "none"]
  <1>1. /\ ContentTypeOK /\ OpenFits /\ ObjectComesFirst /\ TornIsWritten
        /\ adder[w] \in Adding /\ adder \in [Adders -> Adding]
    BY AdderTypes DEF ContentInv, ContentTypeOK, Adding
  <1>2. /\ a \in Adding /\ a.at \in {"clean", "idle"} /\ a.open = "none"
        /\ adder' = [adder EXCEPT ![w] = a]
    <2>1. AfterFailure(w) \in {"clean", "idle"}
      BY DEF AfterFailure
    <2> QED
      BY <1>1, <2>1 DEF WriteFails, At, Adding
  <1> HIDE DEF a
  <1>3. /\ adder' \in [Adders -> Adding] /\ adder'[w] = a
        /\ \A v \in Adders : v # w => adder'[v] = adder[v]
        /\ UNCHANGED file
    BY <1>1, <1>2 DEF WriteFails
  <1>4. /\ broken \subseteq broken' /\ broken' \subseteq Stores
        /\ Torn(w) => adder[w].store \in broken'
    BY <1>1 DEF WriteFails, ContentTypeOK, Adding
  <1>5. ContentTypeOK' /\ OpenFits' /\ ObjectComesFirst'
    <2>1. ContentTypeOK'
      BY <1>1, <1>3, <1>4 DEF ContentTypeOK, Adding
    <2>2. OpenFits'
      BY <1>1, <1>2, <1>3 DEF OpenFits
    <2>3. ObjectComesFirst'
      BY <1>1, <1>2, <1>3 DEF ObjectComesFirst
    <2> QED
      BY <2>1, <2>2, <2>3
  <1>6. ASSUME NEW t \in Stores \ broken', file[t]["object"] = "torn"
        PROVE  HasWriter(t, "object")'
    <2>1. PICK v \in Adders : adder[v].store = t /\ adder[v].open = "object"
      BY <1>1, <1>4, <1>6 DEF TornIsWritten, HasWriter
    <2>2. v # w
      BY <1>4, <1>6, <2>1 DEF Torn
    <2> QED
      BY <1>3, <2>1, <2>2 DEF HasWriter
  <1>7. ASSUME "documents" \notin broken',
               file["documents"]["objectTmp"] = "torn",
               NEW u \in Adders, adder'[u].store = "documents",
               adder'[u].at = "object"
        PROVE  HasWriter("documents", "objectTmp")'
    <2>1. u # w /\ adder[u].store = "documents" /\ adder[u].at = "object"
      BY <1>2, <1>3, <1>7
    <2>2. PICK v \in Adders : adder[v].store = "documents"
                              /\ adder[v].open = "objectTmp"
      BY <1>1, <1>4, <1>7, <2>1 DEF TornIsWritten, HasWriter
    <2>3. v # w
      BY <1>4, <1>7, <2>1, <2>2 DEF Torn
    <2> QED
      BY <1>3, <2>2, <2>3 DEF HasWriter
  <1>8. TornIsWritten'
    BY <1>3, <1>6, <1>7 DEF TornIsWritten
  <1> QED
    BY <1>5, <1>8 DEF ContentInv

LEMMA HostCrashesStep == ASSUME ContentInv, HostCrashes PROVE ContentInv'
  <1>1. /\ ContentTypeOK /\ OpenFits /\ ObjectComesFirst /\ TornIsWritten
        /\ adder \in [Adders -> Adding] /\ NotAdding \in Adding
    BY DEF ContentInv, ContentTypeOK, Adding, NotAdding, Stores
  <1>2. /\ adder' \in [Adders -> Adding] /\ UNCHANGED file
        /\ \A v \in Adders : adder'[v].at = "idle" /\ adder'[v].open = "none"
        /\ broken \subseteq broken' /\ broken' \subseteq Stores
        /\ \A v \in Adders : Torn(v) => adder[v].store \in broken'
    BY <1>1 DEF HostCrashes, ContentTypeOK, NotAdding, Adding
  <1>3. ContentTypeOK'
    BY <1>1, <1>2 DEF ContentTypeOK, Adding
  <1>4. OpenFits' /\ ObjectComesFirst'
    BY <1>1, <1>2 DEF OpenFits, ObjectComesFirst
  <1>5. ASSUME NEW t \in Stores \ broken', file[t]["object"] = "torn"
        PROVE  FALSE
    <2>1. PICK v \in Adders : adder[v].store = t /\ adder[v].open = "object"
      BY <1>1, <1>2, <1>5 DEF TornIsWritten, HasWriter
    <2> QED
      BY <1>2, <1>5, <2>1 DEF Torn
  <1>6. TornIsWritten'
    BY <1>2, <1>5 DEF TornIsWritten
  <1> QED
    BY <1>3, <1>4, <1>6 DEF ContentInv

LEMMA ContentNextInv ==
    ContentInv /\ [ContentNext]_contentVars => ContentInv'
  <1> SUFFICES ASSUME ContentInv, [ContentNext]_contentVars PROVE ContentInv'
    OBVIOUS
  <1>1. CASE UNCHANGED contentVars
    BY <1>1 DEF contentVars, ContentInv, ContentTypeOK, OpenFits,
                ObjectComesFirst, TornIsWritten, HasWriter
  <1>2. CASE HostCrashes
    BY <1>2, HostCrashesStep
  <1>3. ASSUME NEW w \in Adders,
               \/ LookForObject(w)
               \/ WriteObject(w) \/ FinishObject(w) \/ RenameObject(w)
               \/ WriteManifest(w) \/ FinishManifest(w) \/ RenameManifest(w)
               \/ RemoveTemporary(w) \/ WriteFails(w)
               \/ \E s \in Stores : BeginAdd(w, s)
        PROVE  ContentInv'
    <2>1. /\ ContentTypeOK /\ OpenFits /\ ObjectComesFirst
          /\ adder[w] \in Adding /\ adder[w].store \in Stores
      BY AdderTypes DEF ContentInv
    <2>2. ASSUME NEW place \in {"idle", "begin", "absent", "object",
                                "placed", "manifest", "written", "clean"}
          PROVE  \E a \in Adding :
                   /\ a.at = place /\ a.open = "none"
                   /\ a.store = adder[w].store
                   /\ At(w, place) = [adder EXCEPT ![w] = a]
      <3> DEFINE a == [adder[w] EXCEPT !.at = place, !.open = "none"]
      <3>1. /\ a \in Adding /\ a.at = place /\ a.open = "none"
            /\ a.store = adder[w].store
        BY <2>1 DEF Adding
      <3>2. At(w, place) = [adder EXCEPT ![w] = a]
        BY <2>1, AdderFunction DEF At
      <3> HIDE DEF a
      <3> QED
        BY <3>1, <3>2
    <2>3. ASSUME NEW s \in Stores, BeginAdd(w, s) PROVE ContentInv'
      <3>1. [NotAdding EXCEPT !.at = "begin", !.store = s] \in Adding
        BY DEF NotAdding, Adding, Stores
      <3> QED
        BY <2>1, <2>3, <3>1, QuietStep DEF BeginAdd, OpenFits, NotAdding
    <2>look. CASE LookForObject(w)
      <3> DEFINE place == IF ObjectIsThere THEN "placed" ELSE "absent"
      <3>1. /\ adder[w].store = "artifacts" /\ adder[w].open = "none"
            /\ adder' = At(w, place) /\ UNCHANGED <<file, broken>>
            /\ place \in {"placed", "absent"}
            /\ place = "placed" => file["artifacts"]["object"] # "none"
        BY <2>1, <2>look DEF LookForObject, OpenFits, ObjectIsThere
      <3>2. PICK a \in Adding :
              /\ a.at = place /\ a.open = "none"
              /\ a.store = adder[w].store
              /\ At(w, place) = [adder EXCEPT ![w] = a]
        BY <2>2, <3>1
      <3> HIDE DEF place
      <3>3. /\ adder' = [adder EXCEPT ![w] = a]
            /\ a.at \notin {"manifest", "object"}
            /\ a.at = "absent" => a.store = "artifacts"
            /\ a.at \in {"placed", "written"} =>
                 file[a.store]["object"] # "none"
        BY <3>1, <3>2
      <3> QED
        BY <3>1, <3>2, <3>3, QuietStep
    <2>4. CASE WriteObject(w)
      <3>1. CASE adder[w].at = "begin"
        <4>1. /\ OpenFile(w, "objectTmp", "object") /\ UNCHANGED broken
              /\ adder[w].store = "documents" /\ adder[w].open = "none"
              /\ "objectTmp" \in Paths
          BY <2>1, <2>4, <3>1 DEF WriteObject, OpenFits, Paths
        <4> QED
          BY <4>1, OpenStep
      <3>2. CASE adder[w].at # "begin"
        <4>1. /\ OpenFile(w, "object", "object") /\ UNCHANGED broken
              /\ adder[w].store = "artifacts" /\ adder[w].open = "none"
              /\ "object" \in Paths
          BY <2>1, <2>4, <3>2 DEF WriteObject, OpenFits, Paths
        <4> QED
          BY <4>1, OpenStep
      <3> QED
        BY <3>1, <3>2
    <2>5. CASE FinishObject(w)
      <3>1. CASE adder[w].store = "artifacts"
        <4>1. adder' = At(w, "placed")
          BY <2>5, <3>1 DEF FinishObject
        <4>p. PICK a \in Adding :
                /\ a.at = "placed" /\ a.open = "none"
                /\ a.store = adder[w].store
                /\ At(w, "placed") = [adder EXCEPT ![w] = a]
          BY <2>2
        <4> QED
          BY <2>5, <3>1, <4>1, <4>p, WrittenStep DEF FinishObject
      <3>2. CASE adder[w].store # "artifacts"
        <4>1. adder' = At(w, "object")
          <5>1. adder[w].at = "object"
                /\ adder' = [adder EXCEPT ![w].open = "none"]
            BY <2>5, <3>2 DEF FinishObject
          <5>2. [adder[w] EXCEPT !.at = "object"] = adder[w]
            BY <2>1, <5>1 DEF Adding
          <5>3. [adder EXCEPT ![w].at = "object"] = adder
            BY <2>1, <5>2, AdderFunction
          <5> QED
            BY <5>1, <5>3 DEF At
        <4>p. PICK a \in Adding :
                /\ a.at = "object" /\ a.open = "none"
                /\ a.store = adder[w].store
                /\ At(w, "object") = [adder EXCEPT ![w] = a]
          BY <2>2
        <4> QED
          BY <2>5, <3>2, <4>1, <4>p, WrittenStep DEF FinishObject
      <3> QED
        BY <3>1, <3>2
    <2>6. CASE RenameObject(w)
      <3>1. CASE file[adder[w].store]["objectTmp"] = "none"
        <4>1. adder' = At(w, "clean") /\ UNCHANGED <<file, broken>>
              /\ adder[w].open = "none"
          BY <2>6, <3>1 DEF RenameObject
        <4>p. PICK a \in Adding :
                /\ a.at = "clean" /\ a.open = "none"
                /\ a.store = adder[w].store
                /\ At(w, "clean") = [adder EXCEPT ![w] = a]
          BY <2>2
        <4> QED
          BY <4>1, <4>p, QuietStep
      <3>2. CASE file[adder[w].store]["objectTmp"] # "none"
        BY <2>6, <3>2, RenameObjectStep DEF RenameObject
      <3> QED
        BY <3>1, <3>2
    <2>7. CASE WriteManifest(w)
      <3> DEFINE p == IF adder[w].store = "documents" THEN "manifest"
                      ELSE "manifestTmp"
      <3>1. OpenFile(w, p, "manifest") /\ p \in Paths /\ UNCHANGED broken
            /\ adder[w].at = "placed" /\ adder[w].open = "none"
        BY <2>1, <2>7 DEF WriteManifest, Paths, OpenFits
      <3> QED
        BY <3>1, OpenStep
    <2>8. CASE FinishManifest(w)
      <3> DEFINE place == IF adder[w].store = "documents" THEN "clean"
                          ELSE "written"
      <3>1. adder' = At(w, place) /\ Written(w) /\ UNCHANGED broken
            /\ adder[w].at = "manifest" /\ place \in {"written", "clean"}
        BY <2>8 DEF FinishManifest
      <3>2. PICK a \in Adding :
            /\ a.at = place /\ a.open = "none"
            /\ a.store = adder[w].store
            /\ At(w, place) = [adder EXCEPT ![w] = a]
        BY <2>2
      <3> HIDE DEF place
      <3> QED
        BY <3>1, <3>2, WrittenStep
    <2>9. CASE RenameManifest(w)
      <3>1. CASE file[adder[w].store]["manifestTmp"] = "none"
        <4>1. adder' = At(w, "idle") /\ UNCHANGED <<file, broken>>
              /\ adder[w].open = "none"
          BY <2>1, <2>9, <3>1 DEF RenameManifest, OpenFits
        <4>p. PICK a \in Adding :
                /\ a.at = "idle" /\ a.open = "none"
                /\ a.store = adder[w].store
                /\ At(w, "idle") = [adder EXCEPT ![w] = a]
          BY <2>2
        <4> QED
          BY <4>1, <4>p, QuietStep
      <3>2. CASE file[adder[w].store]["manifestTmp"] # "none"
        BY <2>9, <3>2, RenameManifestStep DEF RenameManifest
      <3> QED
        BY <3>1, <3>2
    <2> QED
      BY <1>3, <2>3, <2>look, <2>4, <2>5, <2>6, <2>7, <2>8, <2>9,
         RemoveTemporaryStep, WriteFailsStep
  <1> QED
    BY <1>1, <1>2, <1>3 DEF ContentNext

\* A manifest that is listed names content that can be read while no request
\* is writing the object itself, whatever number of requests look for it, find
\* nothing, and write it over each other: except in a store where a writer of
\* the object was cut off (persist, ArtifactStore.put).
THEOREM ListedContentIsReadable == ContentSpec => []ListedIsReadable
  <1>1. ContentSpec => []ContentInv
    BY ContentInitInv, ContentNextInv, PTL DEF ContentSpec
  <1> QED
    BY <1>1, InvListed, PTL

-----------------------------------------------------------------------------
(* The bridge to the Harness. *)

ReplyTypes ==
    /\ replying \in [Devices -> [at : ReplyPlaces,
                                 id : Approvals \union {"none"}]]
    /\ \A d \in Devices :
         /\ replying[d].at # "idle" => replying[d].id \in Approvals
         /\ replying[d].at = "accepted" => asked[replying[d].id] = "answered"

OnItsWay(f) == \E i \in 1..Len(frames) : frames[i] = f

\* What the adapter shows of the approvals, once the frames on their way are
\* handled, is what the Harness waits for.
AsksFollow ==
    ~missed => \A a \in Approvals :
        /\ asked[a] \in {"none", "lost"} =>
             /\ a \notin permissions
             /\ ~OnItsWay(Asks(a)) /\ ~OnItsWay(Answers(a))
        /\ asked[a] = "asked" =>
             (a \in permissions \/ OnItsWay(Asks(a))) /\ ~OnItsWay(Answers(a))
        /\ asked[a] = "answered" =>
             /\ a \in permissions => OnItsWay(Answers(a))
             /\ \A i \in 1..Len(frames) : frames[i] = Asks(a) =>
                  \E k \in i + 1..Len(frames) : frames[k] = Answers(a)

\* Nobody has heard of a job that has not started yet.
NewJobsUnknown ==
    \A j \in Jobs : jobs[j] = "none" =>
        /\ shownJobs[j] = "none" /\ projection[j] = "none"
        /\ \A i \in 1..Len(snapshots) : snapshots[i][j] = "none"
        /\ \A i \in 1..Len(frames) : frames[i].view[j] = "none"

\* A job that is shown to run was in the last frame.
RunningInLast ==
    \A j \in Jobs :
        jobs[j] # "lost" /\ shownJobs[j] = "running" => j \in sessionJobs

JobsNow ==
    [j \in Jobs |-> IF jobs[j] \in {"running", "ended"} THEN jobs[j]
                    ELSE "none"]

\* The last frame of the jobs on its way says what they are; when there is
\* none the adapter shows it.
JobsFollow ==
    ~missed =>
        /\ \A i \in 1..Len(frames) :
             /\ frames[i].kind = "jobs"
             /\ \A k \in i + 1..Len(frames) : frames[k].kind # "jobs"
             => frames[i].view = JobsNow
        /\ (\A i \in 1..Len(frames) : frames[i].kind # "jobs") =>
             \A j \in Jobs : jobs[j] # "lost" =>
               (shownJobs[j] = "running" <=> jobs[j] = "running")

BridgeInv ==
    /\ BridgeTypeOK /\ ReplyTypes
    /\ AsksFollow /\ NewJobsUnknown /\ RunningInLast /\ JobsFollow

LEMMA FrameFacts ==
    /\ \A a \in Approvals :
         /\ Asks(a) \in FrameType /\ Answers(a) \in FrameType
         /\ Asks(a).kind = "requested" /\ Answers(a).kind = "resolved"
         /\ Asks(a).id = a /\ Answers(a).id = a
         /\ \A j \in Jobs : /\ Asks(a).view[j] = "none"
                            /\ Answers(a).view[j] = "none"
    /\ \A v \in JobViews : /\ JobFrame(v) \in FrameType
                           /\ JobFrame(v).kind = "jobs"
                           /\ JobFrame(v).view = v
    /\ \A f \in FrameType :
         /\ f.view \in JobViews
         /\ f.kind \in {"jobs", "requested", "resolved"}
         /\ f.kind = "requested" => f.id \in Approvals /\ f = Asks(f.id)
         /\ f.kind = "resolved" => f.id \in Approvals /\ f = Answers(f.id)
  <1>1. [j \in Jobs |-> "none"] \in JobViews
    BY DEF JobViews
  <1>2. \A a \in Approvals :
         /\ Asks(a) \in FrameType /\ Answers(a) \in FrameType
         /\ Asks(a).kind = "requested" /\ Answers(a).kind = "resolved"
         /\ Asks(a).id = a /\ Answers(a).id = a
         /\ Asks(a).view = [j \in Jobs |-> "none"]
         /\ Answers(a).view = [j \in Jobs |-> "none"]
    BY DEF FrameType, Asks, Answers
  <1>3. \A v \in JobViews : /\ JobFrame(v) \in FrameType
                            /\ JobFrame(v).kind = "jobs"
                            /\ JobFrame(v).view = v
    BY DEF FrameType, JobFrame
  <1>4. ASSUME NEW f \in FrameType
        PROVE  /\ f.view \in JobViews
               /\ f.kind \in {"jobs", "requested", "resolved"}
               /\ f.kind = "requested" => f.id \in Approvals /\ f = Asks(f.id)
               /\ f.kind = "resolved"
                    => f.id \in Approvals /\ f = Answers(f.id)
    <2>1. \/ \E v \in JobViews : f = JobFrame(v)
          \/ \E a \in Approvals : f = Asks(a)
          \/ \E a \in Approvals : f = Answers(a)
      BY DEF FrameType
    <2> QED
      BY <1>1, <1>2, <1>3, <2>1
  <1> QED
    BY <1>1, <1>2, <1>3, <1>4

LEMMA BridgeInitInv == BridgeInit => BridgeInv
  <1> SUFFICES ASSUME BridgeInit PROVE BridgeInv
    OBVIOUS
  <1>1. /\ asked = [a \in Approvals |-> "none"] /\ jobs = NoJobs
        /\ muxUp = FALSE /\ frames = <<>>
        /\ permissions = {} /\ shownJobs = NoJobs /\ sessionJobs = {}
        /\ snapshots = <<>> /\ projection = NoJobs
        /\ replying = [d \in Devices |-> NoReply]
        /\ server = "starting" /\ missed = FALSE /\ restarted = 0
        /\ Len(<<>>) = 0 /\ 1..0 = {} /\ 0 \in 0..RestartBound
    BY BridgeAssumption DEF BridgeInit
  <1>2. NoJobs \in JobViews /\ \A j \in Jobs : NoJobs[j] = "none"
    BY DEF NoJobs, JobViews
  <1>3. ReplyTypes
    BY <1>1 DEF ReplyTypes, NoReply, ReplyPlaces
  <1>4. BridgeTypeOK
    <2>1. \A d \in Devices : replying[d].at \in ReplyPlaces
      BY <1>1 DEF NoReply, ReplyPlaces
    <2>2. jobs \in [Jobs -> {"none", "running", "ended", "dropped", "lost"}]
      BY <1>1 DEF NoJobs
    <2>3. asked \in [Approvals -> {"none", "asked", "answered", "lost"}]
      BY <1>1
    <2>4. frames \in Seq(FrameType) /\ snapshots \in Seq(JobViews)
      BY <1>1
    <2>5. shownJobs \in JobViews /\ projection \in JobViews
      BY <1>1, <1>2
    <2>6. /\ muxUp \in BOOLEAN /\ missed \in BOOLEAN
          /\ permissions \subseteq Approvals /\ sessionJobs \subseteq Jobs
          /\ server \in {"none", "starting", "up", "stopped", "stray"}
          /\ restarted \in 0..RestartBound
      BY <1>1
    <2> QED
      BY <2>1, <2>2, <2>3, <2>4, <2>5, <2>6 DEF BridgeTypeOK
  <1>5. AsksFollow
    BY <1>1 DEF AsksFollow, OnItsWay
  <1>6. NewJobsUnknown /\ RunningInLast /\ JobsFollow
    BY <1>1, <1>2 DEF NewJobsUnknown, RunningInLast, JobsFollow
  <1> QED
    BY <1>3, <1>4, <1>5, <1>6 DEF BridgeInv

LEMMA InvFollows == BridgeInv => BridgeFollowsHarness
  <1> SUFFICES ASSUME BridgeInv, muxUp, ~missed, frames = <<>>
               PROVE  /\ permissions = {a \in Approvals : asked[a] = "asked"}
                      /\ \A j \in Jobs : jobs[j] # "lost" =>
                           (shownJobs[j] = "running" <=> jobs[j] = "running")
    BY DEF BridgeFollowsHarness
  <1>1. Len(frames) = 0 /\ 1..0 = {} /\ permissions \subseteq Approvals
        /\ asked \in [Approvals -> {"none", "asked", "answered", "lost"}]
    BY DEF BridgeInv, BridgeTypeOK
  <1>2. \A f : ~OnItsWay(f)
    BY <1>1 DEF OnItsWay
  <1>3. permissions = {a \in Approvals : asked[a] = "asked"}
    BY <1>1, <1>2 DEF BridgeInv, AsksFollow
  <1> QED
    BY <1>1, <1>3 DEF BridgeInv, JobsFollow

\* A step that neither tells the adapter anything nor loses a frame unseen.
LEMMA QuietBridgeStep ==
    ASSUME BridgeInv, BridgeTypeOK', ReplyTypes',
           UNCHANGED <<asked, jobs, permissions, shownJobs, sessionJobs>>,
           \/ frames' = frames /\ missed' = missed
           \/ missed' /\ frames' \in {frames, <<>>},
           \A j \in Jobs : jobs[j] = "none" =>
             /\ projection'[j] = "none"
             /\ \A i \in 1..Len(snapshots') : snapshots'[i][j] = "none"
    PROVE  BridgeInv'
  <1>1. AsksFollow'
    BY DEF BridgeInv, AsksFollow, OnItsWay
  <1>2. NewJobsUnknown'
    <2>1. ASSUME NEW j \in Jobs, jobs[j] = "none",
                 NEW i \in 1..Len(frames')
          PROVE  frames'[i].view[j] = "none"
      <3>1. frames' = frames
        BY <2>1
      <3> QED
        BY <2>1, <3>1 DEF BridgeInv, NewJobsUnknown
    <2> QED
      BY <2>1 DEF BridgeInv, NewJobsUnknown
  <1>3. RunningInLast'
    BY DEF BridgeInv, RunningInLast
  <1>4. JobsFollow'
    BY DEF BridgeInv, JobsFollow, JobsNow
  <1> QED
    BY <1>1, <1>2, <1>3, <1>4 DEF BridgeInv

\* What sending a frame does to the queue.
LEMMA SendFacts ==
    ASSUME BridgeTypeOK, NEW f \in FrameType, Send(f)
    PROVE  /\ frames' \in Seq(FrameType) /\ missed' \in BOOLEAN
           /\ ~missed' => /\ ~missed /\ Len(frames') = Len(frames) + 1
                          /\ frames'[Len(frames) + 1] = f
                          /\ Len(frames) \in Nat
                          /\ \A i \in 1..Len(frames) : frames'[i] = frames[i]
           /\ \A i \in 1..Len(frames') :
                \/ frames'[i] = f
                \/ i \in 1..Len(frames) /\ frames'[i] = frames[i]
  <1>1. /\ frames \in Seq(FrameType) /\ Len(frames) \in Nat
        /\ muxUp \in BOOLEAN /\ missed \in BOOLEAN
    BY DEF BridgeTypeOK
  <1>2. CASE muxUp
    <2>1. frames' = Append(frames, f) /\ missed' = missed
      BY <1>1, <1>2 DEF Send
    <2>2. /\ Append(frames, f) \in Seq(FrameType)
          /\ Len(Append(frames, f)) = Len(frames) + 1
          /\ \A i \in 1..Len(frames) : Append(frames, f)[i] = frames[i]
          /\ Append(frames, f)[Len(frames) + 1] = f
      BY <1>1, AppendProperties
    <2>3. \A i \in 1..Len(frames) + 1 :
            i \in 1..Len(frames) \/ i = Len(frames) + 1
      BY <1>1
    <2> QED
      BY <1>1, <2>1, <2>2, <2>3
  <1>3. CASE ~muxUp
    <2>1. frames' = frames /\ missed' = TRUE
      BY <1>1, <1>3 DEF Send
    <2> QED
      BY <1>1, <2>1
  <1> QED
    BY <1>1, <1>2, <1>3

\* An approval is asked for, or answered.
LEMMA AskStep ==
    ASSUME BridgeInv, BridgeTypeOK', ReplyTypes', NEW a \in Approvals,
           NEW f, Send(f),
           \/ /\ asked[a] = "none" /\ f = Asks(a)
              /\ asked' = [asked EXCEPT ![a] = "asked"]
              /\ permissions' = permissions
           \/ /\ asked[a] = "asked" /\ f = Answers(a)
              /\ asked' = [asked EXCEPT ![a] = "answered"]
              /\ permissions' \in {permissions, permissions \ {a}},
           UNCHANGED <<jobs, shownJobs, sessionJobs, projection>>,
           snapshots' \in {snapshots, Append(snapshots, shownJobs)}
    PROVE  BridgeInv'
  <1>1. /\ BridgeTypeOK /\ AsksFollow /\ NewJobsUnknown /\ RunningInLast
        /\ JobsFollow /\ f \in FrameType /\ f \in {Asks(a), Answers(a)}
        /\ asked \in [Approvals -> {"none", "asked", "answered", "lost"}]
        /\ snapshots \in Seq(JobViews) /\ shownJobs \in JobViews
    BY FrameFacts DEF BridgeInv, BridgeTypeOK
  <1>2. /\ ~missed' => /\ ~missed /\ Len(frames') = Len(frames) + 1
                       /\ frames'[Len(frames) + 1] = f
                       /\ Len(frames) \in Nat
                       /\ \A i \in 1..Len(frames) : frames'[i] = frames[i]
        /\ \A i \in 1..Len(frames') :
             \/ frames'[i] = f
             \/ i \in 1..Len(frames) /\ frames'[i] = frames[i]
    BY <1>1, SendFacts
  <1>3. ASSUME ~missed', NEW b \in Approvals
        PROVE  /\ asked'[b] \in {"none", "lost"} =>
                    /\ b \notin permissions'
                    /\ ~OnItsWay(Asks(b))' /\ ~OnItsWay(Answers(b))'
               /\ asked'[b] = "asked" =>
                    /\ b \in permissions' \/ OnItsWay(Asks(b))'
                    /\ ~OnItsWay(Answers(b))'
               /\ asked'[b] = "answered" =>
                    /\ b \in permissions' => OnItsWay(Answers(b))'
                    /\ \A i \in 1..Len(frames') : frames'[i] = Asks(b) =>
                         \E k \in i + 1..Len(frames') :
                           frames'[k] = Answers(b)
    <2>1. /\ OnItsWay(f)'
          /\ \A g : OnItsWay(g) => OnItsWay(g)'
          /\ \A g : OnItsWay(g)' => g = f \/ OnItsWay(g)
      <3>1. Len(frames) + 1 \in 1..Len(frames')
            /\ \A i \in 1..Len(frames) : i \in 1..Len(frames')
        BY <1>2, <1>3
      <3> QED
        BY <1>2, <1>3, <3>1 DEF OnItsWay
    <2>2. CASE b # a
      <3>1. asked'[b] = asked[b] /\ (b \in permissions' <=> b \in permissions)
            /\ f # Asks(b) /\ f # Answers(b)
        BY <1>1, <2>2, FrameFacts
      <3>2. ASSUME asked[b] = "answered", NEW i \in 1..Len(frames'),
                   frames'[i] = Asks(b)
            PROVE  \E k \in i + 1..Len(frames') : frames'[k] = Answers(b)
        <4>1. i \in 1..Len(frames) /\ frames[i] = Asks(b)
          BY <1>2, <3>1, <3>2
        <4>2. PICK k \in i + 1..Len(frames) : frames[k] = Answers(b)
          BY <1>1, <1>2, <1>3, <3>2, <4>1 DEF AsksFollow
        <4>3. k \in 1..Len(frames) /\ k \in i + 1..Len(frames')
          BY <1>2, <1>3, <4>1
        <4> QED
          BY <1>2, <1>3, <4>2, <4>3
      <3> QED
        BY <1>1, <1>2, <1>3, <2>1, <3>1, <3>2 DEF AsksFollow
    <2>3. CASE b = a /\ asked[a] = "none"
      <3>1. f = Asks(a) /\ f # Answers(a) /\ asked'[a] = "asked"
        BY <1>1, <2>3, FrameFacts
      <3>2. ~OnItsWay(Answers(a))
        BY <1>1, <1>2, <1>3, <2>3 DEF AsksFollow
      <3> QED
        BY <2>1, <2>3, <3>1, <3>2
    <2>4. CASE b = a /\ asked[a] = "asked"
      <3>1. f = Answers(a) /\ f # Asks(a) /\ asked'[a] = "answered"
        BY <1>1, <2>4, FrameFacts
      <3>2. ASSUME NEW i \in 1..Len(frames'), frames'[i] = Asks(a)
            PROVE  \E k \in i + 1..Len(frames') : frames'[k] = Answers(a)
        <4>1. i \in 1..Len(frames)
          BY <1>2, <3>1, <3>2
        <4>2. Len(frames) + 1 \in i + 1..Len(frames')
          BY <1>2, <1>3, <4>1
        <4> QED
          BY <1>2, <1>3, <3>1, <4>2
      <3> QED
        BY <2>1, <2>4, <3>1, <3>2
    <2> QED
      BY <1>1, <2>2, <2>3, <2>4
  <1>4. AsksFollow'
    BY <1>3 DEF AsksFollow
  <1>5. NewJobsUnknown'
    <2> SUFFICES ASSUME NEW j \in Jobs, jobs[j] = "none"
        PROVE  /\ \A i \in 1..Len(snapshots') : snapshots'[i][j] = "none"
               /\ \A i \in 1..Len(frames') : frames'[i].view[j] = "none"
      BY <1>1 DEF NewJobsUnknown
    <2>1. \A i \in 1..Len(frames') : frames'[i].view[j] = "none"
      BY <1>1, <1>2, FrameFacts DEF NewJobsUnknown
    <2>2. \A i \in 1..Len(snapshots') : snapshots'[i][j] = "none"
      BY <1>1, AppendProperties DEF NewJobsUnknown
    <2> QED
      BY <2>1, <2>2
  <1>6. RunningInLast'
    BY <1>1 DEF RunningInLast
  <1>7. JobsFollow'
    <2>1. JobsNow' = JobsNow /\ f.kind # "jobs"
      BY <1>1, FrameFacts DEF JobsNow
    <2>2. ASSUME ~missed', NEW i \in 1..Len(frames'),
                 frames'[i].kind = "jobs",
                 \A k \in i + 1..Len(frames') : frames'[k].kind # "jobs"
          PROVE  frames'[i].view = JobsNow
      <3>1. i \in 1..Len(frames) /\ frames'[i] = frames[i]
        BY <1>2, <2>1, <2>2
      <3>2. ASSUME NEW k \in i + 1..Len(frames)
            PROVE  frames[k].kind # "jobs"
        <4>1. k \in i + 1..Len(frames') /\ k \in 1..Len(frames)
          BY <1>2, <2>2, <3>1
        <4> QED
          BY <1>2, <2>2, <4>1
      <3> QED
        BY <1>1, <1>2, <2>2, <3>1, <3>2 DEF JobsFollow
    <2>3. ASSUME ~missed',
                 \A i \in 1..Len(frames') : frames'[i].kind # "jobs",
                 NEW j \in Jobs, jobs[j] # "lost"
          PROVE  shownJobs[j] = "running" <=> jobs[j] = "running"
      <3>1. ASSUME NEW i \in 1..Len(frames) PROVE frames[i].kind # "jobs"
        <4>1. i \in 1..Len(frames')
          BY <1>2, <2>3
        <4> QED
          BY <1>2, <2>3, <4>1
      <3> QED
        BY <1>1, <1>2, <2>3, <3>1 DEF JobsFollow
    <2> QED
      BY <2>1, <2>2, <2>3 DEF JobsFollow
  <1> QED
    BY <1>4, <1>5, <1>6, <1>7 DEF BridgeInv

LEMMA JobStep ==
    ASSUME BridgeInv, NEW j \in Jobs, JobMoves(j) PROVE BridgeInv'
  <1> DEFINE now == [k \in Jobs |->
                       IF jobs'[k] \in {"running", "ended"} THEN jobs'[k]
                       ELSE "none"]
             f == JobFrame(now)
  <1>1. /\ BridgeTypeOK /\ ReplyTypes /\ AsksFollow /\ NewJobsUnknown
        /\ RunningInLast /\ JobsFollow
        /\ jobs \in [Jobs -> {"none", "running", "ended", "dropped", "lost"}]
    BY DEF BridgeInv, BridgeTypeOK
  <1>2. PICK to \in {"running", "ended", "dropped"} :
          jobs' = [jobs EXCEPT ![j] = to] /\ Send(f)
    BY DEF JobMoves
  <1>3. /\ jobs' \in [Jobs -> {"none", "running", "ended", "dropped", "lost"}]
        /\ now \in JobViews /\ jobs'[j] = to
        /\ \A k \in Jobs : k # j => jobs'[k] = jobs[k]
        /\ jobs[j] \notin {"lost"}
    BY <1>1, <1>2 DEF JobViews, JobMoves
  <1>4. JobsNow' = now
    BY DEF JobsNow
  <1>5. /\ f \in FrameType /\ f.kind = "jobs" /\ f.view = now
        /\ \A a \in Approvals : f # Asks(a) /\ f # Answers(a)
    BY <1>3, FrameFacts
  <1>6. \A k \in Jobs : jobs'[k] = "none" => now[k] = "none"
    OBVIOUS
  <1> HIDE DEF now, f
  <1>7. UNCHANGED <<asked, muxUp, permissions, shownJobs, sessionJobs,
                    snapshots, projection, replying, server, restarted>>
    BY DEF JobMoves, adapterSide
  <1>8. /\ ~missed' => /\ ~missed /\ Len(frames') = Len(frames) + 1
                       /\ frames'[Len(frames) + 1] = f
                       /\ Len(frames) \in Nat
                       /\ \A i \in 1..Len(frames) : frames'[i] = frames[i]
        /\ \A i \in 1..Len(frames') :
             \/ frames'[i] = f
             \/ i \in 1..Len(frames) /\ frames'[i] = frames[i]
        /\ frames' \in Seq(FrameType) /\ missed' \in BOOLEAN
    BY <1>1, <1>2, <1>5, SendFacts
  <1>9. BridgeTypeOK' /\ ReplyTypes'
    BY <1>1, <1>3, <1>7, <1>8 DEF BridgeTypeOK, ReplyTypes
  <1>10. AsksFollow'
    <2> SUFFICES ASSUME ~missed', NEW a \in Approvals
        PROVE  /\ asked[a] \in {"none", "lost"} =>
                    /\ a \notin permissions
                    /\ ~OnItsWay(Asks(a))' /\ ~OnItsWay(Answers(a))'
               /\ asked[a] = "asked" =>
                    /\ a \in permissions \/ OnItsWay(Asks(a))'
                    /\ ~OnItsWay(Answers(a))'
               /\ asked[a] = "answered" =>
                    /\ a \in permissions => OnItsWay(Answers(a))'
                    /\ \A i \in 1..Len(frames') : frames'[i] = Asks(a) =>
                         \E k \in i + 1..Len(frames') :
                           frames'[k] = Answers(a)
      BY <1>7 DEF AsksFollow
    <2>1. \A g \in {Asks(a), Answers(a)} : OnItsWay(g)' <=> OnItsWay(g)
      <3>1. \A i \in 1..Len(frames) : i \in 1..Len(frames')
        BY <1>8
      <3> QED
        BY <1>5, <1>8, <3>1 DEF OnItsWay
    <2>2. ASSUME asked[a] = "answered", NEW i \in 1..Len(frames'),
                 frames'[i] = Asks(a)
          PROVE  \E k \in i + 1..Len(frames') : frames'[k] = Answers(a)
      <3>1. i \in 1..Len(frames) /\ frames[i] = Asks(a)
        BY <1>5, <1>8, <2>2
      <3>2. PICK k \in i + 1..Len(frames) : frames[k] = Answers(a)
        BY <1>1, <1>8, <2>2, <3>1 DEF AsksFollow
      <3>3. k \in 1..Len(frames) /\ k \in i + 1..Len(frames')
        BY <1>8, <3>1
      <3> QED
        BY <1>8, <3>2, <3>3
    <2> QED
      BY <1>1, <1>8, <2>1, <2>2 DEF AsksFollow
  <1>11. NewJobsUnknown'
    <2> SUFFICES ASSUME NEW k \in Jobs, jobs'[k] = "none"
        PROVE  /\ shownJobs[k] = "none" /\ projection[k] = "none"
               /\ \A i \in 1..Len(snapshots) : snapshots[i][k] = "none"
               /\ \A i \in 1..Len(frames') : frames'[i].view[k] = "none"
      BY <1>7 DEF NewJobsUnknown
    <2>1. jobs[k] = "none"
      BY <1>3
    <2> QED
      BY <1>1, <1>5, <1>6, <1>8, <2>1 DEF NewJobsUnknown
  <1>12. RunningInLast'
    BY <1>1, <1>3, <1>7 DEF RunningInLast
  <1>13. JobsFollow'
    <2>1. ASSUME ~missed', NEW i \in 1..Len(frames'),
                 \A k \in i + 1..Len(frames') : frames'[k].kind # "jobs"
          PROVE  frames'[i].view = now
      <3>1. i = Len(frames) + 1
        <4>1. Len(frames) + 1 \in 1..Len(frames')
          BY <1>8, <2>1
        <4> QED
          BY <1>5, <1>8, <2>1, <4>1
      <3> QED
        BY <1>5, <1>8, <2>1, <3>1
    <2>2. ~missed' => \E i \in 1..Len(frames') : frames'[i].kind = "jobs"
      BY <1>5, <1>8
    <2> QED
      BY <1>4, <2>1, <2>2 DEF JobsFollow
  <1> QED
    BY <1>9, <1>10, <1>11, <1>12, <1>13 DEF BridgeInv

\* The adapter takes the first frame.
LEMMA HandleFrameStep ==
    ASSUME BridgeInv, HandleFrameOfMux PROVE BridgeInv'
  <1> DEFINE f == Head(frames)
             n == Len(frames)
  <1>1. /\ BridgeTypeOK /\ ReplyTypes /\ AsksFollow /\ NewJobsUnknown
        /\ RunningInLast /\ JobsFollow
        /\ frames \in Seq(FrameType) /\ frames # <<>>
        /\ shownJobs \in JobViews /\ snapshots \in Seq(JobViews)
        /\ permissions \subseteq Approvals
        /\ jobs \in [Jobs -> {"none", "running", "ended", "dropped", "lost"}]
        /\ asked \in [Approvals -> {"none", "asked", "answered", "lost"}]
    BY DEF BridgeInv, BridgeTypeOK, HandleFrameOfMux
  <1>2. /\ frames' = Tail(frames)
        /\ UNCHANGED <<asked, jobs, muxUp, projection, replying, server,
                       missed, restarted>>
    BY DEF HandleFrameOfMux, harnessSide
  <1>3. /\ n \in Nat /\ n >= 1 /\ Len(frames') = n - 1
        /\ frames' \in Seq(FrameType) /\ f \in FrameType /\ f = frames[1]
        /\ \A i \in 1..Len(frames') : frames'[i] = frames[i + 1]
    BY <1>1, <1>2, HeadTailProperties
  <1>4. /\ f.view \in JobViews /\ f.kind \in {"jobs", "requested", "resolved"}
        /\ f.kind = "requested" => f.id \in Approvals /\ f = Asks(f.id)
        /\ f.kind = "resolved" => f.id \in Approvals /\ f = Answers(f.id)
    BY <1>3, FrameFacts
  <1> DEFINE moved == shownJobs'
  <1>5. /\ permissions' =
             CASE f.kind = "requested" -> permissions \union {f.id}
               [] f.kind = "resolved" -> permissions \ {f.id}
               [] f.kind = "jobs" -> permissions
        /\ shownJobs' = IF f.kind = "jobs" THEN MergeJobs(f.view)
                        ELSE shownJobs
        /\ sessionJobs' = IF f.kind = "jobs"
                          THEN {j \in Jobs : f.view[j] # "none"}
                          ELSE sessionJobs
        /\ snapshots' = Append(snapshots, shownJobs')
    <2>1. CASE f.kind = "jobs"
      BY <2>1 DEF HandleFrameOfMux, Persist
    <2>2. CASE f.kind = "requested"
      BY <2>2 DEF HandleFrameOfMux, Persist
    <2>3. CASE f.kind = "resolved"
      BY <2>3 DEF HandleFrameOfMux, Persist
    <2> QED
      BY <1>4, <2>1, <2>2, <2>3
  <1> HIDE DEF f, n
  <1>6. \A j \in Jobs : f.kind = "jobs" =>
          shownJobs'[j] = IF f.view[j] # "none" THEN f.view[j]
                          ELSE IF j \in sessionJobs /\ shownJobs[j] # "ended"
                          THEN "none" ELSE shownJobs[j]
    BY <1>5 DEF MergeJobs
  <1>7. shownJobs' \in JobViews
    <2>1. CASE f.kind = "jobs"
      <3>1. \A j \in Jobs : shownJobs'[j] \in {"none", "running", "ended"}
        BY <1>1, <1>4, <1>6, <2>1 DEF JobViews
      <3>2. shownJobs' = [j \in Jobs |-> shownJobs'[j]]
        BY <1>5, <2>1 DEF MergeJobs
      <3> QED
        BY <3>1, <3>2 DEF JobViews
    <2>2. CASE f.kind # "jobs"
      BY <1>1, <1>5, <2>2
    <2> QED
      BY <2>1, <2>2
  <1>8. /\ snapshots' \in Seq(JobViews) /\ Len(snapshots) \in Nat
        /\ Len(snapshots') = Len(snapshots) + 1
        /\ \A i \in 1..Len(snapshots) : snapshots'[i] = snapshots[i]
        /\ snapshots'[Len(snapshots) + 1] = shownJobs'
    BY <1>1, <1>5, <1>7, AppendProperties
  <1>9. BridgeTypeOK' /\ ReplyTypes'
    <2>1. permissions' \subseteq Approvals /\ sessionJobs' \subseteq Jobs
      BY <1>1, <1>4, <1>5 DEF BridgeTypeOK
    <2> QED
      BY <1>1, <1>2, <1>3, <1>7, <1>8, <2>1 DEF BridgeTypeOK, ReplyTypes
  <1>10. AsksFollow'
    <2> SUFFICES ASSUME ~missed, NEW a \in Approvals
        PROVE  /\ asked[a] \in {"none", "lost"} =>
                    /\ a \notin permissions'
                    /\ ~OnItsWay(Asks(a))' /\ ~OnItsWay(Answers(a))'
               /\ asked[a] = "asked" =>
                    /\ a \in permissions' \/ OnItsWay(Asks(a))'
                    /\ ~OnItsWay(Answers(a))'
               /\ asked[a] = "answered" =>
                    /\ a \in permissions' => OnItsWay(Answers(a))'
                    /\ \A i \in 1..Len(frames') : frames'[i] = Asks(a) =>
                         \E k \in i + 1..Len(frames') :
                           frames'[k] = Answers(a)
      BY <1>2 DEF AsksFollow
    <2>1. \A g : OnItsWay(g)' => OnItsWay(g)
      <3>1. \A i \in 1..Len(frames') : i + 1 \in 1..Len(frames)
        BY <1>3 DEF n
      <3> QED
        BY <1>3, <3>1 DEF OnItsWay
    <2>2. \A g : OnItsWay(g) => g = f \/ OnItsWay(g)'
      <3>1. \A i \in 1..Len(frames) :
              i = 1 \/ (i - 1 \in 1..Len(frames') /\ i - 1 + 1 = i)
        BY <1>3 DEF n
      <3> SUFFICES ASSUME NEW g, NEW i \in 1..Len(frames), frames[i] = g,
                          g # f
                   PROVE  \E k \in 1..Len(frames') : frames'[k] = g
        BY DEF OnItsWay
      <3> QED
        BY <1>3, <3>1
    <2>3. OnItsWay(f)
      BY <1>3 DEF OnItsWay, n
    <2>4. /\ a \in permissions' => a \in permissions \/ f = Asks(a)
          /\ a \in permissions /\ a \notin permissions' => f = Answers(a)
          /\ f = Asks(a) => a \in permissions' /\ f # Answers(a)
          /\ f = Answers(a) => a \notin permissions' /\ f # Asks(a)
      <3>1. f = Asks(a) => f.kind = "requested" /\ f.id = a
        BY FrameFacts
      <3>2. f = Answers(a) => f.kind = "resolved" /\ f.id = a
        BY FrameFacts
      <3>3. CASE f.kind = "requested"
        BY <1>4, <1>5, <3>1, <3>2, <3>3
      <3>4. CASE f.kind = "resolved"
        BY <1>4, <1>5, <3>1, <3>2, <3>4
      <3>5. CASE f.kind = "jobs"
        BY <1>4, <1>5, <3>1, <3>2, <3>5
      <3> QED
        BY <1>4, <3>3, <3>4, <3>5
    <2>5. CASE asked[a] \in {"none", "lost"}
      BY <1>1, <2>1, <2>3, <2>4, <2>5 DEF AsksFollow
    <2>6. CASE asked[a] = "asked"
      BY <1>1, <2>1, <2>2, <2>3, <2>4, <2>6 DEF AsksFollow
    <2>7. CASE asked[a] = "answered"
      <3>1. ASSUME NEW i \in 1..Len(frames'), frames'[i] = Asks(a)
            PROVE  \E k \in i + 1..Len(frames') : frames'[k] = Answers(a)
        <4>1. i + 1 \in 1..Len(frames) /\ frames[i + 1] = Asks(a)
          BY <1>3, <3>1 DEF n
        <4>2. PICK k \in i + 1 + 1..Len(frames) : frames[k] = Answers(a)
          BY <1>1, <2>7, <4>1 DEF AsksFollow
        <4>3. k - 1 \in i + 1..Len(frames') /\ k - 1 \in 1..Len(frames')
              /\ k - 1 + 1 = k
          BY <1>3, <4>1 DEF n
        <4> QED
          BY <1>3, <4>2, <4>3
      <3>2. ASSUME f = Asks(a) PROVE OnItsWay(Answers(a))'
        <4>1. 1 \in 1..Len(frames) /\ frames[1] = Asks(a)
          BY <1>3, <3>2 DEF n
        <4>2. PICK k \in 1 + 1..Len(frames) : frames[k] = Answers(a)
          BY <1>1, <2>7, <4>1 DEF AsksFollow
        <4>3. k - 1 \in 1..Len(frames') /\ k - 1 + 1 = k
          BY <1>3 DEF n
        <4> QED
          BY <1>3, <4>2, <4>3 DEF OnItsWay
      <3> QED
        BY <1>1, <2>2, <2>4, <2>7, <3>1, <3>2 DEF AsksFollow
    <2> QED
      BY <1>1, <2>5, <2>6, <2>7
  <1>11. NewJobsUnknown'
    <2> SUFFICES ASSUME NEW j \in Jobs, jobs[j] = "none"
        PROVE  /\ shownJobs'[j] = "none" /\ projection[j] = "none"
               /\ \A i \in 1..Len(snapshots') : snapshots'[i][j] = "none"
               /\ \A i \in 1..Len(frames') : frames'[i].view[j] = "none"
      BY <1>2 DEF NewJobsUnknown
    <2>1. /\ shownJobs[j] = "none" /\ projection[j] = "none"
          /\ \A i \in 1..Len(snapshots) : snapshots[i][j] = "none"
          /\ \A i \in 1..Len(frames) : frames[i].view[j] = "none"
      BY <1>1 DEF NewJobsUnknown
    <2>2. f.view[j] = "none"
      BY <1>3, <2>1 DEF n
    <2>3. shownJobs'[j] = "none"
      BY <1>5, <1>6, <2>1, <2>2
    <2>4. \A i \in 1..Len(snapshots') :
            i \in 1..Len(snapshots) \/ i = Len(snapshots) + 1
      BY <1>8
    <2>5. \A i \in 1..Len(frames') : i + 1 \in 1..Len(frames)
      BY <1>3 DEF n
    <2> QED
      BY <1>3, <1>8, <2>1, <2>3, <2>4, <2>5
  <1>12. RunningInLast'
    <2> SUFFICES ASSUME NEW j \in Jobs, jobs[j] # "lost",
                        shownJobs'[j] = "running"
                 PROVE  j \in sessionJobs'
      BY <1>2 DEF RunningInLast
    <2>1. CASE f.kind = "jobs"
      BY <1>1, <1>5, <1>6, <2>1 DEF RunningInLast
    <2>2. CASE f.kind # "jobs"
      BY <1>1, <1>5, <2>2 DEF RunningInLast
    <2> QED
      BY <2>1, <2>2
  <1>13. JobsFollow'
    <2>1. JobsNow' = JobsNow
      BY <1>2 DEF JobsNow
    <2>2. ASSUME ~missed, NEW i \in 1..Len(frames'),
                 frames'[i].kind = "jobs",
                 \A k \in i + 1..Len(frames') : frames'[k].kind # "jobs"
          PROVE  frames'[i].view = JobsNow
      <3>1. i + 1 \in 1..Len(frames) /\ frames'[i] = frames[i + 1]
        BY <1>3 DEF n
      <3>2. ASSUME NEW k \in i + 1 + 1..Len(frames)
            PROVE  frames[k].kind # "jobs"
        <4>1. k - 1 \in i + 1..Len(frames') /\ k - 1 \in 1..Len(frames')
              /\ k - 1 + 1 = k
          BY <1>3, <3>1 DEF n
        <4> QED
          BY <1>3, <2>2, <4>1
      <3> QED
        BY <1>1, <2>2, <3>1, <3>2 DEF JobsFollow
    <2>3. ASSUME ~missed, NEW j \in Jobs, jobs[j] # "lost",
                 \A i \in 1..Len(frames') : frames'[i].kind # "jobs"
          PROVE  shownJobs'[j] = "running" <=> jobs[j] = "running"
      <3>1. ASSUME NEW i \in 1..Len(frames), i # 1
            PROVE  frames[i].kind # "jobs"
        <4>1. i - 1 \in 1..Len(frames') /\ i - 1 + 1 = i
          BY <1>3, <3>1 DEF n
        <4> QED
          BY <1>3, <2>3, <4>1
      <3>2. CASE f.kind = "jobs"
        <4>1. f.view = JobsNow
          <5>1. 1 \in 1..Len(frames) /\ frames[1] = f
            BY <1>3 DEF n
          <5>2. \A k \in 1 + 1..Len(frames) : k \in 1..Len(frames) /\ k # 1
            OBVIOUS
          <5> QED
            BY <1>1, <2>3, <3>1, <3>2, <5>1, <5>2 DEF JobsFollow
        <4> QED
          BY <1>1, <1>6, <2>3, <3>2, <4>1 DEF JobsNow, RunningInLast
      <3>3. CASE f.kind # "jobs"
        <4>1. \A i \in 1..Len(frames) : frames[i].kind # "jobs"
          BY <1>3, <3>1, <3>3 DEF n
        <4> QED
          BY <1>1, <1>5, <2>3, <3>3, <4>1 DEF JobsFollow
      <3> QED
        BY <3>2, <3>3
    <2> QED
      BY <1>2, <2>1, <2>2, <2>3 DEF JobsFollow
  <1> QED
    BY <1>9, <1>10, <1>11, <1>12, <1>13 DEF BridgeInv

LEMMA NewHarnessStep == ASSUME BridgeInv, NewHarness PROVE BridgeInv'
  <1>1. /\ BridgeTypeOK /\ ReplyTypes /\ NewJobsUnknown
        /\ jobs \in [Jobs -> {"none", "running", "ended", "dropped", "lost"}]
        /\ asked \in [Approvals -> {"none", "asked", "answered", "lost"}]
        /\ projection \in JobViews /\ restarted \in 0..RestartBound
    BY DEF BridgeInv, BridgeTypeOK
  <1>2. /\ \A a \in Approvals : asked'[a] \in {"none", "lost"}
        /\ \A j \in Jobs : /\ jobs'[j] \in {"none", "lost"}
                           /\ jobs'[j] = "none" => jobs[j] = "none"
        /\ frames' = <<>> /\ snapshots' = <<>> /\ missed' = FALSE
        /\ permissions' = {} /\ sessionJobs' = {} /\ shownJobs' = projection
        /\ projection' = projection /\ Len(<<>>) = 0 /\ 1..0 = {}
    BY <1>1 DEF NewHarness
  <1>3. BridgeTypeOK'
    <2>1. /\ asked' \in [Approvals -> {"none", "asked", "answered", "lost"}]
          /\ jobs' \in [Jobs -> {"none", "running", "ended", "dropped",
                                 "lost"}]
      BY <1>1 DEF NewHarness
    <2>2. frames' \in Seq(FrameType) /\ snapshots' \in Seq(JobViews)
      BY <1>2
    <2>3. /\ \A d \in Devices : replying'[d].at \in ReplyPlaces
          /\ server' = "starting" /\ muxUp' = FALSE
      BY DEF NewHarness, NoReply, ReplyPlaces
    <2>4. restarted' \in 0..RestartBound
      BY <1>1, BridgeAssumption DEF NewHarness
    <2> QED
      BY <1>1, <1>2, <2>1, <2>2, <2>3, <2>4 DEF BridgeTypeOK
  <1>4. ReplyTypes'
    BY DEF NewHarness, ReplyTypes, NoReply, ReplyPlaces
  <1>5. AsksFollow'
    BY <1>2 DEF AsksFollow, OnItsWay
  <1>6. \A j \in Jobs : jobs'[j] # "lost" =>
          jobs'[j] = "none" /\ projection[j] = "none"
    BY <1>1, <1>2 DEF NewJobsUnknown
  <1>7. NewJobsUnknown' /\ RunningInLast'
    BY <1>2, <1>6 DEF NewJobsUnknown, RunningInLast
  <1>8. JobsFollow'
    BY <1>2, <1>6 DEF JobsFollow
  <1> QED
    BY <1>3, <1>4, <1>5, <1>7, <1>8 DEF BridgeInv

\* The Harness takes a reply or refuses it.
LEMMA DecideStep ==
    ASSUME BridgeInv, NEW d \in Devices, HarnessDecides(d) PROVE BridgeInv'
  <1> DEFINE a == replying[d].id
  <1>1. /\ BridgeTypeOK /\ ReplyTypes /\ a \in Approvals
        /\ replying \in [Devices -> [at : ReplyPlaces,
                                     id : Approvals \union {"none"}]]
        /\ asked \in [Approvals -> {"none", "asked", "answered", "lost"}]
    BY DEF BridgeInv, BridgeTypeOK, ReplyTypes, HarnessDecides
  <1>2. PICK agreed \in {FALSE, asked[a] = "asked"} :
          /\ replying' = [replying EXCEPT ![d].at =
               IF agreed THEN "accepted" ELSE "rejected"]
          /\ IF agreed
             THEN /\ asked' = [asked EXCEPT ![a] = "answered"]
                  /\ Send(Answers(a))
             ELSE UNCHANGED <<asked, frames, missed>>
    BY DEF HarnessDecides
  <1>3. UNCHANGED <<jobs, muxUp, permissions, shownJobs, sessionJobs,
                    snapshots, projection, server, restarted>>
    BY DEF HarnessDecides, adapterSide
  <1>4. /\ replying' \in [Devices -> [at : ReplyPlaces,
                                      id : Approvals \union {"none"}]]
        /\ replying'[d].id = a
        /\ replying'[d].at = IF agreed THEN "accepted" ELSE "rejected"
        /\ \A e \in Devices : e # d => replying'[e] = replying[e]
    BY <1>1, <1>2 DEF ReplyPlaces
  <1>5. \A e \in Devices : replying'[e].at \in ReplyPlaces
    BY <1>4
  <1> HIDE DEF a
  <1>6. CASE agreed
    <2>1. /\ asked[a] = "asked" /\ Send(Answers(a))
          /\ asked' = [asked EXCEPT ![a] = "answered"]
      BY <1>2, <1>6
    <2>2. /\ frames' \in Seq(FrameType) /\ missed' \in BOOLEAN
      BY <1>1, <2>1, SendFacts, FrameFacts
    <2>3. BridgeTypeOK'
      BY <1>1, <1>3, <1>5, <2>1, <2>2 DEF BridgeTypeOK
    <2>4. ReplyTypes'
      BY <1>1, <1>4, <2>1 DEF ReplyTypes
    <2> QED
      BY <1>1, <1>3, <2>1, <2>3, <2>4, AskStep
  <1>7. CASE ~agreed
    <2>1. UNCHANGED <<asked, frames, missed>>
      BY <1>2, <1>7
    <2>2. BridgeTypeOK'
      BY <1>1, <1>3, <1>5, <2>1 DEF BridgeTypeOK
    <2>3. ReplyTypes'
      BY <1>1, <1>4, <1>7, <2>1 DEF ReplyTypes
    <2> QED
      BY <1>3, <2>1, <2>2, <2>3, QuietBridgeStep DEF BridgeInv, NewJobsUnknown
  <1> QED
    BY <1>6, <1>7

\* The receipt comes back: of an approval that is answered.
LEMMA ReplyStep ==
    ASSUME BridgeInv, NEW d \in Devices, ReplyAnswered(d) PROVE BridgeInv'
  <1> DEFINE a == replying[d].id
  <1>1. /\ BridgeTypeOK /\ ReplyTypes /\ a \in Approvals
        /\ snapshots \in Seq(JobViews) /\ shownJobs \in JobViews
        /\ permissions \subseteq Approvals
    BY DEF BridgeInv, BridgeTypeOK, ReplyTypes, ReplyAnswered
  <1>2. /\ permissions' = permissions /\ snapshots' = snapshots
        \/ /\ asked[a] = "answered" /\ permissions' = permissions \ {a}
           /\ snapshots' = Append(snapshots, shownJobs)
    BY <1>1 DEF ReplyAnswered, DropAccepted, Persist, ReplyTypes
  <1>3. /\ replying' = [replying EXCEPT ![d] = NoReply]
        /\ UNCHANGED <<asked, jobs, muxUp, frames, shownJobs, sessionJobs,
                       projection, server, missed, restarted>>
    BY DEF ReplyAnswered, harnessSide
  <1>4. ReplyTypes' /\ \A e \in Devices : replying'[e].at \in ReplyPlaces
    BY <1>1, <1>3 DEF ReplyTypes, NoReply, ReplyPlaces
  <1> HIDE DEF a
  <1>5. /\ snapshots' \in Seq(JobViews)
        /\ \A i \in 1..Len(snapshots') :
             \/ snapshots'[i] = shownJobs
             \/ i \in 1..Len(snapshots) /\ snapshots'[i] = snapshots[i]
    BY <1>1, <1>2, AppendProperties
  <1>6. BridgeTypeOK'
    <2>1. permissions' \subseteq Approvals
      BY <1>1, <1>2
    <2> QED
      BY <1>1, <1>3, <1>4, <1>5, <2>1 DEF BridgeTypeOK
  <1>7. AsksFollow'
    BY <1>1, <1>2, <1>3 DEF BridgeInv, AsksFollow, OnItsWay
  <1>8. NewJobsUnknown'
    BY <1>3, <1>5 DEF BridgeInv, NewJobsUnknown
  <1>9. RunningInLast' /\ JobsFollow'
    BY <1>3 DEF BridgeInv, RunningInLast, JobsFollow, JobsNow
  <1> QED
    BY <1>4, <1>6, <1>7, <1>8, <1>9 DEF BridgeInv

LEMMA BridgeNextInv == BridgeInv /\ [BridgeNext]_bridgeVars => BridgeInv'
  <1> SUFFICES ASSUME BridgeInv, [BridgeNext]_bridgeVars PROVE BridgeInv'
    OBVIOUS
  <1>1. /\ BridgeTypeOK /\ ReplyTypes /\ NewJobsUnknown
        /\ frames \in Seq(FrameType) /\ snapshots \in Seq(JobViews)
        /\ projection \in JobViews /\ <<>> \in Seq(FrameType)
        /\ asked \in [Approvals -> {"none", "asked", "answered", "lost"}]
    BY DEF BridgeInv, BridgeTypeOK
  <1>2. \A j \in Jobs : jobs[j] = "none" =>
          /\ projection[j] = "none"
          /\ \A i \in 1..Len(snapshots) : snapshots[i][j] = "none"
    BY <1>1 DEF NewJobsUnknown
  <1>3. CASE UNCHANGED bridgeVars
    <2>1. BridgeTypeOK' /\ ReplyTypes'
      BY <1>1, <1>3 DEF bridgeVars, BridgeTypeOK, ReplyTypes
    <2> QED
      BY <1>2, <1>3, <2>1, QuietBridgeStep DEF bridgeVars
  <1>4. CASE MuxBreaks \/ Subscribe \/ ServerStarts \/ DisposePlugin
    <2>1. /\ UNCHANGED <<asked, jobs, permissions, shownJobs, sessionJobs,
                         snapshots, projection, replying, restarted>>
          /\ muxUp' \in BOOLEAN /\ missed' \in BOOLEAN
          /\ server' \in {"none", "starting", "up", "stopped", "stray"}
          /\ \/ frames' = frames /\ missed' = missed
             \/ missed' /\ frames' \in {frames, <<>>}
      <3>1. CASE MuxBreaks
        BY <1>1, <3>1
        DEF MuxBreaks, harnessSide, adapterSide, BridgeTypeOK
      <3>2. CASE Subscribe
        BY <1>1, <3>2
        DEF Subscribe, harnessSide, adapterSide, BridgeTypeOK
      <3>3. CASE ServerStarts
        BY <1>1, <3>3
        DEF ServerStarts, harnessSide, adapterSide, BridgeTypeOK
      <3>4. CASE DisposePlugin
        BY <1>1, <3>4
        DEF DisposePlugin, harnessSide, adapterSide, BridgeTypeOK
      <3> QED
        BY <1>4, <3>1, <3>2, <3>3, <3>4
    <2>2. frames' \in Seq(FrameType)
      BY <1>1, <2>1
    <2>3. BridgeTypeOK' /\ ReplyTypes'
      BY <1>1, <2>1, <2>2 DEF BridgeTypeOK, ReplyTypes
    <2> QED
      BY <1>2, <2>1, <2>3, QuietBridgeStep
  <1>5. CASE WriteProjection
    <2>1. /\ snapshots # <<>>
          /\ projection' = Head(snapshots) /\ snapshots' = Tail(snapshots)
          /\ UNCHANGED <<asked, jobs, muxUp, frames, permissions, shownJobs,
                         sessionJobs, replying, server, missed, restarted>>
      BY <1>5 DEF WriteProjection, harnessSide
    <2>2. /\ projection' \in JobViews /\ snapshots' \in Seq(JobViews)
          /\ projection' = snapshots[1] /\ 1 \in 1..Len(snapshots)
          /\ \A i \in 1..Len(snapshots') : /\ snapshots'[i] = snapshots[i + 1]
                                           /\ i + 1 \in 1..Len(snapshots)
      BY <1>1, <2>1, HeadTailProperties
    <2>3. BridgeTypeOK' /\ ReplyTypes'
      BY <1>1, <2>1, <2>2 DEF BridgeTypeOK, ReplyTypes
    <2> QED
      BY <1>2, <2>1, <2>2, <2>3, QuietBridgeStep
  <1>6. ASSUME NEW d \in Devices,
               ReplySent(d) \/ \E a \in Approvals : ReplyAuthorized(d, a)
        PROVE  BridgeInv'
    <2>1. UNCHANGED <<asked, jobs, muxUp, frames, permissions, shownJobs,
                      sessionJobs, snapshots, projection, server, missed,
                      restarted>>
      BY <1>6 DEF ReplySent, ReplyAuthorized, harnessSide, adapterSide
    <2>2. ReplyTypes'
      <3>1. CASE ReplySent(d)
        <4>1. replying[d].id \in Approvals
          BY <1>1, <3>1 DEF ReplySent, ReplyTypes
        <4> QED
          BY <1>1, <2>1, <3>1, <4>1
          DEF ReplySent, ReplyTypes, NoReply, ReplyPlaces
      <3>2. ASSUME NEW a \in Approvals, ReplyAuthorized(d, a)
            PROVE  ReplyTypes'
        BY <1>1, <2>1, <3>2 DEF ReplyAuthorized, ReplyTypes, ReplyPlaces
      <3> QED
        BY <1>6, <3>1, <3>2
    <2>3. BridgeTypeOK'
      BY <1>1, <2>1, <2>2 DEF BridgeTypeOK, ReplyTypes
    <2> QED
      BY <1>2, <2>1, <2>2, <2>3, QuietBridgeStep
  <1>7. ASSUME NEW a \in Approvals, HarnessAsks(a) \/ AnsweredLocally(a)
        PROVE  BridgeInv'
    <2> DEFINE f == IF asked[a] = "none" THEN Asks(a) ELSE Answers(a)
    <2>1. /\ Send(f)
          /\ \/ /\ asked[a] = "none" /\ f = Asks(a)
                /\ asked' = [asked EXCEPT ![a] = "asked"]
             \/ /\ asked[a] = "asked" /\ f = Answers(a)
                /\ asked' = [asked EXCEPT ![a] = "answered"]
          /\ UNCHANGED <<jobs, muxUp, permissions, shownJobs, sessionJobs,
                         snapshots, projection, replying, server, restarted>>
      BY <1>7 DEF HarnessAsks, AnsweredLocally, adapterSide
    <2>2. f \in FrameType
      BY FrameFacts
    <2> HIDE DEF f
    <2>3. frames' \in Seq(FrameType) /\ missed' \in BOOLEAN
      BY <1>1, <2>1, <2>2, SendFacts
    <2>4. BridgeTypeOK' /\ ReplyTypes'
      BY <1>1, <2>1, <2>3 DEF BridgeTypeOK, ReplyTypes
    <2> QED
      BY <2>1, <2>4, AskStep
  <1> QED
    BY <1>3, <1>4, <1>5, <1>6, <1>7, JobStep, HandleFrameStep,
       NewHarnessStep, DecideStep, ReplyStep DEF BridgeNext

\* While no frame was lost, once the pump has caught up a device sees the
\* approvals the Harness waits for and the jobs it runs (createRemoteAdapter,
\* permission_reply).
THEOREM DevicesSeeTheHarness == BridgeSpec => []BridgeFollowsHarness
  <1>1. BridgeSpec => []BridgeInv
    BY BridgeInitInv, BridgeNextInv, PTL DEF BridgeSpec
  <1> QED
    BY <1>1, InvFollows, PTL

-----------------------------------------------------------------------------
(* The MCP servers. *)

McpEntry == [name : McpNames, on : BOOLEAN, live : BOOLEAN]

Reconciles == {"entries", "removed", "adopted", "created"}

McpPlaces ==
    {"idle", "list", "boot", "state", "patch", "off", "back"}
      \union Reconciles

McpCallType ==
    [at : McpPlaces, op : {"none", "change", "load", "restart"},
     recs : Records, todo : SUBSET (1..Len(entries)),
     now : 0..Len(entries), met : SUBSET McpNames, made : SUBSET Server,
     alone : BOOLEAN]

McpTypes ==
    /\ mcpState \in Records /\ mcpPatch \in Records
    /\ entries \in Seq(McpEntry) /\ managed \subseteq 1..Len(entries)
    /\ mcpCall \in [McpCalls -> McpCallType]
    /\ \A c \in McpCalls :
         /\ mcpCall[c].made \subseteq mcpCall[c].recs
         /\ mcpCall[c].at \in {"off", "back"} => mcpCall[c].todo # {}
         /\ mcpCall[c].at \in {"removed", "adopted", "created"} =>
              mcpCall[c].now # 0
         /\ mcpCall[c].at \in {"list", "boot", "state", "patch"} =>
              mcpCall[c].met = {} /\ mcpCall[c].made = {}
    /\ mcpCount \in 0..McpBound
    /\ settledMcp \in {"no", "loader", "files"}

Lone(c) == mcpCall[c].at # "idle" /\ mcpCall[c].alone

LoneIsAlone ==
    \A c, d \in McpCalls : Lone(c) /\ c # d => mcpCall[d].at = "idle"

SettledIsIdle ==
    settledMcp # "no" => \A c \in McpCalls : mcpCall[c].at = "idle"

\* The entries c has brought into line: managed, or just created.
InLine(c) ==
    {i \in 1..Len(entries) :
       /\ entries[i].live /\ i \notin mcpCall[c].todo
       /\ i \in managed \/ (mcpCall[c].at = "created" /\ i = mcpCall[c].now)}

\* A record c has dealt with says what i is, or will be when it is updated.
AsRecorded(c, i) ==
    \E r \in mcpCall[c].recs :
        /\ r.name = entries[i].name
        /\ r.name \in mcpCall[c].met \/ r \in mcpCall[c].made
        /\ \/ entries[i].on = r.on
           \/ mcpCall[c].at = "adopted" /\ i = mcpCall[c].now

\* A reconciliation that runs alone has an entry of every name it has met and
\* of every record it has fresh; two of a name are of two records it has fresh.
Reconciling(c) ==
    /\ mcpState = mcpCall[c].recs
    /\ mcpCall[c].op = "change" => mcpPatch = mcpCall[c].recs
    /\ \A i \in mcpCall[c].todo : entries[i].live
    /\ \A i \in InLine(c) : AsRecorded(c, i)
    /\ \A i, j \in InLine(c) : entries[i].name = entries[j].name /\ i # j =>
         \E r, s \in mcpCall[c].made : /\ r # s
                                       /\ r.name = entries[i].name
                                       /\ s.name = entries[i].name
    /\ \A n \in mcpCall[c].met : \E i \in InLine(c) : entries[i].name = n
    /\ \A r \in mcpCall[c].made :
         /\ r.name \notin mcpCall[c].met
         /\ \E i \in InLine(c) : entries[i].name = r.name
    /\ mcpCall[c].todo # {} \/ mcpCall[c].at \in {"removed", "adopted"} =>
         mcpCall[c].made = {}
    /\ mcpCall[c].at = "removed" => ~entries[mcpCall[c].now].live

LoneIsRight ==
    \A c \in McpCalls : Lone(c) =>
        /\ mcpCall[c].at = "patch" => mcpState = mcpCall[c].recs
        /\ mcpCall[c].at \in Reconciles /\ mcpCall[c].op # "restart" =>
             Reconciling(c)

McpInv ==
    /\ McpTypes /\ LoneIsAlone /\ SettledIsIdle /\ LoneIsRight
    /\ LoaderFollowsFile

LEMMA LeastOf ==
    ASSUME NEW n \in Nat, NEW S \in SUBSET (1..n), S # {}
    PROVE  Min(S) \in S
  <1>1. S \in SUBSET Nat
    OBVIOUS
  <1>2. PICK x \in S : \A y \in S : ~(<<y, x>> \in OpToRel(<, Nat))
    BY <1>1, NatLessThanWellFounded, WFMin
  <1>3. ASSUME NEW y \in S PROVE x <= y
    <2>1. ~(y < x)
      BY <1>1, <1>2 DEF OpToRel
    <2> QED
      BY <1>1, <2>1
  <1> QED
    BY <1>3 DEF Min

LEMMA SetToSeqIs ==
    ASSUME NEW S, IsFiniteSet(S)
    PROVE  SetToSeq(S) \in Seq(S)
  <1>1. Cardinality(S) \in Nat /\ ExistsBijection(1..Cardinality(S), S)
    BY FS_CardinalityType
  <1>2. \E f \in [1..Cardinality(S) -> S] : IsInjective(f)
    BY <1>1 DEF ExistsBijection, Bijection, Injection
  <1>3. SetToSeq(S) \in [1..Cardinality(S) -> S]
    BY <1>2 DEF SetToSeq
  <1> QED
    BY <1>1, <1>3, SeqDef

\* The fields of a record of a server, and what a file may hold.
LEMMA RecordsAre ==
    /\ {} \in Records
    /\ \A recs \in Records :
         /\ recs \subseteq Server
         /\ \A more \in Records : With(recs, more) \in Records
         /\ \A r \in recs : recs \ {r} \in Records /\ {r} \in Records
    /\ \A r \in Server : r.name \in McpNames /\ r.on \in BOOLEAN
  BY McpAssumption DEF Records, With

\* What the Harness loads are live entries.
LEMMA LoadedIs ==
    ASSUME NEW patch \in Records
    PROVE  /\ Loaded(patch) \in Seq(McpEntry)
           /\ \A i \in 1..Len(Loaded(patch)) : Loaded(patch)[i].live
  <1> DEFINE own == SetToSeq(OwnServers)
             ours == SetToSeq(patch)
             s == [i \in 1..Len(own) |-> Entry(own[i], TRUE)]
             t == [i \in 1..Len(ours) |-> Entry(ours[i].name, ours[i].on)]
             Alive == {e \in McpEntry : e.live}
  <1>1. own \in Seq(McpNames) /\ ours \in Seq(Server)
    <2>1. IsFiniteSet(OwnServers) /\ IsFiniteSet(patch)
      BY McpAssumption, RecordsAre, FS_Subset
    <2>2. own \in Seq(OwnServers) /\ ours \in Seq(patch)
      BY <2>1, SetToSeqIs
    <2> QED
      BY <2>2, McpAssumption, RecordsAre, SeqMonotonic
  <1> HIDE DEF own, ours
  <1>2. s \in Seq(Alive)
    <2>1. Len(own) \in Nat /\ \A i \in 1..Len(own) : own[i] \in McpNames
      BY <1>1, ElementOfSeq
    <2>2. \A i \in 1..Len(own) : Entry(own[i], TRUE) \in Alive
      BY <2>1 DEF Entry, McpEntry
    <2> HIDE DEF Alive
    <2>3. s \in [1..Len(own) -> Alive]
      BY <2>2
    <2> QED
      BY <2>1, <2>3, SeqDef
  <1>3. t \in Seq(Alive)
    <2>1. Len(ours) \in Nat /\ \A i \in 1..Len(ours) : ours[i] \in Server
      BY <1>1, ElementOfSeq
    <2>2. \A i \in 1..Len(ours) : Entry(ours[i].name, ours[i].on) \in Alive
      BY <2>1, RecordsAre DEF Entry, McpEntry
    <2> HIDE DEF Alive
    <2>3. t \in [1..Len(ours) -> Alive]
      BY <2>2
    <2> QED
      BY <2>1, <2>3, SeqDef
  <1>4. Loaded(patch) = s \o t
    BY DEF Loaded, own, ours
  <1> HIDE DEF s, t
  <1>5. s \o t \in Seq(Alive)
    BY <1>2, <1>3, ConcatProperties
  <1>6. Loaded(patch) \in Seq(McpEntry)
    BY <1>4, <1>5, SeqMonotonic
  <1> QED
    BY <1>4, <1>5, <1>6, ElementOfSeq

LEMMA NoCallTypes ==
    /\ entries \in Seq(McpEntry) => NoCall \in McpCallType
    /\ NoCall.at = "idle" /\ NoCall.made = {} /\ NoCall.recs = {}
    /\ NoCall.met = {}
  BY RecordsAre DEF NoCall, McpCallType, McpPlaces

LEMMA McpInitInv == McpInit => McpInv
  <1> SUFFICES ASSUME McpInit PROVE McpInv
    OBVIOUS
  <1>1. /\ mcpState \in Records /\ mcpPatch \in Records
        /\ \A c \in McpCalls : mcpCall[c] = NoCall
        /\ managed = {} /\ mcpCount = 0 /\ settledMcp = "no"
        /\ entries \in Seq(McpEntry)
        /\ mcpCall = [c \in McpCalls |-> NoCall]
    BY RecordsAre, LoadedIs DEF McpInit
  <1>2. McpTypes
    <2>1. mcpCount \in 0..McpBound
      BY <1>1, McpAssumption
    <2>2. mcpCall \in [McpCalls -> McpCallType]
      BY <1>1, NoCallTypes
    <2> QED
      BY <1>1, <2>1, <2>2, NoCallTypes DEF McpTypes
  <1>3. LoneIsAlone /\ SettledIsIdle /\ LoneIsRight
    BY <1>1, NoCallTypes DEF LoneIsAlone, SettledIsIdle, LoneIsRight, Lone
  <1>4. LoaderFollowsFile
    BY <1>1 DEF LoaderFollowsFile
  <1> QED
    BY <1>2, <1>3, <1>4 DEF McpInv

LEMMA McpTypesOK == McpTypes => McpTypeOK
  <1> SUFFICES ASSUME McpTypes PROVE McpTypeOK
    OBVIOUS
  <1>1. ASSUME NEW i \in 1..Len(entries)
        PROVE  /\ entries[i].name \in McpNames
               /\ entries[i].on \in BOOLEAN /\ entries[i].live \in BOOLEAN
    <2>1. entries[i] \in McpEntry
      BY ElementOfSeq DEF McpTypes
    <2> QED
      BY <2>1 DEF McpEntry
  <1>2. ASSUME NEW c \in McpCalls
        PROVE  /\ mcpCall[c].at \in McpPlaces
               /\ mcpCall[c].op \in {"none", "change", "load", "restart"}
               /\ mcpCall[c].recs \in Records
               /\ mcpCall[c].todo \subseteq 1..Len(entries)
               /\ mcpCall[c].now \in 0..Len(entries)
               /\ mcpCall[c].met \subseteq McpNames
               /\ mcpCall[c].made \subseteq mcpCall[c].recs
    BY DEF McpTypes, McpCallType
  <1> QED
    BY <1>1, <1>2 DEF McpTypes, McpTypeOK, McpPlaces, Reconciles

\* What a request says beside its type.
Fits(k) ==
    /\ k.made \subseteq k.recs
    /\ k.at \in {"off", "back"} => k.todo # {}
    /\ k.at \in {"removed", "adopted", "created"} => k.now # 0
    /\ k.at \in {"list", "boot", "state", "patch"} =>
         k.met = {} /\ k.made = {}

\* A step of a request that is at work.
LEMMA CallStep ==
    ASSUME McpInv, NEW c \in McpCalls, mcpCall[c].at # "idle",
           NEW to, Go(c, to), to \in McpCallType', Fits(to),
           (to.alone = mcpCall[c].alone) \/ to.at = "idle",
           entries' \in Seq(McpEntry), Len(entries) <= Len(entries'),
           managed' \subseteq 1..Len(entries'),
           mcpState' \in Records, mcpPatch' \in Records,
           UNCHANGED <<mcpCount, settledMcp>>,
           Lone(c) =>
             /\ to.at = "patch" => mcpState' = to.recs
             /\ to.at \in Reconciles /\ to.op # "restart" => Reconciling(c)'
    PROVE  McpInv'
  <1>1. /\ McpTypes /\ LoneIsAlone /\ SettledIsIdle /\ LoneIsRight
        /\ mcpCall \in [McpCalls -> McpCallType]
        /\ Len(entries) \in Nat /\ Len(entries') \in Nat
    BY DEF McpInv, McpTypes
  <1>2. /\ mcpCall'[c] = to
        /\ \A d \in McpCalls : d # c => mcpCall'[d] = mcpCall[d]
        /\ mcpCall' = [d \in McpCalls |-> mcpCall'[d]]
    BY <1>1 DEF Go
  <1>3. settledMcp' = "no"
    BY <1>1 DEF SettledIsIdle
  <1>4. McpTypes'
    <2>1. ASSUME NEW d \in McpCalls PROVE mcpCall'[d] \in McpCallType'
      <3>1. CASE d = c
        BY <1>2, <3>1
      <3>2. CASE d # c
        <4>1. mcpCall'[d] = mcpCall[d] /\ mcpCall[d] \in McpCallType
          BY <1>1, <1>2, <3>2
        <4>2. /\ 1..Len(entries) \subseteq 1..Len(entries')
              /\ 0..Len(entries) \subseteq 0..Len(entries')
          BY <1>1
        <4> QED
          BY <4>1, <4>2 DEF McpCallType
      <3> QED
        BY <3>1, <3>2
    <2>2. mcpCall' \in [McpCalls -> McpCallType']
      BY <1>2, <2>1
    <2>3. \A d \in McpCalls : Fits(mcpCall'[d])
      BY <1>1, <1>2 DEF McpTypes, Fits
    <2> QED
      BY <1>1, <2>2, <2>3 DEF McpTypes, Fits
  <1>5. ASSUME NEW d \in McpCalls, Lone(d)' PROVE d = c /\ Lone(c)
    <2>1. CASE d = c
      BY <1>2, <1>5, <2>1 DEF Lone
    <2>2. CASE d # c
      <3>1. Lone(d)
        BY <1>2, <1>5, <2>2 DEF Lone
      <3> QED
        BY <1>1, <2>2, <3>1 DEF LoneIsAlone
    <2> QED
      BY <2>1, <2>2
  <1>6. LoneIsAlone'
    <2> SUFFICES ASSUME NEW d \in McpCalls, NEW e \in McpCalls, Lone(d)',
                        d # e
                 PROVE  mcpCall'[e].at = "idle"
      BY DEF LoneIsAlone
    <2>1. d = c /\ Lone(c)
      BY <1>5
    <2> QED
      BY <1>1, <1>2, <2>1 DEF LoneIsAlone
  <1>7. LoneIsRight'
    <2> SUFFICES ASSUME NEW d \in McpCalls, Lone(d)'
        PROVE  /\ mcpCall'[d].at = "patch" => mcpState' = mcpCall'[d].recs
               /\ mcpCall'[d].at \in Reconciles
                    /\ mcpCall'[d].op # "restart" => Reconciling(d)'
      BY DEF LoneIsRight
    <2>1. d = c /\ Lone(c)
      BY <1>5
    <2> QED
      BY <1>2, <2>1
  <1> QED
    BY <1>3, <1>4, <1>6, <1>7 DEF McpInv, SettledIsIdle, LoaderFollowsFile

\* The place of a request is one of its type.
LEMMA McpCallIs ==
    ASSUME McpInv, NEW c \in McpCalls
    PROVE  /\ McpTypes /\ LoneIsAlone /\ LoneIsRight
           /\ mcpCall[c] \in McpCallType /\ Fits(mcpCall[c])
           /\ mcpCall[c].at \in McpPlaces /\ mcpCall[c].recs \in Records
           /\ mcpCall[c].todo \subseteq 1..Len(entries)
           /\ mcpCall[c].now \in 0..Len(entries)
           /\ mcpCall[c].met \subseteq McpNames
           /\ mcpCall[c].made \subseteq Server
           /\ mcpState \in Records /\ mcpPatch \in Records
           /\ managed \subseteq 1..Len(entries)
           /\ entries \in Seq(McpEntry) /\ Len(entries) \in Nat
           /\ \A i \in 1..Len(entries) :
                /\ entries[i] \in McpEntry /\ entries[i].name \in McpNames
                /\ entries[i].on \in BOOLEAN /\ entries[i].live \in BOOLEAN
  <1>1. /\ McpTypes /\ LoneIsAlone /\ LoneIsRight
        /\ mcpCall[c] \in McpCallType /\ entries \in Seq(McpEntry)
    BY DEF McpTypes, McpInv
  <1>2. ASSUME NEW i \in 1..Len(entries)
        PROVE  /\ entries[i] \in McpEntry /\ entries[i].name \in McpNames
               /\ entries[i].on \in BOOLEAN /\ entries[i].live \in BOOLEAN
    <2>1. entries[i] \in McpEntry
      BY <1>1, ElementOfSeq
    <2> QED
      BY <2>1 DEF McpEntry
  <1>3. /\ Fits(mcpCall[c]) /\ mcpState \in Records /\ mcpPatch \in Records
        /\ managed \subseteq 1..Len(entries)
    BY <1>1 DEF McpTypes, Fits
  <1>4. Len(entries) \in Nat
    BY <1>1
  <1> QED
    BY <1>1, <1>2, <1>3, <1>4 DEF McpCallType

\* The requests that change the files, and those that do not.
LEMMA ChangeRecordsStep ==
    ASSUME McpInv, NEW c \in McpCalls, ChangeRecords(c) PROVE McpInv'
  <1>1. PICK req : req = mcpCall[c]
    OBVIOUS
  <1>2. /\ req \in McpCallType /\ Fits(req) /\ req.at = "list"
        /\ mcpState \in Records /\ mcpPatch \in Records
        /\ managed \subseteq 1..Len(entries) /\ Len(entries) \in Nat
        /\ entries \in Seq(McpEntry)
    BY <1>1, McpCallIs DEF ChangeRecords
  <1>3. /\ UNCHANGED <<mcpState, mcpPatch, entries, managed, mcpCount,
                       settledMcp>>
        /\ McpCallType' = McpCallType
    BY DEF ChangeRecords, McpCallType
  <1>4. PICK recs \in Changed :
          Go(c, [req EXCEPT !.at = "state", !.op = "change", !.recs = recs])
    BY <1>1 DEF ChangeRecords
  <1>5. recs \in Records
    BY <1>2, <1>4, RecordsAre DEF Changed
  <1>6. PICK to : to = [req EXCEPT !.at = "state", !.op = "change",
                                   !.recs = recs]
    OBVIOUS
  <1>7. /\ to \in McpCallType /\ to.at = "state" /\ to.alone = req.alone
        /\ to.made = req.made /\ to.met = req.met
    BY <1>2, <1>5, <1>6 DEF McpCallType, McpPlaces
  <1>8. Fits(to)
    BY <1>2, <1>7 DEF Fits
  <1>9. Go(c, to)
    BY <1>4, <1>6
  <1> QED
    BY <1>1, <1>2, <1>3, <1>7, <1>8, <1>9, CallStep DEF Reconciles

\* A reconciliation starts: nothing is in line yet.
LEMMA ReconcileIs ==
    ASSUME McpInv, NEW c \in McpCalls, NEW recs \in Records,
           NEW op \in {"change", "load", "restart"},
           mcpCall[c].at \in {"list", "boot", "patch"},
           NEW to, to = Reconcile(mcpCall[c], op, recs)
    PROVE  /\ to \in McpCallType /\ Fits(to) /\ to.at = "entries"
           /\ to.alone = mcpCall[c].alone /\ to.recs = recs /\ to.op = op
           /\ to.todo = {i \in 1..Len(entries) : entries[i].live}
           /\ to.met = {} /\ to.made = {}
  <1>1. PICK req : req = mcpCall[c]
    OBVIOUS
  <1>2. /\ req \in McpCallType /\ Fits(req)
        /\ req.at \in {"list", "boot", "patch"}
    BY <1>1, McpCallIs
  <1>3. PICK all : all = {i \in 1..Len(entries) : entries[i].live}
    OBVIOUS
  <1>4. to = [req EXCEPT !.at = "entries", !.op = op, !.recs = recs,
                         !.todo = all]
    BY <1>1, <1>3 DEF Reconcile
  <1>5. /\ to \in McpCallType /\ to.at = "entries" /\ to.alone = req.alone
        /\ to.recs = recs /\ to.op = op /\ to.todo = all
        /\ to.met = req.met /\ to.made = req.made
    <2>1. all \in SUBSET (1..Len(entries)) /\ "entries" \in McpPlaces
      BY <1>3 DEF McpPlaces, Reconciles
    <2> QED
      BY <1>2, <1>4, <2>1 DEF McpCallType
  <1>6. req.met = {} /\ req.made = {}
    BY <1>2 DEF Fits
  <1> QED
    BY <1>1, <1>3, <1>5, <1>6 DEF Fits

LEMMA LoadRecordsStep ==
    ASSUME McpInv, NEW c \in McpCalls, LoadRecords(c) PROVE McpInv'
  <1>1. PICK to : to = Reconcile(mcpCall[c], "load", mcpState)
    OBVIOUS
  <1>2. /\ Go(c, to) /\ mcpCall[c].at \in {"list", "boot"}
        /\ UNCHANGED <<mcpState, mcpPatch, entries, managed, mcpCount,
                       settledMcp>>
    BY <1>1 DEF LoadRecords
  <1>3. /\ McpTypes /\ mcpState \in Records /\ mcpPatch \in Records
        /\ managed \subseteq 1..Len(entries) /\ Len(entries) \in Nat
        /\ entries \in Seq(McpEntry) /\ McpCallType' = McpCallType
    BY <1>2, McpCallIs DEF McpCallType
  <1>4. /\ to \in McpCallType /\ Fits(to) /\ to.at = "entries"
        /\ to.alone = mcpCall[c].alone /\ to.recs = mcpState
        /\ to.op = "load"
        /\ to.todo = {i \in 1..Len(entries) : entries[i].live}
        /\ to.met = {} /\ to.made = {}
    BY <1>1, <1>2, <1>3, ReconcileIs
  <1>5. mcpCall'[c] = to
    BY <1>2, <1>3 DEF Go, McpTypes
  <1>6. Reconciling(c)'
    <2>1. InLine(c)' = {}
      BY <1>2, <1>4, <1>5 DEF InLine
    <2> QED
      BY <1>2, <1>4, <1>5, <2>1 DEF Reconciling
  <1> QED
    BY <1>2, <1>3, <1>4, <1>6, CallStep

LEMMA RestartServerStep ==
    ASSUME McpInv, NEW c \in McpCalls, RestartServer(c) PROVE McpInv'
  <1>1. PICK req : req = mcpCall[c]
    OBVIOUS
  <1>2. PICK r \in mcpState :
          Go(c, IF Live(r.name) = {}
                THEN Reconcile(req, "restart", {r})
                ELSE [req EXCEPT !.at = "off", !.op = "restart",
                                 !.recs = {r}, !.todo = Live(r.name)])
    BY <1>1 DEF RestartServer
  <1>3. /\ UNCHANGED <<mcpState, mcpPatch, entries, managed, mcpCount,
                       settledMcp>>
        /\ McpCallType' = McpCallType /\ req.at = "list"
    BY <1>1 DEF RestartServer, McpCallType
  <1>4. /\ req \in McpCallType /\ Fits(req)
        /\ mcpState \in Records /\ mcpPatch \in Records
        /\ managed \subseteq 1..Len(entries) /\ Len(entries) \in Nat
        /\ entries \in Seq(McpEntry) /\ {r} \in Records
    BY <1>1, McpCallIs, RecordsAre
  <1>5. PICK to : /\ Go(c, to) /\ to \in McpCallType /\ Fits(to)
                  /\ to.at \in {"entries", "off"} /\ to.op = "restart"
                  /\ to.alone = req.alone
    <2>1. CASE Live(r.name) = {}
      <3>1. PICK to : to = Reconcile(req, "restart", {r})
        OBVIOUS
      <3>2. Go(c, to)
        BY <1>2, <2>1, <3>1
      <3>3. /\ to \in McpCallType /\ Fits(to) /\ to.at = "entries"
            /\ to.alone = req.alone /\ to.op = "restart"
        BY <1>1, <1>3, <1>4, <3>1, ReconcileIs
      <3> QED
        BY <3>2, <3>3
    <2>2. CASE Live(r.name) # {}
      <3>1. PICK todo : todo = Live(r.name)
        OBVIOUS
      <3>2. PICK to : to = [req EXCEPT !.at = "off", !.op = "restart",
                                       !.recs = {r}, !.todo = todo]
        OBVIOUS
      <3>3. Go(c, to)
        BY <1>2, <2>2, <3>1, <3>2
      <3>4. todo \subseteq 1..Len(entries) /\ todo # {}
        BY <2>2, <3>1 DEF Live
      <3>5. /\ to \in McpCallType /\ to.at = "off" /\ to.op = "restart"
            /\ to.alone = req.alone /\ to.todo = todo /\ to.made = req.made
        BY <1>4, <3>2, <3>4 DEF McpCallType, McpPlaces
      <3>6. Fits(to)
        BY <1>3, <1>4, <3>4, <3>5 DEF Fits
      <3> QED
        BY <3>3, <3>5, <3>6
    <2> QED
      BY <2>1, <2>2
  <1> QED
    BY <1>1, <1>3, <1>4, <1>5, CallStep

LEMMA SavesStep ==
    ASSUME McpInv, NEW c \in McpCalls, SaveRecords(c) \/ SavePatch(c)
    PROVE  McpInv'
  <1>1. PICK req : req = mcpCall[c]
    OBVIOUS
  <1>2. /\ McpTypes /\ LoneIsRight /\ req \in McpCallType /\ Fits(req)
        /\ req.at \in {"state", "patch"} /\ req.recs \in Records
        /\ mcpState \in Records /\ mcpPatch \in Records
        /\ managed \subseteq 1..Len(entries) /\ Len(entries) \in Nat
        /\ entries \in Seq(McpEntry)
    BY <1>1, McpCallIs DEF SaveRecords, SavePatch
  <1>3. UNCHANGED <<entries, managed, mcpCount, settledMcp>>
        /\ McpCallType' = McpCallType
    BY DEF SaveRecords, SavePatch, McpCallType
  <1>4. CASE SaveRecords(c)
    <2>1. PICK to : to = [req EXCEPT !.at = "patch"]
      OBVIOUS
    <2>2. /\ Go(c, to) /\ mcpState' = req.recs /\ mcpPatch' = mcpPatch
          /\ req.at = "state"
      BY <1>1, <1>4, <2>1 DEF SaveRecords
    <2>3. /\ to \in McpCallType /\ to.at = "patch" /\ to.alone = req.alone
          /\ to.recs = req.recs /\ to.met = req.met /\ to.made = req.made
      BY <1>2, <2>1 DEF McpCallType, McpPlaces
    <2>4. Fits(to)
      BY <1>2, <2>2, <2>3 DEF Fits
    <2> QED
      BY <1>1, <1>2, <1>3, <2>2, <2>3, <2>4, CallStep DEF Reconciles
  <1>5. CASE SavePatch(c)
    <2>1. PICK to : to = Reconcile(req, "change", req.recs)
      OBVIOUS
    <2>2. /\ Go(c, to) /\ mcpPatch' = req.recs /\ mcpState' = mcpState
          /\ req.at = "patch"
      BY <1>1, <1>5, <2>1 DEF SavePatch
    <2>3. /\ to \in McpCallType /\ Fits(to) /\ to.at = "entries"
          /\ to.alone = req.alone /\ to.recs = req.recs /\ to.op = "change"
          /\ to.todo = {i \in 1..Len(entries) : entries[i].live}
          /\ to.met = {} /\ to.made = {}
      <3>1. PICK recs \in Records : recs = req.recs
        BY <1>2
      <3>2. to = Reconcile(mcpCall[c], "change", recs)
        BY <1>1, <2>1, <3>1
      <3>3. mcpCall[c].at \in {"list", "boot", "patch"}
        BY <1>1, <2>2
      <3>4. /\ to \in McpCallType /\ Fits(to) /\ to.at = "entries"
            /\ to.alone = mcpCall[c].alone /\ to.recs = recs
            /\ to.op = "change"
            /\ to.todo = {i \in 1..Len(entries) : entries[i].live}
            /\ to.met = {} /\ to.made = {}
        BY <3>2, <3>3, ReconcileIs
      <3> QED
        BY <1>1, <3>1, <3>4
    <2>4. mcpCall'[c] = to
      BY <1>2, <2>2 DEF Go, McpTypes
    <2>5. ASSUME Lone(c) PROVE Reconciling(c)'
      <3>1. mcpState = req.recs
        BY <1>1, <1>2, <2>2, <2>5 DEF LoneIsRight
      <3>2. InLine(c)' = {}
        BY <1>3, <2>3, <2>4 DEF InLine
      <3> QED
        BY <1>3, <2>2, <2>3, <2>4, <3>1, <3>2 DEF Reconciling
    <2> QED
      BY <1>1, <1>2, <1>3, <2>2, <2>3, <2>5, CallStep
  <1> QED
    BY <1>4, <1>5

LEMMA CallThrowsStep ==
    ASSUME McpInv, NEW c \in McpCalls, CallThrows(c) PROVE McpInv'
  <1>1. /\ mcpCall[c].at # "idle" /\ Go(c, NoCall)
        /\ UNCHANGED <<mcpState, mcpPatch, entries, managed, mcpCount,
                       settledMcp>>
        /\ McpCallType' = McpCallType
    BY DEF CallThrows, McpCallType
  <1>2. NoCall \in McpCallType /\ Fits(NoCall) /\ NoCall.at = "idle"
    BY McpCallIs, NoCallTypes DEF Fits
  <1>3. /\ mcpState \in Records /\ mcpPatch \in Records
        /\ managed \subseteq 1..Len(entries) /\ Len(entries) \in Nat
        /\ entries \in Seq(McpEntry)
    BY McpCallIs
  <1> QED
    BY <1>1, <1>2, <1>3, CallStep DEF Reconciles

\* The entry c looks at.
LEMMA NextEntryIs ==
    ASSUME McpInv, NEW c \in McpCalls, mcpCall[c].todo # {}
    PROVE  /\ Min(mcpCall[c].todo) \in mcpCall[c].todo
           /\ Min(mcpCall[c].todo) \in 1..Len(entries)
  <1>1. mcpCall[c].todo \subseteq 1..Len(entries) /\ Len(entries) \in Nat
    BY McpCallIs
  <1>2. Min(mcpCall[c].todo) \in mcpCall[c].todo
    BY <1>1, LeastOf
  <1> QED
    BY <1>1, <1>2

\* An entry that changes stays one, and the others do not.
LEMMA EntryChanges ==
    ASSUME entries \in Seq(McpEntry), NEW i \in 1..Len(entries),
           NEW e \in McpEntry, entries' = [entries EXCEPT ![i] = e]
    PROVE  /\ entries' \in Seq(McpEntry) /\ Len(entries') = Len(entries)
           /\ entries'[i] = e /\ McpCallType' = McpCallType
           /\ \A j \in 1..Len(entries) : j # i => entries'[j] = entries[j]
  <1>1. entries' \in Seq(McpEntry) /\ Len(entries') = Len(entries)
    BY ExceptSeq
  <1>2. /\ entries'[i] = e
        /\ \A j \in 1..Len(entries) : j # i => entries'[j] = entries[j]
    BY ExceptSeq
  <1> QED
    BY <1>1, <1>2 DEF McpCallType

\* Where c is in its reconciliation from now on.
Moves(c, at, todo, now, met, fresh) ==
    Go(c, [mcpCall[c] EXCEPT !.at = at, !.todo = todo, !.now = now,
                             !.met = met, !.made = fresh])

LEMMA MovedIs ==
    ASSUME McpInv, NEW c \in McpCalls, NEW at, NEW todo, NEW now, NEW met,
           NEW fresh, Moves(c, at, todo, now, met, fresh)
    PROVE  /\ mcpCall'[c].at = at /\ mcpCall'[c].op = mcpCall[c].op
           /\ mcpCall'[c].recs = mcpCall[c].recs /\ mcpCall'[c].todo = todo
           /\ mcpCall'[c].now = now /\ mcpCall'[c].met = met
           /\ mcpCall'[c].made = fresh
           /\ mcpCall'[c].alone = mcpCall[c].alone
  <1>1. PICK req : req = mcpCall[c]
    OBVIOUS
  <1>2. McpTypes /\ req \in McpCallType
    BY <1>1, McpCallIs
  <1>3. mcpCall'[c] = [req EXCEPT !.at = at, !.todo = todo, !.now = now,
                                  !.met = met, !.made = fresh]
    BY <1>1, <1>2 DEF Moves, Go, McpTypes
  <1> QED
    BY <1>1, <1>2, <1>3 DEF McpCallType

\* A step of a reconciliation: the place changes, the records do not.
LEMMA ReconcileStep ==
    ASSUME McpInv, NEW c \in McpCalls, mcpCall[c].at \in Reconciles,
           NEW at \in Reconciles, NEW todo \in SUBSET (1..Len(entries)),
           NEW now \in 0..Len(entries'), NEW met \in SUBSET McpNames,
           NEW fresh \in SUBSET mcpCall[c].recs,
           Moves(c, at, todo, now, met, fresh),
           at # "entries" => now # 0,
           entries' \in Seq(McpEntry), Len(entries) <= Len(entries'),
           managed' \subseteq 1..Len(entries'),
           UNCHANGED <<mcpState, mcpPatch, mcpCount, settledMcp>>,
           Reconciling(c) => Reconciling(c)'
    PROVE  McpInv'
  <1>1. PICK req : req = mcpCall[c]
    OBVIOUS
  <1>2. /\ McpTypes /\ LoneIsRight /\ req \in McpCallType
        /\ req.recs \in Records /\ req.recs \subseteq Server
        /\ mcpState \in Records /\ mcpPatch \in Records
        /\ Len(entries) \in Nat /\ Len(entries') \in Nat
    BY <1>1, McpCallIs, RecordsAre
  <1>3. PICK to : to = [req EXCEPT !.at = at, !.todo = todo, !.now = now,
                                   !.met = met, !.made = fresh]
    OBVIOUS
  <1>4. Go(c, to)
    BY <1>1, <1>3 DEF Moves
  <1>5. /\ todo \in SUBSET (1..Len(entries')) /\ fresh \in SUBSET Server
        /\ at \in McpPlaces
    BY <1>1, <1>2 DEF McpPlaces
  <1>6. /\ to \in McpCallType' /\ to.at = at /\ to.op = req.op
        /\ to.recs = req.recs /\ to.now = now /\ to.made = fresh
        /\ to.alone = req.alone
    BY <1>2, <1>3, <1>5 DEF McpCallType
  <1>7. Fits(to)
    BY <1>1, <1>6 DEF Fits, Reconciles
  <1>8. Lone(c) /\ to.op # "restart" => Reconciling(c)'
    BY <1>1, <1>2, <1>6 DEF LoneIsRight
  <1>9. req.at # "idle" /\ to.at # "patch"
    BY <1>1, <1>6 DEF Reconciles
  <1> QED
    BY <1>1, <1>2, <1>4, <1>6, <1>7, <1>8, <1>9, CallStep

\* An entry is looked at that stays as it is, or goes.
LEMMA PassEntryStep ==
    ASSUME McpInv, NEW c \in McpCalls, PassEntry(c) PROVE McpInv'
  <1>1. PICK req : req = mcpCall[c]
    OBVIOUS
  <1>2. PICK i \in 1..Len(entries) :
          /\ req.at = "entries" /\ req.todo # {} /\ i = Min(req.todo)
          /\ i \notin managed /\ Go(c, [req EXCEPT !.todo = req.todo \ {i}])
          /\ UNCHANGED <<mcpState, mcpPatch, entries, managed, mcpCount,
                         settledMcp>>
    BY <1>1 DEF PassEntry, LooksAt
  <1>3. /\ req \in McpCallType /\ Fits(req) /\ i \in req.todo
        /\ req.todo \subseteq 1..Len(entries)
        /\ req.now \in 0..Len(entries) /\ req.met \subseteq McpNames
        /\ req.made \subseteq req.recs
        /\ managed \subseteq 1..Len(entries) /\ Len(entries) \in Nat
        /\ entries \in Seq(McpEntry)
    BY <1>1, <1>2, McpCallIs, NextEntryIs DEF Fits
  <1>4. Moves(c, "entries", req.todo \ {i}, req.now, req.met, req.made)
    BY <1>1, <1>2, <1>3 DEF McpCallType, Go, Moves
  <1>5. ASSUME Reconciling(c) PROVE Reconciling(c)'
    <2>0. /\ mcpCall'[c].at = "entries"
          /\ mcpCall'[c].op = req.op
          /\ mcpCall'[c].recs = req.recs
          /\ mcpCall'[c].todo = req.todo \ {i}
          /\ mcpCall'[c].now = req.now
          /\ mcpCall'[c].met = req.met
          /\ mcpCall'[c].made = req.made
      BY <1>1, <1>4, MovedIs
    <2>1. InLine(c)' = InLine(c)
      BY <1>1, <1>2, <1>3, <1>5, <2>0 DEF InLine
    <2>2. \A j \in InLine(c) : AsRecorded(c, j) => AsRecorded(c, j)'
      BY <1>1, <1>2, <1>5, <2>0 DEF AsRecorded
    <2> QED
      BY <1>1, <1>2, <1>3, <1>5, <2>0, <2>1, <2>2 DEF Reconciling
  <1> QED
    BY <1>1, <1>2, <1>3, <1>4, <1>5, ReconcileStep DEF Reconciles

LEMMA DropEntryStep ==
    ASSUME McpInv, NEW c \in McpCalls, DropEntry(c) PROVE McpInv'
  <1>1. PICK req : req = mcpCall[c]
    OBVIOUS
  <1>2. PICK i \in managed :
          /\ req.at = "entries" /\ req.todo # {} /\ i = Min(req.todo)
          /\ entries' = [entries EXCEPT ![i].live = FALSE]
          /\ Go(c, [req EXCEPT !.at = "removed", !.todo = req.todo \ {i},
                               !.now = i])
          /\ UNCHANGED <<mcpState, mcpPatch, managed, mcpCount, settledMcp>>
    BY <1>1 DEF DropEntry, LooksAt
  <1>3. /\ req \in McpCallType /\ Fits(req) /\ i \in req.todo
        /\ req.todo \subseteq 1..Len(entries) /\ i \in 1..Len(entries)
        /\ req.met \subseteq McpNames /\ req.made \subseteq req.recs
        /\ managed \subseteq 1..Len(entries) /\ Len(entries) \in Nat
        /\ entries \in Seq(McpEntry) /\ entries[i] \in McpEntry
    BY <1>1, <1>2, McpCallIs, NextEntryIs DEF Fits
  <1>4. PICK e \in McpEntry : /\ entries' = [entries EXCEPT ![i] = e]
                              /\ e.live = FALSE
    <2>1. PICK e : e = [entries[i] EXCEPT !.live = FALSE]
      OBVIOUS
    <2>2. e \in McpEntry /\ e.live = FALSE
      BY <1>3, <2>1 DEF McpEntry
    <2> QED
      BY <1>2, <2>1, <2>2
  <1>5. /\ entries' \in Seq(McpEntry) /\ Len(entries') = Len(entries)
        /\ entries'[i] = e
        /\ \A j \in 1..Len(entries) : j # i => entries'[j] = entries[j]
    BY <1>3, <1>4, EntryChanges
  <1>6. Moves(c, "removed", req.todo \ {i}, i, req.met, req.made)
    BY <1>1, <1>2, <1>3 DEF McpCallType, Go, Moves
  <1>7. ASSUME Reconciling(c) PROVE Reconciling(c)'
    <2>0. /\ mcpCall'[c].at = "removed"
          /\ mcpCall'[c].op = req.op
          /\ mcpCall'[c].recs = req.recs
          /\ mcpCall'[c].todo = req.todo \ {i}
          /\ mcpCall'[c].now = i
          /\ mcpCall'[c].met = req.met
          /\ mcpCall'[c].made = req.made
      BY <1>1, <1>6, MovedIs
    <2>1. InLine(c)' = InLine(c) /\ i \notin InLine(c)
      BY <1>1, <1>2, <1>3, <1>4, <1>5, <1>7, <2>0 DEF InLine
    <2>2. \A j \in InLine(c) : j \in 1..Len(entries) /\ j # i
      BY <2>1 DEF InLine
    <2>3. \A j \in InLine(c) : entries'[j] = entries[j]
      BY <1>5, <2>2
    <2>4. \A j \in InLine(c) : AsRecorded(c, j) => AsRecorded(c, j)'
      BY <1>1, <1>2, <1>7, <2>0, <2>3 DEF AsRecorded
    <2>5. \A j \in req.todo \ {i} : entries'[j] = entries[j]
      BY <1>3, <1>5
    <2>6. req.made = {}
      BY <1>1, <1>2, <1>7, <2>0 DEF Reconciling
    <2> QED
      BY <1>1, <1>2, <1>4, <1>5, <1>7, <2>0, <2>1, <2>3, <2>4, <2>5, <2>6
      DEF Reconciling
  <1>8. /\ req.todo \ {i} \in SUBSET (1..Len(entries))
        /\ i \in 0..Len(entries') /\ i # 0
        /\ managed' \subseteq 1..Len(entries')
    BY <1>2, <1>3, <1>5
  <1>9. mcpCall[c].at \in Reconciles /\ "removed" \in Reconciles
    BY <1>1, <1>2 DEF Reconciles
  <1>10. PICK todo \in SUBSET (1..Len(entries)) : todo = req.todo \ {i}
    BY <1>8
  <1>11. PICK fresh \in SUBSET mcpCall[c].recs : fresh = req.made
    BY <1>1, <1>3
  <1>12. PICK met \in SUBSET McpNames : met = req.met
    BY <1>3
  <1>13. /\ Moves(c, "removed", todo, i, met, fresh)
         /\ Len(entries) <= Len(entries')
         /\ UNCHANGED <<mcpState, mcpPatch, mcpCount, settledMcp>>
    BY <1>2, <1>3, <1>5, <1>6, <1>10, <1>11, <1>12
  <1> QED
    BY <1>5, <1>7, <1>8, <1>9, <1>13, ReconcileStep

LEMMA ForgetEntryStep ==
    ASSUME McpInv, NEW c \in McpCalls, ForgetEntry(c) PROVE McpInv'
  <1>1. PICK req : req = mcpCall[c]
    OBVIOUS
  <1>2. /\ req.at = "removed" /\ managed' = managed \ {req.now}
        /\ Go(c, [req EXCEPT !.at = "entries", !.now = 0])
        /\ UNCHANGED <<mcpState, mcpPatch, entries, mcpCount, settledMcp>>
    BY <1>1 DEF ForgetEntry
  <1>3. /\ req \in McpCallType /\ Fits(req)
        /\ req.todo \subseteq 1..Len(entries)
        /\ req.met \subseteq McpNames /\ req.made \subseteq req.recs
        /\ managed \subseteq 1..Len(entries) /\ Len(entries) \in Nat
        /\ entries \in Seq(McpEntry)
    BY <1>1, McpCallIs DEF Fits
  <1>4. Moves(c, "entries", req.todo, 0, req.met, req.made)
    BY <1>1, <1>2, <1>3 DEF McpCallType, Go, Moves
  <1>5. ASSUME Reconciling(c) PROVE Reconciling(c)'
    <2>0. /\ mcpCall'[c].at = "entries"
          /\ mcpCall'[c].op = req.op
          /\ mcpCall'[c].recs = req.recs
          /\ mcpCall'[c].todo = req.todo
          /\ mcpCall'[c].now = 0
          /\ mcpCall'[c].met = req.met
          /\ mcpCall'[c].made = req.made
      BY <1>1, <1>4, MovedIs
    <2>1. ~entries[req.now].live
      BY <1>1, <1>2, <1>5, <2>0 DEF Reconciling
    <2>2. InLine(c)' = InLine(c)
      BY <1>1, <1>2, <1>3, <1>5, <2>0, <2>1 DEF InLine
    <2>3. \A j \in InLine(c) : AsRecorded(c, j) => AsRecorded(c, j)'
      BY <1>1, <1>2, <1>5, <2>0 DEF AsRecorded
    <2> QED
      BY <1>1, <1>2, <1>5, <2>0, <2>2, <2>3 DEF Reconciling
  <1> QED
    BY <1>1, <1>2, <1>3, <1>4, <1>5, ReconcileStep DEF Reconciles

\* An entry is managed, and then as a record of its name says.
LEMMA AdoptEntryStep ==
    ASSUME McpInv, NEW c \in McpCalls, AdoptEntry(c) PROVE McpInv'
  <1>1. PICK req : req = mcpCall[c]
    OBVIOUS
  <1>2. PICK i \in 1..Len(entries) :
          /\ req.at = "entries" /\ req.todo # {} /\ i = Min(req.todo)
          /\ Named(req.recs, entries[i].name) # {}
          /\ entries[i].name \notin req.met
          /\ managed' = managed \union {i}
          /\ Go(c, [req EXCEPT !.at = "adopted", !.todo = req.todo \ {i},
                      !.now = i, !.met = req.met \union {entries[i].name}])
          /\ UNCHANGED <<mcpState, mcpPatch, entries, mcpCount, settledMcp>>
    BY <1>1 DEF AdoptEntry, LooksAt, Unwanted, Adopt
  <1>3. /\ req \in McpCallType /\ Fits(req) /\ i \in req.todo
        /\ req.todo \subseteq 1..Len(entries) /\ entries[i].name \in McpNames
        /\ req.met \subseteq McpNames /\ req.made \subseteq req.recs
        /\ managed \subseteq 1..Len(entries) /\ Len(entries) \in Nat
        /\ entries \in Seq(McpEntry)
    BY <1>1, <1>2, McpCallIs, NextEntryIs DEF Fits
  <1>4. PICK n : n = entries[i].name
    OBVIOUS
  <1>5. Moves(c, "adopted", req.todo \ {i}, i, req.met \union {n}, req.made)
    BY <1>1, <1>2, <1>3, <1>4 DEF McpCallType, Go, Moves
  <1>6. ASSUME Reconciling(c) PROVE Reconciling(c)'
    <2>0. /\ mcpCall'[c].at = "adopted"
          /\ mcpCall'[c].op = req.op
          /\ mcpCall'[c].recs = req.recs
          /\ mcpCall'[c].todo = req.todo \ {i}
          /\ mcpCall'[c].now = i
          /\ mcpCall'[c].met = req.met \union {n}
          /\ mcpCall'[c].made = req.made
      BY <1>1, <1>5, MovedIs
    <2>1. req.made = {} /\ entries[i].live
      BY <1>1, <1>2, <1>3, <1>6, <2>0 DEF Reconciling
    <2>2. InLine(c)' = InLine(c) \union {i}
      BY <1>1, <1>2, <1>3, <1>6, <2>0, <2>1 DEF InLine
    <2>3. \A j \in InLine(c) : entries[j].name \in req.met
      BY <1>1, <1>6, <2>0, <2>1 DEF Reconciling, AsRecorded
    <2>4. \A j \in InLine(c) : AsRecorded(c, j)'
      <3> SUFFICES ASSUME NEW j \in InLine(c) PROVE AsRecorded(c, j)'
        OBVIOUS
      <3>1. PICK r \in req.recs : /\ r.name = entries[j].name
                                  /\ r.name \in req.met \/ r \in req.made
                                  /\ entries[j].on = r.on
        BY <1>1, <1>2, <1>6, <2>0 DEF Reconciling, AsRecorded
      <3> QED
        BY <1>2, <1>6, <2>0, <3>1 DEF AsRecorded
    <2>5. AsRecorded(c, i)'
      BY <1>2, <1>4, <1>6, <2>0 DEF AsRecorded, Named
    <2>6. \A j, k \in InLine(c)' : entries'[j].name = entries'[k].name => j = k
      <3>1. \A j, k \in InLine(c) : entries[j].name = entries[k].name => j = k
        BY <1>1, <1>6, <2>0, <2>1 DEF Reconciling
      <3> QED
        BY <1>2, <2>2, <2>3, <3>1
    <2>7. \A m \in req.met \union {n} :
            \E j \in InLine(c)' : entries'[j].name = m
      <3>1. \A m \in req.met : \E j \in InLine(c) : entries[j].name = m
        BY <1>1, <1>6, <2>0 DEF Reconciling
      <3> QED
        BY <1>2, <1>4, <2>2, <3>1
    <2>8. /\ mcpState = req.recs
          /\ req.op = "change" => mcpPatch = req.recs
          /\ \A j \in req.todo : entries[j].live
      BY <1>1, <1>6, <2>0 DEF Reconciling
    <2> QED
      BY <1>2, <1>6, <2>0, <2>1, <2>2, <2>4, <2>5, <2>6, <2>7, <2>8
      DEF Reconciling
  <1>7. managed' \subseteq 1..Len(entries')
    BY <1>2, <1>3
  <1> QED
    BY <1>1, <1>2, <1>3, <1>4, <1>5, <1>6, <1>7, ReconcileStep DEF Reconciles

LEMMA UpdateEntryStep ==
    ASSUME McpInv, NEW c \in McpCalls, UpdateEntry(c) PROVE McpInv'
  <1>1. PICK req : req = mcpCall[c]
    OBVIOUS
  <1>2. PICK i : i = req.now
    OBVIOUS
  <1>3. PICK r \in Named(req.recs, entries[i].name) :
          entries' = [entries EXCEPT ![i].on = r.on]
    BY <1>1, <1>2 DEF UpdateEntry
  <1>4. /\ req.at = "adopted"
        /\ Go(c, [req EXCEPT !.at = "entries", !.now = 0])
        /\ UNCHANGED <<mcpState, mcpPatch, managed, mcpCount, settledMcp>>
    BY <1>1 DEF UpdateEntry
  <1>5. /\ req \in McpCallType /\ Fits(req) /\ req.recs \in Records
        /\ req.todo \subseteq 1..Len(entries) /\ req.now \in 0..Len(entries)
        /\ req.met \subseteq McpNames /\ req.made \subseteq req.recs
        /\ managed \subseteq 1..Len(entries) /\ Len(entries) \in Nat
        /\ entries \in Seq(McpEntry)
        /\ \A j \in 1..Len(entries) : entries[j] \in McpEntry
    BY <1>1, McpCallIs DEF Fits
  <1>6. i \in 1..Len(entries)
    BY <1>2, <1>4, <1>5 DEF Fits
  <1>7. r \in req.recs /\ r.name = entries[i].name /\ r.on \in BOOLEAN
    BY <1>3, <1>5, RecordsAre DEF Named
  <1>8. PICK e \in McpEntry : /\ entries' = [entries EXCEPT ![i] = e]
                              /\ e.on = r.on /\ e.name = entries[i].name
                              /\ e.live = entries[i].live
    <2>1. PICK e : e = [entries[i] EXCEPT !.on = r.on]
      OBVIOUS
    <2>2. /\ e \in McpEntry /\ e.on = r.on /\ e.name = entries[i].name
          /\ e.live = entries[i].live
      BY <1>5, <1>6, <1>7, <2>1 DEF McpEntry
    <2> QED
      BY <1>3, <2>1, <2>2
  <1>9. /\ entries' \in Seq(McpEntry) /\ Len(entries') = Len(entries)
        /\ entries'[i] = e
        /\ \A j \in 1..Len(entries) : j # i => entries'[j] = entries[j]
    BY <1>5, <1>6, <1>8, EntryChanges
  <1>10. Moves(c, "entries", req.todo, 0, req.met, req.made)
    BY <1>1, <1>4, <1>5 DEF McpCallType, Go, Moves
  <1>11. ASSUME Reconciling(c) PROVE Reconciling(c)'
    <2>0. /\ mcpCall'[c].at = "entries"
          /\ mcpCall'[c].op = req.op
          /\ mcpCall'[c].recs = req.recs
          /\ mcpCall'[c].todo = req.todo
          /\ mcpCall'[c].now = 0
          /\ mcpCall'[c].met = req.met
          /\ mcpCall'[c].made = req.made
      BY <1>1, <1>10, MovedIs
    <2>1. \A j \in 1..Len(entries) : /\ entries'[j].name = entries[j].name
                                     /\ entries'[j].live = entries[j].live
      BY <1>8, <1>9
    <2>2. InLine(c)' = InLine(c)
      BY <1>1, <1>4, <1>9, <1>11, <2>0, <2>1 DEF InLine
    <2>3. \A j \in InLine(c) : /\ entries'[j].name = entries[j].name
                               /\ entries'[j].live = entries[j].live
      BY <2>1 DEF InLine
    <2>4. /\ \A j \in InLine(c) : AsRecorded(c, j)
          /\ req.made = {}
      BY <1>1, <1>4, <1>11, <2>0 DEF Reconciling
    <2>5. \A j \in InLine(c) : AsRecorded(c, j)'
      <3> SUFFICES ASSUME NEW j \in InLine(c) PROVE AsRecorded(c, j)'
        OBVIOUS
      <3>1. j \in 1..Len(entries)
        BY DEF InLine
      <3>2. PICK s \in req.recs :
              /\ s.name = entries[j].name
              /\ s.name \in req.met \/ s \in req.made
              /\ entries[j].on = s.on \/ j = i
        BY <1>1, <1>2, <2>4 DEF AsRecorded
      <3>3. CASE j = i
        <4>1. r.name \in req.met
          BY <1>7, <2>4, <3>2, <3>3
        <4> QED
          BY <1>7, <1>8, <1>9, <1>11, <2>0, <3>3, <4>1 DEF AsRecorded
      <3>4. CASE j # i
        BY <1>9, <1>11, <2>0, <3>1, <3>2, <3>4 DEF AsRecorded
      <3> QED
        BY <3>3, <3>4
    <2>6. \A j \in req.todo : entries'[j].live = entries[j].live
      BY <1>5, <2>1
    <2> QED
      BY <1>1, <1>4, <1>11, <2>0, <2>2, <2>3, <2>4, <2>5, <2>6 DEF Reconciling
  <1> QED
    BY <1>1, <1>4, <1>5, <1>9, <1>10, <1>11, ReconcileStep DEF Reconciles

\* A record without an entry gets one, and the Loader answers with its id.
LEMMA CreateEntryStep ==
    ASSUME McpInv, NEW c \in McpCalls, CreateEntry(c) PROVE McpInv'
  <1>1. PICK req : req = mcpCall[c]
    OBVIOUS
  <1>2. PICK r \in req.recs :
          /\ r.name \notin req.met /\ r \notin req.made
          /\ req.at = "entries" /\ req.todo = {}
          /\ entries' = Append(entries, Entry(r.name, r.on))
          /\ Go(c, [req EXCEPT !.at = "created",
                               !.made = req.made \union {r},
                               !.now = Len(entries')])
          /\ UNCHANGED <<mcpState, mcpPatch, managed, mcpCount, settledMcp>>
    BY <1>1 DEF CreateEntry, ToCreate
  <1>3. /\ req \in McpCallType /\ Fits(req) /\ req.recs \in Records
        /\ req.met \subseteq McpNames /\ req.made \subseteq req.recs
        /\ managed \subseteq 1..Len(entries) /\ Len(entries) \in Nat
        /\ entries \in Seq(McpEntry)
    BY <1>1, McpCallIs DEF Fits
  <1>4. PICK i : i = Len(entries) + 1
    OBVIOUS
  <1>5. PICK e \in McpEntry : /\ entries' = Append(entries, e) /\ e.live
                              /\ e.name = r.name /\ e.on = r.on
    <2>1. r.name \in McpNames /\ r.on \in BOOLEAN
      BY <1>3, RecordsAre
    <2>2. PICK e : e = Entry(r.name, r.on)
      OBVIOUS
    <2>3. e \in McpEntry /\ e.live /\ e.name = r.name /\ e.on = r.on
      BY <2>1, <2>2 DEF Entry, McpEntry
    <2> QED
      BY <1>2, <2>2, <2>3
  <1>6. /\ entries' \in Seq(McpEntry) /\ Len(entries') = i
        /\ entries'[i] = e
        /\ \A j \in 1..Len(entries) : entries'[j] = entries[j]
    BY <1>3, <1>4, <1>5, AppendProperties
  <1>7. PICK fresh : fresh = req.made \union {r}
    OBVIOUS
  <1>8. Moves(c, "created", req.todo, i, req.met, fresh)
    BY <1>1, <1>2, <1>3, <1>6, <1>7 DEF McpCallType, Go, Moves
  <1>9. ASSUME Reconciling(c) PROVE Reconciling(c)'
    <2>0. /\ mcpCall'[c].at = "created" /\ mcpCall'[c].op = req.op
          /\ mcpCall'[c].recs = req.recs /\ mcpCall'[c].todo = req.todo
          /\ mcpCall'[c].now = i /\ mcpCall'[c].met = req.met
          /\ mcpCall'[c].made = fresh
      BY <1>1, <1>8, MovedIs
    <2>1. /\ InLine(c)' = InLine(c) \union {i} /\ i \notin InLine(c)
          /\ \A j \in InLine(c) : entries'[j] = entries[j]
      <3>1. /\ \A j : j \in InLine(c) <=>
                 /\ j \in 1..Len(entries) /\ entries[j].live /\ j \in managed
            /\ \A j : j \in InLine(c)' <=>
                 /\ j \in 1..i /\ entries'[j].live
                 /\ j \in managed \/ j = i
        BY <1>1, <1>2, <1>6, <2>0 DEF InLine
      <3> QED
        BY <1>3, <1>4, <1>5, <1>6, <3>1
    <2>2. /\ mcpState = req.recs
          /\ req.op = "change" => mcpPatch = req.recs
          /\ \A j \in InLine(c) : AsRecorded(c, j)
          /\ \A j, k \in InLine(c) : entries[j].name = entries[k].name /\ j # k
               => \E s, t \in req.made : /\ s # t
                                         /\ s.name = entries[j].name
                                         /\ t.name = entries[j].name
          /\ \A n \in req.met : \E j \in InLine(c) : entries[j].name = n
          /\ \A s \in req.made : /\ s.name \notin req.met
                                 /\ \E j \in InLine(c) :
                                      entries[j].name = s.name
      BY <1>1, <1>9 DEF Reconciling
    <2>3. \A j \in InLine(c) :
            \E s \in req.recs : /\ s.name = entries[j].name
                                /\ s.name \in req.met \/ s \in req.made
                                /\ entries[j].on = s.on
      BY <1>1, <1>2, <2>2 DEF AsRecorded
    <2>4. \A j \in InLine(c) : AsRecorded(c, j)'
      BY <1>7, <2>0, <2>1, <2>3 DEF AsRecorded
    <2>5. AsRecorded(c, i)'
      BY <1>5, <1>6, <1>7, <2>0 DEF AsRecorded
    <2>6. ASSUME NEW j \in InLine(c), entries[j].name = r.name
          PROVE  \E s \in req.made : s # r /\ s.name = r.name
      BY <1>2, <2>3, <2>6
    <2>7. ASSUME NEW j \in InLine(c)', NEW k \in InLine(c)', j # k,
                 entries'[j].name = entries'[k].name
          PROVE  \E s, t \in fresh : /\ s # t /\ s.name = entries'[j].name
                                    /\ t.name = entries'[j].name
      <3>1. CASE j = i
        <4>1. k \in InLine(c) /\ entries[k].name = r.name
          BY <1>5, <1>6, <2>1, <2>7, <3>1
        <4> QED
          BY <1>5, <1>6, <1>7, <2>6, <3>1, <4>1
      <3>2. CASE k = i
        <4>1. j \in InLine(c) /\ entries[j].name = r.name
              /\ entries'[j].name = r.name
          BY <1>5, <1>6, <2>1, <2>7, <3>2
        <4> QED
          BY <1>7, <2>6, <4>1
      <3>3. CASE j # i /\ k # i
        BY <1>7, <2>1, <2>2, <2>7, <3>3
      <3> QED
        BY <3>1, <3>2, <3>3
    <2>8. \A n \in req.met : \E j \in InLine(c)' : entries'[j].name = n
      BY <2>1, <2>2
    <2>9. \A s \in fresh : /\ s.name \notin req.met
                          /\ \E j \in InLine(c)' : entries'[j].name = s.name
      <3>1. \E j \in InLine(c)' : entries'[j].name = r.name
        BY <1>5, <1>6, <2>1
      <3>2. \A s \in req.made : \E j \in InLine(c)' :
              entries'[j].name = s.name
        BY <2>1, <2>2
      <3> QED
        BY <1>2, <1>7, <2>2, <3>1, <3>2
    <2>10. \A j \in InLine(c)' : AsRecorded(c, j)'
      BY <2>1, <2>4, <2>5
    <2>11. \A j, k \in InLine(c)' :
            entries'[j].name = entries'[k].name /\ j # k
             => \E s, t \in fresh : /\ s # t /\ s.name = entries'[j].name
                                   /\ t.name = entries'[j].name
      BY <2>7
    <2>12. /\ mcpState' = mcpCall'[c].recs
           /\ mcpCall'[c].op = "change" => mcpPatch' = mcpCall'[c].recs
           /\ mcpCall'[c].todo = {} /\ mcpCall'[c].at = "created"
           /\ mcpCall'[c].made = fresh /\ mcpCall'[c].met = req.met
      BY <1>2, <2>0, <2>2
    <2> QED
      BY <2>8, <2>9, <2>10, <2>11, <2>12 DEF Reconciling
  <1>10. /\ req.todo \in SUBSET (1..Len(entries)) /\ i \in 0..Len(entries')
         /\ i # 0 /\ managed' \subseteq 1..Len(entries')
         /\ fresh \in SUBSET req.recs /\ Len(entries) <= Len(entries')
    BY <1>2, <1>3, <1>4, <1>6, <1>7
  <1>11. mcpCall[c].at \in Reconciles /\ "created" \in Reconciles
    BY <1>1, <1>2 DEF Reconciles
  <1> QED
    BY <1>1, <1>2, <1>3, <1>6, <1>8, <1>9, <1>10, <1>11, ReconcileStep

LEMMA EntryCreatedStep ==
    ASSUME McpInv, NEW c \in McpCalls, EntryCreated(c) PROVE McpInv'
  <1>1. PICK req : req = mcpCall[c]
    OBVIOUS
  <1>2. /\ req.at = "created" /\ managed' = managed \union {req.now}
        /\ Go(c, [req EXCEPT !.at = "entries", !.now = 0])
        /\ UNCHANGED <<mcpState, mcpPatch, entries, mcpCount, settledMcp>>
    BY <1>1 DEF EntryCreated
  <1>3. /\ req \in McpCallType /\ Fits(req) /\ req.now \in 0..Len(entries)
        /\ req.todo \subseteq 1..Len(entries)
        /\ req.met \subseteq McpNames /\ req.made \subseteq req.recs
        /\ managed \subseteq 1..Len(entries) /\ Len(entries) \in Nat
        /\ entries \in Seq(McpEntry)
    BY <1>1, McpCallIs DEF Fits
  <1>4. Moves(c, "entries", req.todo, 0, req.met, req.made)
    BY <1>1, <1>2, <1>3 DEF McpCallType, Go, Moves
  <1>5. ASSUME Reconciling(c) PROVE Reconciling(c)'
    <2>0. /\ mcpCall'[c].at = "entries" /\ mcpCall'[c].op = req.op
          /\ mcpCall'[c].recs = req.recs /\ mcpCall'[c].todo = req.todo
          /\ mcpCall'[c].now = 0 /\ mcpCall'[c].met = req.met
          /\ mcpCall'[c].made = req.made
      BY <1>1, <1>4, MovedIs
    <2>1. InLine(c)' = InLine(c)
      <3>1. \A j : j \in InLine(c) <=>
              /\ j \in 1..Len(entries) /\ entries[j].live
              /\ j \notin req.todo /\ (j \in managed \/ j = req.now)
        BY <1>1, <1>2 DEF InLine
      <3> QED
        BY <1>1, <1>2, <2>0, <3>1 DEF InLine
    <2>2. \A j \in InLine(c) : AsRecorded(c, j) => AsRecorded(c, j)'
      BY <1>1, <1>2, <2>0 DEF AsRecorded
    <2> QED
      BY <1>1, <1>2, <1>5, <2>0, <2>1, <2>2 DEF Reconciling
  <1>6. managed' \subseteq 1..Len(entries')
    <2>1. req.now \in 1..Len(entries)
      BY <1>2, <1>3 DEF Fits
    <2> QED
      BY <1>2, <1>3, <2>1
  <1> QED
    BY <1>1, <1>2, <1>3, <1>4, <1>5, <1>6, ReconcileStep DEF Reconciles

\* The restart of the entries of one server.
LEMMA RestartsStep ==
    ASSUME McpInv, NEW c \in McpCalls, StopEntry(c) \/ StartEntry(c)
    PROVE  McpInv'
  <1>1. PICK req : req = mcpCall[c]
    OBVIOUS
  <1>2. PICK i : i = Min(req.todo)
    OBVIOUS
  <1>3. /\ req \in McpCallType /\ Fits(req) /\ req.at \in {"off", "back"}
        /\ req.todo # {} /\ i \in 1..Len(entries) /\ req.recs \in Records
        /\ req.todo \subseteq 1..Len(entries)
        /\ mcpState \in Records /\ mcpPatch \in Records
        /\ managed \subseteq 1..Len(entries) /\ Len(entries) \in Nat
        /\ entries \in Seq(McpEntry) /\ entries[i] \in McpEntry
    <2>1. req.at \in {"off", "back"} /\ Fits(req)
      BY <1>1, McpCallIs DEF StopEntry, StartEntry
    <2>2. req.todo # {}
      BY <2>1 DEF Fits
    <2> QED
      BY <1>1, <1>2, <2>1, <2>2, McpCallIs, NextEntryIs
  <1>4. PICK on \in BOOLEAN :
          entries' = [entries EXCEPT ![i] = [entries[i] EXCEPT !.on = on]]
    <2>1. CASE StopEntry(c)
      BY <1>1, <1>2, <2>1 DEF StopEntry
    <2>2. CASE StartEntry(c)
      <3>1. PICK r \in req.recs : entries' = [entries EXCEPT ![i].on = r.on]
        BY <1>1, <1>2, <2>2 DEF StartEntry
      <3>2. r.on \in BOOLEAN
        BY <1>3, <3>1, RecordsAre
      <3> QED
        BY <3>1, <3>2
    <2> QED
      BY <2>1, <2>2
  <1>5. [entries[i] EXCEPT !.on = on] \in McpEntry
    BY <1>3, <1>4 DEF McpEntry
  <1>6. /\ entries' \in Seq(McpEntry) /\ Len(entries') = Len(entries)
        /\ McpCallType' = McpCallType
    BY <1>3, <1>4, <1>5, EntryChanges
  <1>7. UNCHANGED <<mcpState, mcpPatch, managed, mcpCount, settledMcp>>
    BY DEF StopEntry, StartEntry
  <1>8. PICK to : /\ Go(c, to) /\ to \in McpCallType /\ Fits(to)
                  /\ to.at \in {"idle", "off", "back"}
                  /\ (to.alone = req.alone) \/ to.at = "idle"
    <2>1. CASE StopEntry(c)
      <3>1. PICK to : to = [req EXCEPT !.at = "back"]
        OBVIOUS
      <3>2. Go(c, to)
        BY <1>1, <2>1, <3>1 DEF StopEntry
      <3>3. /\ to \in McpCallType /\ to.at = "back" /\ to.todo = req.todo
            /\ to.alone = req.alone /\ to.made = req.made
            /\ to.recs = req.recs
        BY <1>3, <3>1 DEF McpCallType, McpPlaces
      <3>4. Fits(to)
        BY <1>3, <3>3 DEF Fits
      <3> QED
        BY <3>2, <3>3, <3>4
    <2>2. CASE StartEntry(c) /\ req.todo \ {i} = {}
      <3>1. Go(c, NoCall)
        BY <1>1, <1>2, <2>2 DEF StartEntry
      <3>2. NoCall \in McpCallType /\ Fits(NoCall) /\ NoCall.at = "idle"
        BY <1>3, NoCallTypes DEF Fits
      <3> QED
        BY <3>1, <3>2
    <2>3. CASE StartEntry(c) /\ req.todo \ {i} # {}
      <3>1. PICK todo \in SUBSET (1..Len(entries)) : todo = req.todo \ {i}
        BY <1>3
      <3>2. PICK to : to = [req EXCEPT !.at = "off", !.todo = todo]
        OBVIOUS
      <3>3. Go(c, to)
        BY <1>1, <1>2, <2>3, <3>1, <3>2 DEF StartEntry
      <3>4. /\ to \in McpCallType /\ to.at = "off" /\ to.alone = req.alone
            /\ to.todo = todo /\ to.made = req.made /\ to.recs = req.recs
        BY <1>3, <3>1, <3>2 DEF McpCallType, McpPlaces
      <3>5. Fits(to)
        BY <1>3, <2>3, <3>1, <3>4 DEF Fits
      <3> QED
        BY <3>3, <3>4, <3>5
    <2> QED
      BY <2>1, <2>2, <2>3
  <1>9. to.at \notin Reconciles /\ to.at # "patch"
    BY <1>8 DEF Reconciles
  <1> QED
    BY <1>1, <1>3, <1>6, <1>7, <1>8, <1>9, CallStep

\* The end of a reconciliation: what it has brought into line is all there is.
LEMMA EndReconcileStep ==
    ASSUME McpInv, NEW c \in McpCalls, EndReconcile(c) PROVE McpInv'
  <1>1. PICK req : req = mcpCall[c]
    OBVIOUS
  <1>2. /\ McpTypes /\ LoneIsAlone /\ LoneIsRight
        /\ mcpCall \in [McpCalls -> McpCallType] /\ req \in McpCallType
        /\ Fits(req) /\ req.at = "entries" /\ req.todo = {}
        /\ ToCreate(c) = {} /\ Go(c, NoCall)
        /\ UNCHANGED <<mcpState, mcpPatch, entries, managed, mcpCount>>
    BY <1>1, McpCallIs DEF McpTypes, EndReconcile
  <1>3. /\ mcpCall'[c] = NoCall
        /\ \A d \in McpCalls : d # c => mcpCall'[d] = mcpCall[d]
        /\ mcpCall' \in [McpCalls -> McpCallType]
        /\ McpCallType' = McpCallType
    BY <1>2, NoCallTypes DEF Go, McpCallType, McpTypes
  <1>4. /\ settledMcp' \in {"no", "loader", "files"}
        /\ settledMcp' # "no" => req.alone /\ req.op # "restart"
        /\ settledMcp' = "files" => req.op = "change"
    <2>1. settledMcp' = IF ~req.alone \/ req.op = "restart" THEN "no"
                        ELSE IF req.op = "change" THEN "files" ELSE "loader"
      BY <1>1 DEF EndReconcile
    <2>2. CASE ~req.alone \/ req.op = "restart"
      BY <2>1, <2>2
    <2>3. CASE ~(~req.alone \/ req.op = "restart")
      BY <2>1, <2>3
    <2> QED
      BY <2>2, <2>3
  <1>5. McpTypes'
    BY <1>2, <1>3, <1>4, NoCallTypes DEF McpTypes
  <1>6. ASSUME NEW d \in McpCalls PROVE ~Lone(d)'
    <2> SUFFICES ASSUME Lone(d)' PROVE FALSE
      OBVIOUS
    <2>1. d # c /\ Lone(d)
      BY <1>3, NoCallTypes DEF Lone
    <2>2. mcpCall[c].at = "idle"
      BY <1>2, <2>1 DEF LoneIsAlone
    <2> QED
      BY <1>1, <1>2, <2>2
  <1>7. LoneIsAlone' /\ LoneIsRight'
    BY <1>6 DEF LoneIsAlone, LoneIsRight
  <1>8. SettledIsIdle'
    <2> SUFFICES ASSUME settledMcp' # "no", NEW d \in McpCalls
                 PROVE  mcpCall'[d].at = "idle"
      BY DEF SettledIsIdle
    <2>1. Lone(c)
      BY <1>1, <1>2, <1>4 DEF Lone
    <2>2. d # c => mcpCall[d].at = "idle"
      BY <1>2, <2>1 DEF LoneIsAlone
    <2> QED
      BY <1>3, <2>2, NoCallTypes
  <1>9. LoaderFollowsFile'
    <2> SUFFICES ASSUME settledMcp' # "no" PROVE LoaderFollowsFile'
      BY DEF LoaderFollowsFile
    <2>1. Reconciling(c)
      BY <1>1, <1>2, <1>4 DEF LoneIsRight, Lone, Reconciles
    <2>2. /\ mcpState = req.recs
          /\ req.op = "change" => mcpPatch = req.recs
          /\ \A i, j \in InLine(c) : entries[i].name = entries[j].name /\ i # j
               => \E r, s \in req.made : /\ r # s
                                         /\ r.name = entries[i].name
                                         /\ s.name = entries[i].name
          /\ \A n \in req.met : \E i \in InLine(c) : entries[i].name = n
          /\ \A r \in req.made : \E i \in InLine(c) : entries[i].name = r.name
      BY <1>1, <2>1 DEF Reconciling
    <2>3. \A i \in InLine(c) : \E r \in req.recs : /\ r.name = entries[i].name
                                                   /\ entries[i].on = r.on
      BY <1>1, <1>2, <2>1 DEF Reconciling, AsRecorded
    <2>4. settledMcp' = "files" => mcpPatch' = mcpState'
      BY <1>2, <1>4, <2>2
    <2>5. ASSUME NEW n \in McpNames
          PROVE  Live(n)' \intersect managed'
                   = {i \in InLine(c) : entries[i].name = n}
      BY <1>1, <1>2 DEF Live, InLine
    <2>6. req.made \subseteq mcpState
      BY <1>2, <2>2 DEF Fits
    <2>7. ASSUME NEW n \in McpNames, NEW ours, NEW wanted,
                 ours = {i \in InLine(c) : entries[i].name = n},
                 wanted = Named(mcpState, n)
          PROVE  /\ \A i \in ours : \E r \in wanted : entries[i].on = r.on
                 /\ wanted # {} => ours # {}
                 /\ (\A r, s \in wanted : r = s) => \A i, j \in ours : i = j
      <3>1. ASSUME NEW i \in ours PROVE \E r \in wanted : entries[i].on = r.on
        BY <2>2, <2>3, <2>7, <3>1 DEF Named
      <3>2. ASSUME NEW r \in wanted PROVE ours # {}
        <4>1. r.name = n /\ (r.name \in req.met \/ r \in req.made)
          BY <1>1, <1>2, <2>2, <2>7, <3>2 DEF Named, ToCreate
        <4> QED
          BY <2>2, <2>7, <4>1
      <3>3. ASSUME \A r, s \in wanted : r = s,
                   NEW i \in ours, NEW j \in ours, i # j
            PROVE  FALSE
        <4>1. PICK r \in req.made, s \in req.made :
                r # s /\ r.name = n /\ s.name = n
          BY <2>2, <2>7, <3>3
        <4> QED
          BY <2>6, <2>7, <3>3, <4>1 DEF Named
      <3> QED
        BY <3>1, <3>2, <3>3
    <2>8. ASSUME NEW n \in McpNames
          PROVE  LET ours == Live(n)' \intersect managed'
                     wanted == Named(mcpState', n)
                 IN  /\ \A i \in ours :
                          \E r \in wanted : entries'[i].on = r.on
                     /\ wanted # {} => ours # {}
                     /\ (\A r, s \in wanted : r = s) =>
                           \A i, j \in ours : i = j
      <3>1. PICK ours : ours = Live(n)' \intersect managed'
        OBVIOUS
      <3>2. PICK wanted : wanted = Named(mcpState, n)
        OBVIOUS
      <3>3. /\ \A i \in ours : \E r \in wanted : entries[i].on = r.on
            /\ wanted # {} => ours # {}
            /\ (\A r, s \in wanted : r = s) => \A i, j \in ours : i = j
        BY <2>5, <2>7, <3>1, <3>2
      <3>4. entries' = entries /\ Named(mcpState', n) = wanted
        BY <1>2, <3>2 DEF Named
      <3> QED
        BY <3>1, <3>3, <3>4
    <2> QED
      BY <2>4, <2>8 DEF LoaderFollowsFile
  <1> QED
    BY <1>5, <1>7, <1>8, <1>9 DEF McpInv

LEMMA BeginMcpCallStep ==
    ASSUME McpInv, NEW c \in McpCalls, BeginMcpCall(c)
    PROVE  McpInv'
  <1> DEFINE others == {d \in McpCalls : mcpCall[d].at # "idle"}
  <1>1. /\ McpTypes /\ mcpCall \in [McpCalls -> McpCallType]
        /\ mcpCall[c].at = "idle" /\ mcpCount < McpBound
        /\ mcpCount' = mcpCount + 1 /\ settledMcp' = "no"
        /\ UNCHANGED <<mcpState, mcpPatch, entries, managed>>
        /\ entries \in Seq(McpEntry)
    BY DEF McpInv, McpTypes, BeginMcpCall
  <1>2. PICK alone \in BOOLEAN : alone <=> others = {}
    OBVIOUS
  <1>3. PICK to : to = [NoCall EXCEPT !.at = "list", !.alone = alone]
    OBVIOUS
  <1>4. /\ to \in McpCallType /\ to.at = "list" /\ to.alone = alone
        /\ Fits(to)
    <2>1. NoCall \in McpCallType /\ "list" \in McpPlaces
      BY <1>1, NoCallTypes DEF McpPlaces
    <2>2. /\ to \in McpCallType /\ to.at = "list" /\ to.alone = alone
          /\ to.met = NoCall.met /\ to.made = NoCall.made
      BY <1>2, <1>3, <2>1 DEF McpCallType
    <2> QED
      BY <2>2, NoCallTypes DEF Fits
  <1>5. mcpCall' = [d \in McpCalls |->
           CASE d = c -> to
             [] d \in others -> [mcpCall[d] EXCEPT !.alone = FALSE]
             [] OTHER -> mcpCall[d]]
    <2>1. alone = (others = {})
      BY <1>2
    <2> QED
      BY <1>3, <2>1 DEF BeginMcpCall
  <1>6. mcpCall'[c] = to
    <2>1. c \notin others
      BY <1>1
    <2> HIDE DEF others
    <2> QED
      BY <1>5, <2>1
  <1>7. ASSUME NEW d \in McpCalls, d # c
        PROVE  /\ mcpCall'[d] \in McpCallType
               /\ mcpCall'[d].at = mcpCall[d].at
               /\ mcpCall'[d].todo = mcpCall[d].todo
               /\ mcpCall'[d].now = mcpCall[d].now
               /\ mcpCall'[d].recs = mcpCall[d].recs
               /\ mcpCall'[d].met = mcpCall[d].met
               /\ mcpCall'[d].made = mcpCall[d].made
               /\ mcpCall[d].at # "idle" => ~mcpCall'[d].alone
    <2>1. mcpCall[d] \in McpCallType
      BY <1>1
    <2>2. CASE d \in others
      <3>1. mcpCall'[d] = [mcpCall[d] EXCEPT !.alone = FALSE]
        BY <1>5, <1>7, <2>2
      <3> HIDE DEF others
      <3> QED
        BY <2>1, <3>1 DEF McpCallType
    <2>3. CASE d \notin others
      BY <1>5, <1>7, <2>1, <2>3
    <2> QED
      BY <2>2, <2>3
  <1>8. McpCallType' = McpCallType
    BY <1>1 DEF McpCallType
  <1>9. McpTypes'
    <2>1. mcpCall' = [d \in McpCalls |-> mcpCall'[d]]
      BY <1>5
    <2>2. mcpCall' \in [McpCalls -> McpCallType]
      BY <1>4, <1>6, <1>7, <2>1
    <2>3. ASSUME NEW d \in McpCalls PROVE Fits(mcpCall'[d])
      <3>1. CASE d = c
        BY <1>4, <1>6, <3>1
      <3>2. CASE d # c
        <4>1. Fits(mcpCall[d])
          BY McpCallIs
        <4> QED
          BY <1>7, <3>2, <4>1 DEF Fits
      <3> QED
        BY <3>1, <3>2
    <2>4. mcpCount' \in 0..McpBound
      BY <1>1, McpAssumption DEF McpTypes
    <2> QED
      BY <1>1, <1>8, <2>2, <2>3, <2>4 DEF McpTypes, Fits
  <1>10. ASSUME NEW d \in McpCalls, Lone(d)' PROVE d = c /\ others = {}
    BY <1>2, <1>4, <1>6, <1>7, <1>10 DEF Lone
  <1>11. LoneIsAlone'
    BY <1>7, <1>10 DEF LoneIsAlone
  <1>12. LoneIsRight'
    BY <1>4, <1>6, <1>10 DEF LoneIsRight, Reconciles
  <1> QED
    BY <1>1, <1>9, <1>11, <1>12 DEF McpInv, SettledIsIdle, LoaderFollowsFile

\* What the Harness has loaded is all live, and none of it managed yet.
LEMMA LoaderRestartsStep ==
    ASSUME McpInv, NEW c \in McpCalls, LoaderRestarts(c) PROVE McpInv'
  <1>1. /\ McpTypes /\ mcpCount < McpBound /\ mcpCount' = mcpCount + 1
        /\ entries' = Loaded(mcpPatch) /\ managed' = {}
        /\ mcpState' = mcpState /\ mcpPatch' = mcpPatch
        /\ mcpState \in Records /\ mcpPatch \in Records
        /\ settledMcp' = "no"
    BY DEF McpInv, McpTypes, LoaderRestarts
  <1>2. entries' \in Seq(McpEntry)
    BY <1>1, LoadedIs
  <1>3. PICK to : to = [NoCall EXCEPT !.at = "boot"]
    OBVIOUS
  <1>4. mcpCall' = [d \in McpCalls |-> IF d = c THEN to ELSE NoCall]
    BY <1>3 DEF LoaderRestarts
  <1>5. /\ to \in McpCallType' /\ to.at = "boot" /\ Fits(to)
        /\ NoCall \in McpCallType' /\ NoCall.at = "idle" /\ Fits(NoCall)
    <2>1. NoCall \in McpCallType' /\ "boot" \in McpPlaces
      BY <1>2, RecordsAre DEF NoCall, McpCallType, McpPlaces
    <2>2. /\ to \in McpCallType' /\ to.at = "boot"
          /\ to.met = NoCall.met /\ to.made = NoCall.made
      BY <1>3, <2>1 DEF McpCallType
    <2> QED
      BY <2>1, <2>2, NoCallTypes DEF Fits
  <1>6. McpTypes'
    <2>1. mcpCall' \in [McpCalls -> McpCallType']
      BY <1>4, <1>5
    <2>2. mcpCount' \in 0..McpBound
      BY <1>1, McpAssumption DEF McpTypes
    <2>3. \A d \in McpCalls : Fits(mcpCall'[d])
      BY <1>4, <1>5
    <2> QED
      BY <1>1, <1>2, <2>1, <2>2, <2>3 DEF McpTypes, Fits
  <1>7. ASSUME NEW d \in McpCalls, Lone(d)' PROVE d = c
    BY <1>4, <1>5, <1>7 DEF Lone
  <1>8. LoneIsAlone'
    BY <1>4, <1>5, <1>7 DEF LoneIsAlone
  <1>9. LoneIsRight'
    BY <1>4, <1>5, <1>7 DEF LoneIsRight, Reconciles
  <1> QED
    BY <1>1, <1>6, <1>8, <1>9 DEF McpInv, SettledIsIdle, LoaderFollowsFile

LEMMA McpNextInv == McpInv /\ [McpNext]_mcpVars => McpInv'
  <1> SUFFICES ASSUME McpInv, [McpNext]_mcpVars PROVE McpInv'
    OBVIOUS
  <1>1. CASE UNCHANGED mcpVars
    <2>1. McpTypes'
      BY <1>1 DEF McpInv, McpTypes, McpCallType, mcpVars
    <2>2. LoneIsAlone' /\ SettledIsIdle'
      BY <1>1 DEF McpInv, LoneIsAlone, SettledIsIdle, Lone, mcpVars
    <2>3. LoneIsRight'
      BY <1>1
      DEF McpInv, LoneIsRight, Lone, Reconciling, InLine, AsRecorded, mcpVars
    <2>4. LoaderFollowsFile'
      BY <1>1 DEF McpInv, LoaderFollowsFile, Live, mcpVars
    <2> QED
      BY <2>1, <2>2, <2>3, <2>4 DEF McpInv
  <1>2. CASE McpNext
    BY <1>2, BeginMcpCallStep, ChangeRecordsStep, LoadRecordsStep,
       RestartServerStep, SavesStep, CallThrowsStep, PassEntryStep,
       DropEntryStep, ForgetEntryStep, AdoptEntryStep, UpdateEntryStep,
       CreateEntryStep, EntryCreatedStep, EndReconcileStep, RestartsStep,
       LoaderRestartsStep
    DEF McpNext
  <1> QED
    BY <1>1, <1>2

\* A reconciliation with the whole file that ran alone and to its end leaves
\* of every name with a record a managed entry, of a name with one record
\* only one, and every managed entry as a record of its name says, whatever
\* overlapping requests and failures at any call left before it; a request
\* that saved the file leaves the patch as the file, too.
THEOREM LoaderIsAsTheFile == McpSpec => []LoaderFollowsFile
  <1>1. McpInv => LoaderFollowsFile
    BY DEF McpInv
  <1> QED
    BY <1>1, McpInitInv, McpNextInv, PTL DEF McpSpec

-----------------------------------------------------------------------------
(* The parts together. *)

\* A step of the host is one of the part that runs, and leaves the others as
\* they are.
LEMMA HostSteps ==
    ASSUME [HostNext]_hostVars
    PROVE  /\ [DeviceNext]_deviceVars /\ [TunnelNext]_tunnelVars
           /\ [RouterNext]_routerVars /\ [RestartNext]_restartVars
           /\ [ParserNext]_parserVars /\ [AdmissionNext]_admissionVars
           /\ [BridgeNext]_bridgeVars /\ [McpNext]_mcpVars
           /\ [ContentNext]_contentVars /\ [SetupNext]_setupVars
           /\ [ConfigureNext]_configureVars /\ [UsageNext]_usageVars
  <1>1. CASE UNCHANGED hostVars
    BY <1>1 DEF hostVars
  <1>2. CASE Only("devices") /\ DeviceNext
    BY <1>2 DEF Only
  <1>3. CASE Only("tunnel") /\ TunnelNext
    BY <1>3 DEF Only
  <1>4. CASE Only("router") /\ RouterNext
    BY <1>4 DEF Only
  <1>5. CASE Only("restarts") /\ RestartNext
    BY <1>5 DEF Only
  <1>6. CASE Only("parser") /\ ParserNext
    BY <1>6 DEF Only
  <1>7. CASE Only("prompts") /\ AdmissionNext
    BY <1>7 DEF Only
  <1>8. CASE Only("bridge") /\ BridgeNext
    BY <1>8 DEF Only
  <1>9. CASE Only("mcp") /\ McpNext
    BY <1>9 DEF Only
  <1>10. CASE Only("content") /\ ContentNext
    BY <1>10 DEF Only
  <1>11. CASE Only("setup") /\ SetupNext
    BY <1>11 DEF Only
  <1>12. CASE Only("configure") /\ ConfigureNext
    BY <1>12 DEF Only
  <1>13. CASE Only("usage") /\ UsageNext
    BY <1>13 DEF Only
  <1> QED
    BY <1>1, <1>2, <1>3, <1>4, <1>5, <1>6, <1>7, <1>8, <1>9, <1>10, <1>11,
       <1>12, <1>13 DEF HostNext

\* Every behaviour of the host is one of each of its parts, but for their
\* fairness: a part that does not run makes no step at all.
THEOREM HostIsItsParts ==
    HostSpec =>
      /\ DeviceSpec /\ RouterSpec /\ AdmissionSpec /\ BridgeSpec /\ McpSpec
      /\ ContentSpec /\ SetupSpec /\ ConfigureSpec /\ UsageSpec
      /\ TunnelInit /\ [][TunnelNext]_tunnelVars
      /\ RestartInit /\ [][RestartNext]_restartVars
      /\ ParserInit /\ [][ParserNext]_parserVars
  <1>1. HostInit =>
          /\ DeviceInit /\ TunnelInit /\ RouterInit /\ RestartInit
          /\ ParserInit /\ AdmissionInit /\ BridgeInit /\ McpInit
          /\ ContentInit /\ SetupInit /\ ConfigureInit /\ UsageInit
    BY DEF HostInit
  <1> QED
    BY <1>1, HostSteps, PTL
    DEF HostSpec, DeviceSpec, RouterSpec, AdmissionSpec, BridgeSpec, McpSpec,
        ContentSpec, SetupSpec, ConfigureSpec, UsageSpec

\* What keeps the invariants of the parts, taken together.
HostInv ==
    /\ DeviceTypes /\ TunnelInv /\ RouterTypeOK /\ RestartInv /\ ParserInv
    /\ AdmissionInv /\ BridgeInv /\ McpInv /\ ContentInv /\ SetupInv
    /\ ConfigureInv /\ UsageInv

LEMMA HostAlwaysInv == HostSpec => []HostInv
  <1>1. ConfigureInit => ConfigureInv
    BY DEF ConfigureInit, ConfigureInv, ConfigureTypeOK, TunnelIsKnown
  <1>2. RestartInv /\ [RestartNext]_restartVars => RestartInv'
    BY LoopCountStep, LoopStep DEF RestartInv
  <1>3. HostInit => HostInv
    BY <1>1, DeviceInitTypes, TunnelInitInv, RouterInitTypes,
       RestartInitInv, ParserInitInv, AdmissionInitInv, BridgeInitInv,
       McpInitInv, ContentInitInv, SetupInitInv, UsageInitInv
    DEF HostInit, HostInv
  <1>4. HostInv /\ [HostNext]_hostVars => HostInv'
    BY <1>2, HostSteps, DeviceNextTypes, TunnelNextInv, RouterNextTypes,
       ParserNextInv, AdmissionNextInv, BridgeNextInv, McpNextInv,
       ContentNextInv, SetupNextInv, ConfigureNextInv, UsageNextInv
    DEF HostInv
  <1> QED
    BY <1>3, <1>4, PTL DEF HostSpec

\* Every variable of every part has a value of its type, for any number of
\* devices, sockets, calls, prompts, jobs, servers, requests and usages.
THEOREM HostTypeCorrect == HostSpec => []HostTypeOK
  <1>1. HostInv => HostTypeOK
    <2> SUFFICES ASSUME HostInv PROVE HostTypeOK
      OBVIOUS
    <2>1. DeviceTypeOK /\ TunnelTypeOK /\ RouterTypeOK
      BY DEF HostInv, DeviceTypes, TunnelInv
    <2>2. RestartTypeOK
      BY DEF HostInv, RestartInv, RestartTypeOK, LoopTyped, Counted,
             LastIsGone
    <2>3. ParserTypeOK /\ AdmissionTypeOK /\ SetupTypeOK /\ ConfigureTypeOK
      BY DEF HostInv, ParserInv, AdmissionInv, SetupInv, ConfigureInv
    <2>4. BridgeTypeOK /\ ContentTypeOK /\ UsageTypeOK
      BY DEF HostInv, BridgeInv, ContentInv, UsageInv
    <2>5. McpTypeOK
      BY McpTypesOK DEF HostInv, McpInv
    <2> QED
      BY <2>1, <2>2, <2>3, <2>4, <2>5 DEF HostTypeOK
  <1> QED
    BY <1>1, HostAlwaysInv, PTL

=============================================================================
