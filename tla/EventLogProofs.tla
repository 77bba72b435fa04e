--------------------------- MODULE EventLogProofs ---------------------------
(***************************************************************************)
(* What holds of the event store and of the client that follows it for     *)
(* every size of the memory, the log and a page, for any jobs and for any  *)
(* number of processes, failures and broken streams.                       *)
(*                                                                         *)
(* Everything rests on where the numbers of a sequence end: those in       *)
(* memory and those that wait to be written end at the number given last,  *)
(* those in the log just before the first that waits. The order in which   *)
(* events reach the page rests on more: what is in memory, in the log and  *)
(* on the wire is of one generation, and whatever the page has of it lies  *)
(* behind the client's cursor or behind the memory.                        *)
(***************************************************************************)
EXTENDS EventStream, FiniteSetTheorems, SequenceTheorems,
        WellFoundedInduction, TLAPS

-----------------------------------------------------------------------------
(* Sequences. *)

LEMMA CutFacts ==
    ASSUME NEW S, NEW s \in Seq(S),
           NEW m \in 1..(Len(s) + 1), NEW n \in (m - 1)..Len(s)
    PROVE  /\ SubSeq(s, m, n) \in Seq(S)
           /\ Len(SubSeq(s, m, n)) = n - m + 1
           /\ \A i \in 1..(n - m + 1) : SubSeq(s, m, n)[i] = s[m - 1 + i]
  <1>1. m \in Int /\ n \in Int /\ \A i \in m..n : s[i] \in S
    OBVIOUS
  <1>2. \A i \in 1..(n - m + 1) : SubSeq(s, m, n)[i] = s[m + i - 1]
    BY <1>1, SubSeqProperties
  <1> QED
    BY <1>1, <1>2, SubSeqProperties

LEMMA LastOfFacts ==
    ASSUME NEW S, NEW s \in Seq(S), NEW n \in Nat
    PROVE  /\ LastOf(s, n) \in Seq(S)
           /\ Len(LastOf(s, n)) = (IF Len(s) < n THEN Len(s) ELSE n)
           /\ \A i \in 1..Len(LastOf(s, n)) :
                LastOf(s, n)[i] = s[Len(s) - Len(LastOf(s, n)) + i]
  <1> DEFINE m == IF Len(s) < n THEN 1 ELSE Len(s) - n + 1
  <1>1. /\ m \in 1..(Len(s) + 1)
        /\ Len(s) \in (m - 1)..Len(s)
        /\ Len(s) - m + 1 = IF Len(s) < n THEN Len(s) ELSE n
    OBVIOUS
  <1>2. LastOf(s, n) = SubSeq(s, m, Len(s))
    BY DEF LastOf
  <1> HIDE DEF m
  <1>3. /\ LastOf(s, n) \in Seq(S)
        /\ Len(LastOf(s, n)) = Len(s) - m + 1
        /\ \A i \in 1..(Len(s) - m + 1) : LastOf(s, n)[i] = s[m - 1 + i]
    BY <1>1, <1>2, CutFacts
  <1> QED
    BY <1>1, <1>3

LEMMA FirstOfFacts ==
    ASSUME NEW S, NEW s \in Seq(S), NEW n \in Nat
    PROVE  /\ FirstOf(s, n) \in Seq(S)
           /\ Len(FirstOf(s, n)) = (IF Len(s) < n THEN Len(s) ELSE n)
           /\ \A i \in 1..Len(FirstOf(s, n)) : FirstOf(s, n)[i] = s[i]
  <1> DEFINE m == IF Len(s) < n THEN Len(s) ELSE n
  <1>1. 1 \in 1..(Len(s) + 1) /\ m \in (1 - 1)..Len(s)
    OBVIOUS
  <1>2. FirstOf(s, n) = SubSeq(s, 1, m)
    BY DEF FirstOf
  <1> HIDE DEF m
  <1>3. /\ FirstOf(s, n) \in Seq(S)
        /\ Len(FirstOf(s, n)) = m - 1 + 1
        /\ \A i \in 1..(m - 1 + 1) : FirstOf(s, n)[i] = s[1 - 1 + i]
    BY <1>1, <1>2, CutFacts
  <1> QED
    BY <1>1, <1>3 DEF m

\* The numbers of a sequence of events increase by one and end at n.
EndsAt(s, n) == \A i \in DOMAIN s : s[i].seq = n - Len(s) + i

\* The numbers of a sequence of events increase by one.
Consecutive(s) == \A i, j \in DOMAIN s : s[j].seq = s[i].seq + (j - i)

LEMMA EventTypes ==
    /\ \A e \in Events : /\ e.seq \in Nat
                         /\ e.generation \in Generations
                         /\ e.report \in Reports
    /\ \A s \in Seq(Events) :
         /\ Len(s) \in Nat
         /\ DOMAIN s = 1..Len(s)
         /\ \A i \in 1..Len(s) : s[i] \in Events /\ s[i].seq \in Nat
  <1>1. \A e \in Events : /\ e.seq \in Nat
                         /\ e.generation \in Generations
                         /\ e.report \in Reports
    BY DEF Events
  <1> QED
    BY <1>1

LEMMA ConsecutiveEnds ==
    ASSUME NEW s \in Seq(Events)
    PROVE  /\ LastSeq(s) \in Nat
           /\ Consecutive(s) => EndsAt(s, LastSeq(s))
           /\ \A n \in Int : EndsAt(s, n) => Consecutive(s)
           /\ \A n \in Int : EndsAt(s, n) /\ s # <<>> => LastSeq(s) = n
  <1>0. /\ Len(s) \in Nat /\ DOMAIN s = 1..Len(s)
        /\ \A i \in 1..Len(s) : s[i].seq \in Nat
    BY EventTypes
  <1>1. /\ s = <<>> <=> Len(s) = 0
        /\ s # <<>> => Len(s) \in 1..Len(s) /\ LastSeq(s) = s[Len(s)].seq
        /\ s = <<>> => LastSeq(s) = 0
    BY DEF LastSeq
  <1>2. LastSeq(s) \in Nat
    BY <1>0, <1>1
  <1>3. Consecutive(s) => EndsAt(s, LastSeq(s))
    <2> SUFFICES ASSUME Consecutive(s), NEW i \in DOMAIN s
                 PROVE  s[i].seq = LastSeq(s) - Len(s) + i
      BY DEF EndsAt
    <2>1. i \in 1..Len(s) /\ s # <<>> /\ Len(s) \in DOMAIN s
      BY <1>0, <1>1
    <2>2. s[i].seq = s[Len(s)].seq + (i - Len(s))
      BY <2>1 DEF Consecutive
    <2> QED
      BY <1>0, <1>1, <2>1, <2>2
  <1>4. \A n \in Int : EndsAt(s, n) => Consecutive(s)
    BY <1>0 DEF Consecutive, EndsAt
  <1>5. \A n \in Int : EndsAt(s, n) /\ s # <<>> => LastSeq(s) = n
    BY <1>0, <1>1 DEF EndsAt
  <1> QED
    BY <1>2, <1>3, <1>4, <1>5

LEMMA LastOfEnds ==
    ASSUME NEW s \in Seq(Events), NEW n \in Int, EndsAt(s, n), NEW m \in Nat
    PROVE  EndsAt(LastOf(s, m), n)
  <1>1. Len(s) \in Nat /\ DOMAIN s = 1..Len(s)
    BY EventTypes
  <1> DEFINE t == LastOf(s, m)
  <1>2. /\ DOMAIN t = 1..Len(t) /\ Len(t) \in 0..Len(s)
        /\ \A i \in 1..Len(t) : t[i] = s[Len(s) - Len(t) + i]
    BY <1>1, LastOfFacts
  <1> HIDE DEF t
  <1>3. ASSUME NEW i \in 1..Len(t) PROVE t[i].seq = n - Len(t) + i
    <2> DEFINE k == Len(s) - Len(t) + i
    <2>1. k \in 1..Len(s) /\ Len(t) \in Int /\ i \in Int
      BY <1>1, <1>2
    <2>2. t[i] = s[k]
      BY <1>2
    <2>3. n - Len(s) + k = n - Len(t) + i
      BY <1>1, <2>1
    <2> HIDE DEF k
    <2>4. s[k].seq = n - Len(s) + k
      BY <1>1, <2>1 DEF EndsAt
    <2> QED
      BY <2>2, <2>3, <2>4
  <1> QED
    BY <1>2, <1>3 DEF t, EndsAt

\* A sequence continued by the numbers that follow.
LEMMA ConcatEnds ==
    ASSUME NEW s \in Seq(Events), NEW t \in Seq(Events), NEW n \in Int,
           EndsAt(s, n - Len(t)), EndsAt(t, n)
    PROVE  EndsAt(s \o t, n)
  <1>1. /\ Len(s) \in Nat /\ DOMAIN s = 1..Len(s)
        /\ Len(t) \in Nat /\ DOMAIN t = 1..Len(t)
        /\ DOMAIN (s \o t) = 1..Len(s \o t)
    BY EventTypes
  <1>2. /\ Len(s \o t) = Len(s) + Len(t)
        /\ \A i \in 1..(Len(s) + Len(t)) :
             (s \o t)[i] = IF i <= Len(s) THEN s[i] ELSE t[i - Len(s)]
    BY ConcatProperties
  <1>3. ASSUME NEW i \in 1..(Len(s) + Len(t))
        PROVE  (s \o t)[i].seq = n - (Len(s) + Len(t)) + i
    <2>1. CASE i <= Len(s)
      <3>1. i \in 1..Len(s) /\ (s \o t)[i] = s[i]
        BY <1>1, <1>2, <2>1
      <3>2. s[i].seq = (n - Len(t)) - Len(s) + i
        BY <1>1, <3>1 DEF EndsAt
      <3> QED
        BY <1>1, <3>1, <3>2
    <2>2. CASE i > Len(s)
      <3>1. i - Len(s) \in 1..Len(t) /\ (s \o t)[i] = t[i - Len(s)]
        BY <1>1, <1>2, <2>2
      <3>2. t[i - Len(s)].seq = n - Len(t) + (i - Len(s))
        BY <1>1, <3>1 DEF EndsAt
      <3> QED
        BY <1>1, <3>1, <3>2
    <2> QED
      BY <1>1, <2>1, <2>2
  <1> QED
    BY <1>1, <1>2, <1>3 DEF EndsAt

\* The number of events up to a number exists, so the filters of the store
\* are the cuts that the model makes.
LEMMA CountUpToFacts ==
    ASSUME NEW s \in Seq(Events), NEW n \in Int, EndsAt(s, n), NEW m \in Int
    PROVE  /\ CountUpTo(s, m) \in 0..Len(s)
           /\ \A i \in 1..Len(s) : s[i].seq <= m <=> i <= CountUpTo(s, m)
  <1>0. Len(s) \in Nat /\ DOMAIN s = 1..Len(s)
    BY EventTypes
  <1>1. \A i \in 1..Len(s) : s[i].seq = n - Len(s) + i
    BY <1>0 DEF EndsAt
  <1> DEFINE k == IF m >= n THEN Len(s)
                  ELSE IF m < n - Len(s) THEN 0 ELSE m - (n - Len(s))
  <1>2. k \in 0..Len(s)
    BY <1>0
  <1>3. \A i \in DOMAIN s : s[i].seq <= m <=> i <= k
    BY <1>0, <1>1
  <1> HIDE DEF k
  <1> QED
    BY <1>0, <1>2, <1>3 DEF CountUpTo

LEMMA UpToFacts ==
    ASSUME NEW s \in Seq(Events), NEW n \in Int, EndsAt(s, n), NEW m \in Int
    PROVE  /\ UpTo(s, m) \in Seq(Events)
           /\ Len(UpTo(s, m)) = CountUpTo(s, m)
           /\ \A i \in 1..CountUpTo(s, m) : UpTo(s, m)[i] = s[i]
           /\ m <= n => EndsAt(UpTo(s, m), m)
  <1>0. Len(s) \in Nat /\ DOMAIN s = 1..Len(s)
    BY EventTypes
  <1>1. CountUpTo(s, m) \in 0..Len(s)
    BY CountUpToFacts
  <1>2. /\ UpTo(s, m) \in Seq(Events)
        /\ Len(UpTo(s, m)) = CountUpTo(s, m)
        /\ \A i \in 1..CountUpTo(s, m) : UpTo(s, m)[i] = s[i]
    <2>1. 1 \in 1..(Len(s) + 1) /\ CountUpTo(s, m) \in (1 - 1)..Len(s)
      BY <1>0, <1>1
    <2> DEFINE k == CountUpTo(s, m)
    <2>2. k \in Nat
      BY <1>1
    <2> HIDE DEF k
    <2>3. /\ SubSeq(s, 1, k) \in Seq(Events)
          /\ Len(SubSeq(s, 1, k)) = k - 1 + 1
          /\ \A i \in 1..(k - 1 + 1) : SubSeq(s, 1, k)[i] = s[1 - 1 + i]
      BY <1>0, <2>1, CutFacts DEF k
    <2> QED
      BY <2>2, <2>3 DEF UpTo, k
  <1>3. ASSUME m <= n, NEW i \in 1..CountUpTo(s, m)
        PROVE  UpTo(s, m)[i].seq = m - CountUpTo(s, m) + i
    <2>1. \A j \in 1..Len(s) : s[j].seq = n - Len(s) + j
      BY <1>0 DEF EndsAt
    <2>2. \A j \in 1..Len(s) : s[j].seq <= m <=> j <= CountUpTo(s, m)
      BY CountUpToFacts
    <2>3. \A j \in 1..Len(s) : n - Len(s) + j <= m <=> j <= CountUpTo(s, m)
      BY <2>1, <2>2
    <2>4. 1 <= CountUpTo(s, m) /\ CountUpTo(s, m) \in 1..Len(s)
      BY <1>0, <1>1
    <2>5. n - Len(s) + CountUpTo(s, m) <= m
      BY <2>3, <2>4
    <2>6. CountUpTo(s, m) < Len(s) => n - Len(s) + CountUpTo(s, m) + 1 > m
      <3> SUFFICES ASSUME CountUpTo(s, m) < Len(s)
                   PROVE  n - Len(s) + CountUpTo(s, m) + 1 > m
        OBVIOUS
      <3>1. CountUpTo(s, m) + 1 \in 1..Len(s)
        BY <1>0, <2>4
      <3> QED
        BY <1>0, <2>3, <2>4, <3>1
    <2>7. CountUpTo(s, m) = m - (n - Len(s))
      BY <1>0, <1>3, <2>4, <2>5, <2>6
    <2> QED
      BY <1>0, <1>1, <1>2, <2>1, <2>7
  <1> QED
    BY <1>2, <1>3 DEF EndsAt

LEMMA BeyondFacts ==
    ASSUME NEW s \in Seq(Events), NEW n \in Int, EndsAt(s, n), NEW m \in Int
    PROVE  /\ Beyond(s, m) \in Seq(Events)
           /\ EndsAt(Beyond(s, m), n)
           /\ Len(Beyond(s, m)) = Len(s) - CountUpTo(s, m)
           /\ \A i \in DOMAIN Beyond(s, m) :
                /\ Beyond(s, m)[i].seq > m
                /\ \E j \in 1..Len(s) : Beyond(s, m)[i] = s[j]
  <1>0. Len(s) \in Nat /\ DOMAIN s = 1..Len(s)
    BY EventTypes
  <1> DEFINE k == CountUpTo(s, m)
  <1>1. /\ k \in 0..Len(s)
        /\ \A i \in 1..Len(s) : s[i].seq <= m <=> i <= k
    BY CountUpToFacts
  <1>2. \A i \in 1..Len(s) : s[i].seq = n - Len(s) + i
    BY <1>0 DEF EndsAt
  <1> DEFINE t == Beyond(s, m)
  <1>3. t = SubSeq(s, k + 1, Len(s))
    BY DEF Beyond
  <1> HIDE DEF k, t
  <1>4. /\ t \in Seq(Events)
        /\ Len(t) = Len(s) - k
        /\ \A i \in 1..(Len(s) - k) : t[i] = s[k + i]
    <2> DEFINE a == k + 1
    <2>1. /\ a \in 1..(Len(s) + 1) /\ Len(s) \in (a - 1)..Len(s)
          /\ a - 1 = k /\ Len(s) - a + 1 = Len(s) - k
      BY <1>0, <1>1
    <2>2. t = SubSeq(s, a, Len(s))
      BY <1>3
    <2> HIDE DEF a
    <2>3. /\ t \in Seq(Events)
          /\ Len(t) = Len(s) - a + 1
          /\ \A i \in 1..(Len(s) - a + 1) : t[i] = s[a - 1 + i]
      BY <2>1, <2>2, CutFacts
    <2> QED
      BY <2>1, <2>3
  <1>5. DOMAIN t = 1..Len(t) /\ Len(t) \in 0..Len(s)
    BY <1>0, <1>1, <1>4, EventTypes
  <1>6. ASSUME NEW i \in 1..Len(t)
        PROVE  /\ t[i].seq = n - Len(t) + i /\ t[i].seq > m
               /\ \E j \in 1..Len(s) : t[i] = s[j]
    <2>1. k + i \in 1..Len(s) /\ t[i] = s[k + i]
      <3>1. i \in Int /\ 1 <= i /\ i <= Len(s) - k
        BY <1>0, <1>1, <1>4
      <3> QED
        BY <1>0, <1>1, <1>4, <3>1
    <2>2. s[k + i].seq = n - Len(s) + (k + i) /\ ~(s[k + i].seq <= m)
      BY <1>1, <1>2, <2>1
    <2>3. t[i].seq = n - Len(t) + i /\ t[i].seq > m
      BY <1>0, <1>1, <1>4, <2>1, <2>2
    <2> QED
      BY <2>1, <2>3
  <1>7. t \in Seq(Events) /\ EndsAt(t, n)
    BY <1>4, <1>5, <1>6 DEF EndsAt
  <1> QED
    BY <1>4, <1>5, <1>6, <1>7 DEF t, k

-----------------------------------------------------------------------------
(* The store: what holds in every state of it. *)

Idle ==
    ~up => /\ events = <<>> /\ writes = <<>> /\ sequence = 0
           /\ writing = "line"

Running == up => generation \in Generations /\ events # <<>>

MemoryNumbered == EndsAt(events, sequence) /\ EndsAt(writes, sequence)

\* The log ends just before what has yet to be written to it, or with the
\* first of that once its line is written.
LogNumbered ==
    /\ Consecutive(log)
    /\ up /\ writing = "line" => EndsAt(log, sequence - Len(writes))
    /\ writing # "line" => writes # <<>>
    /\ writing \in {"generation", "compact"}
         => log # <<>> /\ log[Len(log)] = Head(writes)

StoreInv ==
    /\ StoreTypeOK
    /\ Idle /\ Running
    /\ MemoryNumbered /\ LogNumbered
    /\ WrittenIsKept

LEMMA NumberedFacts ==
    ASSUME NEW reports \in Seq(Reports), NEW g \in Generations, NEW n \in Nat
    PROVE  /\ Numbered(reports, g, n) \in Seq(Events)
           /\ Len(Numbered(reports, g, n)) = Len(reports)
           /\ EndsAt(Numbered(reports, g, n), n + Len(reports))
           /\ \A i \in 1..Len(reports) :
                Numbered(reports, g, n)[i].generation = g
  <1> DEFINE t == Numbered(reports, g, n)
  <1>1. Len(reports) \in Nat /\ DOMAIN reports = 1..Len(reports)
    OBVIOUS
  <1>2. \A i \in 1..Len(reports) :
          [seq |-> n + i, generation |-> g, report |-> reports[i]] \in Events
    BY DEF Events
  <1>3. t = [i \in 1..Len(reports) |->
               [seq |-> n + i, generation |-> g, report |-> reports[i]]]
    BY <1>1 DEF Numbered
  <1> HIDE DEF t
  <1>4. t \in [1..Len(reports) -> Events]
    BY <1>2, <1>3
  <1>5. t \in Seq(Events)
    BY <1>1, <1>4, SeqDef
  <1>6. Len(t) = Len(reports) /\ DOMAIN t = 1..Len(reports)
    BY <1>1, <1>4, <1>5
  <1>7. \A i \in 1..Len(reports) : t[i].seq = n + i /\ t[i].generation = g
    BY <1>3
  <1> QED
    BY <1>1, <1>5, <1>6, <1>7 DEF EndsAt, t

LEMMA KeptFacts ==
    ASSUME NEW s \in Seq(Events)
    PROVE  /\ Kept(s) \in Seq(Events)
           /\ Len(Kept(s)) <= MaxEvents
           /\ Len(Kept(s)) \in 0..Len(s)
           /\ s # <<>> => Kept(s) # <<>>
           /\ \A i \in 1..Len(Kept(s)) :
                Kept(s)[i] = s[Len(s) - Len(Kept(s)) + i]
           /\ \A i \in DOMAIN Kept(s) : InSeq(Kept(s)[i], s)
           /\ \A n \in Int : EndsAt(s, n) => EndsAt(Kept(s), n)
  <1>0. Len(s) \in Nat /\ DOMAIN s = 1..Len(s) /\ (s # <<>> => Len(s) > 0)
    OBVIOUS
  <1>1. MaxEvents \in Nat /\ MaxEvents > 0
    BY StoreAssumption
  <1> DEFINE t == Kept(s)
  <1>2. /\ t \in Seq(Events)
        /\ Len(t) = (IF Len(s) < MaxEvents THEN Len(s) ELSE MaxEvents)
        /\ \A i \in 1..Len(t) : t[i] = s[Len(s) - Len(t) + i]
    BY <1>1, LastOfFacts DEF Kept
  <1>3. \A n \in Int : EndsAt(s, n) => EndsAt(t, n)
    BY <1>1, LastOfEnds DEF Kept
  <1> HIDE DEF t
  <1>4. /\ Len(t) \in 0..Len(s) /\ Len(t) <= MaxEvents
        /\ DOMAIN t = 1..Len(t)
        /\ s # <<>> => t # <<>>
    BY <1>0, <1>1, <1>2
  <1>5. \A i \in DOMAIN t : InSeq(t[i], s)
    <2> SUFFICES ASSUME NEW i \in 1..Len(t)
                 PROVE  InSeq(t[i], s)
      BY <1>4
    <2>1. Len(s) - Len(t) + i \in DOMAIN s
      BY <1>0, <1>4
    <2> QED
      BY <1>2, <2>1 DEF InSeq
  <1> QED
    BY <1>2, <1>3, <1>4, <1>5 DEF t

LEMMA InConcat ==
    ASSUME NEW s \in Seq(Events), NEW t \in Seq(Events), NEW e
    PROVE  InSeq(e, s \o t) <=> InSeq(e, s) \/ InSeq(e, t)
  <1>1. /\ Len(s) \in Nat /\ DOMAIN s = 1..Len(s)
        /\ Len(t) \in Nat /\ DOMAIN t = 1..Len(t)
        /\ DOMAIN (s \o t) = 1..(Len(s) + Len(t))
        /\ \A i \in 1..(Len(s) + Len(t)) :
             (s \o t)[i] = IF i <= Len(s) THEN s[i] ELSE t[i - Len(s)]
    BY ConcatProperties
  <1>2. ASSUME InSeq(e, s) PROVE InSeq(e, s \o t)
    <2>1. PICK i \in 1..Len(s) : s[i] = e
      BY <1>1, <1>2 DEF InSeq
    <2>2. i \in 1..(Len(s) + Len(t)) /\ (s \o t)[i] = e
      BY <1>1, <2>1
    <2> QED
      BY <1>1, <2>2 DEF InSeq
  <1>3. ASSUME InSeq(e, t) PROVE InSeq(e, s \o t)
    <2>1. PICK i \in 1..Len(t) : t[i] = e
      BY <1>1, <1>3 DEF InSeq
    <2>2. /\ Len(s) + i \in 1..(Len(s) + Len(t))
          /\ ~(Len(s) + i <= Len(s)) /\ (Len(s) + i) - Len(s) = i
      BY <1>1, <2>1
    <2>3. (s \o t)[Len(s) + i] = e
      BY <1>1, <2>1, <2>2
    <2> QED
      BY <1>1, <2>2, <2>3 DEF InSeq
  <1>4. ASSUME InSeq(e, s \o t) PROVE InSeq(e, s) \/ InSeq(e, t)
    <2>1. PICK i \in 1..(Len(s) + Len(t)) : (s \o t)[i] = e
      BY <1>1, <1>4 DEF InSeq
    <2>2. CASE i <= Len(s)
      BY <1>1, <2>1, <2>2 DEF InSeq
    <2>3. CASE ~(i <= Len(s))
      <3>1. i - Len(s) \in 1..Len(t) /\ t[i - Len(s)] = e
        BY <1>1, <2>1, <2>3
      <3> QED
        BY <1>1, <3>1 DEF InSeq
    <2> QED
      BY <2>2, <2>3
  <1> QED
    BY <1>2, <1>3, <1>4

\* What is in memory waits or is in the log, said of the events themselves.
LEMMA KeptMeans ==
    ASSUME NEW s \in Seq(Events), NEW w, NEW l
    PROVE  (\A i \in DOMAIN s : InSeq(s[i], w) \/ InSeq(s[i], l))
             <=> \A e \in Events : InSeq(e, s) => InSeq(e, w) \/ InSeq(e, l)
  BY EventTypes DEF InSeq

LEMMA HeadTailFacts ==
    ASSUME NEW s \in Seq(Events), s # <<>>
    PROVE  /\ Head(s) \in Events /\ Head(s) = s[1]
           /\ Tail(s) \in Seq(Events)
           /\ Len(Tail(s)) = Len(s) - 1
           /\ \A n \in Int : EndsAt(s, n)
                => EndsAt(Tail(s), n) /\ Head(s).seq = n - Len(s) + 1
           /\ \A e : InSeq(e, s) <=> e = Head(s) \/ InSeq(e, Tail(s))
  <1>1. /\ Head(s) \in Events /\ Head(s) = s[1]
        /\ Tail(s) \in Seq(Events)
        /\ Len(Tail(s)) = Len(s) - 1
        /\ \A i \in 1..Len(Tail(s)) : Tail(s)[i] = s[i + 1]
    BY HeadTailProperties
  <1>2. /\ Len(s) \in Nat /\ Len(s) > 0 /\ DOMAIN s = 1..Len(s)
        /\ DOMAIN Tail(s) = 1..(Len(s) - 1)
    BY <1>1
  <1>3. ASSUME NEW n \in Int, EndsAt(s, n)
        PROVE  EndsAt(Tail(s), n) /\ Head(s).seq = n - Len(s) + 1
    <2>1. \A i \in 1..Len(s) : s[i].seq = n - Len(s) + i
      BY <1>2, <1>3 DEF EndsAt
    <2>2. ASSUME NEW i \in 1..(Len(s) - 1)
          PROVE  Tail(s)[i].seq = n - Len(Tail(s)) + i
      <3>1. i + 1 \in 1..Len(s) /\ Tail(s)[i] = s[i + 1]
        BY <1>1, <1>2
      <3> QED
        BY <1>1, <1>2, <2>1, <3>1
    <2>3. 1 \in 1..Len(s)
      BY <1>2
    <2> QED
      BY <1>1, <1>2, <2>1, <2>2, <2>3 DEF EndsAt
  <1>4. ASSUME NEW e
        PROVE  InSeq(e, s) <=> e = Head(s) \/ InSeq(e, Tail(s))
    <2>1. ASSUME InSeq(e, Tail(s)) PROVE InSeq(e, s)
      <3>1. PICK i \in 1..(Len(s) - 1) : Tail(s)[i] = e
        BY <1>2, <2>1 DEF InSeq
      <3>2. i + 1 \in 1..Len(s) /\ s[i + 1] = e
        BY <1>1, <1>2, <3>1
      <3> QED
        BY <1>2, <3>2 DEF InSeq
    <2>2. ASSUME InSeq(e, s), e # Head(s) PROVE InSeq(e, Tail(s))
      <3>1. PICK i \in 1..Len(s) : s[i] = e
        BY <1>2, <2>2 DEF InSeq
      <3>2. /\ i - 1 \in 1..(Len(s) - 1) /\ (i - 1) + 1 = i
        BY <1>1, <1>2, <2>2, <3>1
      <3>3. Tail(s)[i - 1] = e
        BY <1>1, <3>1, <3>2
      <3> QED
        BY <1>2, <3>2, <3>3 DEF InSeq
    <2>3. InSeq(Head(s), s)
      BY <1>1, <1>2 DEF InSeq
    <2> QED
      BY <2>1, <2>2, <2>3
  <1> QED
    BY <1>1, <1>3, <1>4

LEMMA InSeqBound ==
    ASSUME NEW s \in Seq(Events), NEW n \in Int, EndsAt(s, n),
           NEW e, InSeq(e, s)
    PROVE  e \in Events /\ e.seq <= n /\ e.seq > n - Len(s)
  <1>1. PICK i \in 1..Len(s) : s[i] = e
    BY EventTypes DEF InSeq
  <1>2. Len(s) \in Nat /\ s[i] \in Events /\ s[i].seq = n - Len(s) + i
    BY EventTypes DEF EndsAt
  <1> QED
    BY <1>1, <1>2

LEMMA PublishInv ==
    ASSUME StoreInv, NEW report \in Reports, Publish(report),
           job' \in [Jobs -> {"new", "running", "done", "gone"}]
    PROVE  StoreInv' /\ events' # <<>>
  <1> DEFINE new == Numbered(<<report>>, generation, sequence)
  <1>0. /\ up /\ generation \in Generations /\ sequence \in Nat
        /\ events \in Seq(Events) /\ writes \in Seq(Events)
        /\ log \in Seq(Events)
        /\ EndsAt(events, sequence) /\ EndsAt(writes, sequence)
    BY DEF Publish, StoreInv, Running, StoreTypeOK, MemoryNumbered
  <1>1. /\ new \in Seq(Events) /\ Len(new) = 1
        /\ EndsAt(new, sequence + 1)
    <2>1. <<report>> \in Seq(Reports) /\ Len(<<report>>) = 1
      OBVIOUS
    <2> QED
      BY <1>0, <2>1, NumberedFacts
  <1>2. /\ up' = up /\ sequence' = sequence + 1
        /\ events' = Kept(events \o new) /\ writes' = writes \o new
        /\ UNCHANGED <<process, generation, writing, log, generationFile,
                       faults, lost>>
    BY DEF Publish, files
  <1> HIDE DEF new
  <1>3. /\ events \o new \in Seq(Events) /\ events \o new # <<>>
        /\ writes \o new \in Seq(Events)
        /\ Len(writes \o new) = Len(writes) + 1
    <2>1. /\ events \o new \in Seq(Events)
          /\ Len(events \o new) = Len(events) + Len(new)
          /\ writes \o new \in Seq(Events)
          /\ Len(writes \o new) = Len(writes) + Len(new)
      BY <1>0, <1>1, ConcatProperties
    <2>2. Len(events) + 1 # 0
      BY <1>0
    <2> QED
      BY <1>1, <2>1, <2>2
  <1>4. /\ events' \in Seq(Events) /\ events' # <<>>
        /\ Len(events') <= MaxEvents
    BY <1>2, <1>3, KeptFacts
  <1>5. EndsAt(writes', sequence') /\ EndsAt(events', sequence')
    <2>1. /\ (sequence + 1) - Len(new) = sequence /\ sequence + 1 \in Int
      BY <1>0, <1>1
    <2>2. EndsAt(events \o new, sequence + 1)
      BY <1>0, <1>1, <2>1, ConcatEnds
    <2>3. EndsAt(writes \o new, sequence + 1)
      BY <1>0, <1>1, <2>1, ConcatEnds
    <2> QED
      BY <1>2, <1>3, <2>1, <2>2, <2>3, KeptFacts
  <1>6. StoreTypeOK'
    BY <1>0, <1>2, <1>3, <1>4 DEF StoreInv, StoreTypeOK
  <1>7. LogNumbered'
    <2>1. sequence' - Len(writes') = sequence - Len(writes)
      BY <1>0, <1>2, <1>3
    <2>2. writes # <<>> => Head(writes') = Head(writes) /\ writes' # <<>>
      <3> SUFFICES ASSUME writes # <<>>
                   PROVE  Head(writes') = Head(writes) /\ writes' # <<>>
        OBVIOUS
      <3>1. Head(writes) = writes[1] /\ Head(writes \o new) = writes[1]
        BY <1>0, <1>1
      <3> QED
        BY <1>0, <1>1, <1>2, <1>3, <3>1
    <2> QED
      BY <1>2, <2>1, <2>2 DEF StoreInv, LogNumbered
  <1>8. WrittenIsKept'
    <2>1. \A e \in Events :
            InSeq(e, events) => InSeq(e, writes) \/ InSeq(e, log)
      BY <1>0, KeptMeans DEF StoreInv, WrittenIsKept
    <2>2. ASSUME NEW i \in DOMAIN events'
          PROVE  InSeq(events'[i], writes') \/ InSeq(events'[i], log')
      <3>1. InSeq(events'[i], events \o new)
        BY <1>2, <1>3, KeptFacts
      <3>2. InSeq(events'[i], events) \/ InSeq(events'[i], new)
        BY <1>0, <1>1, <3>1, InConcat
      <3>3. events'[i] \in Events
        BY <1>4, EventTypes
      <3>4. InSeq(events'[i], writes') <=>
              InSeq(events'[i], writes) \/ InSeq(events'[i], new)
        BY <1>0, <1>1, <1>2, InConcat
      <3> QED
        BY <1>2, <2>1, <3>2, <3>3, <3>4
    <2> QED
      BY <2>2 DEF WrittenIsKept
  <1>9. Idle' /\ Running' /\ MemoryNumbered'
    BY <1>0, <1>2, <1>4, <1>5 DEF Idle, Running, MemoryNumbered
  <1> QED
    BY <1>4, <1>6, <1>7, <1>8, <1>9 DEF StoreInv

LEMMA JobStepInv ==
    ASSUME StoreInv, NEW j \in Jobs, JobStep(j)
    PROVE  StoreInv' /\ events' # <<>>
  <1>1. job' \in [Jobs -> {"new", "running", "done", "gone"}]
    BY DEF StoreInv, StoreTypeOK, JobStep
  <1>2. JobReport(job') \in Reports
    <2> DEFINE told == {k \in Jobs : job'[k] \in {"running", "done"}}
    <2>1. JobReport(job') = [k \in told |-> job'[k]]
      BY DEF JobReport
    <2>2. \A k \in told : job'[k] \in Statuses
      BY DEF Statuses
    <2>3. told \in SUBSET Jobs
      OBVIOUS
    <2> HIDE DEF told
    <2>4. JobReport(job') \in [told -> Statuses]
      BY <2>1, <2>2
    <2> QED
      BY <2>3, <2>4 DEF Reports
  <1> QED
    BY <1>1, <1>2, PublishInv DEF JobStep

LEMMA PublishOtherInv ==
    ASSUME StoreInv, PublishOther
    PROVE  StoreInv' /\ events' # <<>>
  <1>1. job' \in [Jobs -> {"new", "running", "done", "gone"}]
    BY DEF StoreInv, StoreTypeOK, PublishOther
  <1>2. NoReport \in [{} -> Statuses] /\ {} \in SUBSET Jobs
    BY DEF NoReport
  <1>3. NoReport \in Reports
    BY <1>2 DEF Reports
  <1> QED
    BY <1>1, <1>3, PublishInv DEF PublishOther

LEMMA WriteLineInv == ASSUME StoreInv, WriteLine PROVE StoreInv'
  <1>0. /\ events \in Seq(Events) /\ writes \in Seq(Events)
        /\ log \in Seq(Events) /\ sequence \in Nat
        /\ EndsAt(writes, sequence) /\ up
        /\ EndsAt(log, sequence - Len(writes))
        /\ writes # <<>> /\ log' = Append(log, Head(writes))
        /\ writing' = "generation"
        /\ UNCHANGED <<process, up, memory, writes, generationFile, job,
                       faults, lost>>
    BY DEF WriteLine, StoreInv, StoreTypeOK, Idle, MemoryNumbered, LogNumbered
  <1> DEFINE one == <<Head(writes)>>
  <1>1. /\ Head(writes) \in Events
        /\ Head(writes).seq = sequence - Len(writes) + 1
    BY <1>0, HeadTailFacts
  <1>2. one \in Seq(Events) /\ Len(one) = 1 /\ one[1] = Head(writes)
        /\ DOMAIN one = {1}
    BY <1>1
  <1>3. log' = log \o one /\ log' \in Seq(Events)
        /\ Len(log') = Len(log) + 1 /\ log'[Len(log) + 1] = Head(writes)
        /\ log' # <<>>
    BY <1>0, <1>1, AppendProperties, AppendIsConcat
  <1> DEFINE n == sequence - Len(writes) + 1
  <1>4. n \in Int /\ n - 1 = sequence - Len(writes)
    BY <1>0
  <1> HIDE DEF one
  <1>5. Consecutive(log')
    <2>1. EndsAt(log, n - Len(one))
      BY <1>0, <1>2, <1>4
    <2>2. EndsAt(one, n)
      BY <1>1, <1>2, <1>4 DEF EndsAt
    <2> HIDE DEF n
    <2>3. EndsAt(log', n)
      BY <1>0, <1>2, <1>3, <1>4, <2>1, <2>2, ConcatEnds
    <2> QED
      BY <1>3, <1>4, <2>3, ConsecutiveEnds
  <1>6. LogNumbered'
    BY <1>0, <1>3, <1>5 DEF LogNumbered
  <1>7. StoreTypeOK'
    BY <1>0, <1>3 DEF StoreInv, StoreTypeOK, memory
  <1>8. WrittenIsKept'
    <2> SUFFICES ASSUME NEW i \in DOMAIN events
                 PROVE  InSeq(events[i], writes) \/ InSeq(events[i], log')
      BY <1>0 DEF WrittenIsKept, memory
    <2>1. InSeq(events[i], writes) \/ InSeq(events[i], log)
      BY DEF StoreInv, WrittenIsKept
    <2>2. InSeq(events[i], log \o one)
            <=> InSeq(events[i], log) \/ InSeq(events[i], one)
      BY <1>0, <1>2, InConcat
    <2> QED
      BY <1>3, <2>1, <2>2
  <1>9. Idle' /\ Running' /\ MemoryNumbered'
    BY <1>0 DEF StoreInv, Idle, Running, MemoryNumbered, memory
  <1> QED
    BY <1>6, <1>7, <1>8, <1>9 DEF StoreInv

LEMMA WriteGenerationInv ==
    ASSUME StoreInv, WriteGeneration \/ WriteFails
    PROVE  StoreInv'
  <1>0. /\ writes # <<>> /\ up
        /\ UNCHANGED <<process, up, generation, events, sequence, writes,
                       log, job, lost>>
    BY DEF StoreInv, Idle, WriteGeneration, WriteFails, memory, files
  <1>1. StoreTypeOK'
    BY <1>0, StoreAssumption
    DEF StoreInv, StoreTypeOK, Running, WriteGeneration, WriteFails, memory,
        files
  <1>2. LogNumbered'
    BY <1>0 DEF StoreInv, LogNumbered, WriteGeneration, WriteFails
  <1>3. Idle' /\ Running' /\ MemoryNumbered' /\ WrittenIsKept'
    BY <1>0 DEF StoreInv, Idle, Running, MemoryNumbered, WrittenIsKept
  <1> QED
    BY <1>1, <1>2, <1>3 DEF StoreInv

LEMMA CompactInv == ASSUME StoreInv, Compact PROVE StoreInv'
  <1>0. /\ events \in Seq(Events) /\ writes \in Seq(Events)
        /\ log \in Seq(Events) /\ sequence \in Nat /\ MaxEvents \in Nat
        /\ EndsAt(events, sequence) /\ EndsAt(writes, sequence)
        /\ up /\ writes # <<>> /\ Len(events) <= MaxEvents
        /\ Consecutive(log) /\ log # <<>> /\ log[Len(log)] = Head(writes)
        /\ writes' = Tail(writes) /\ writing' = "line"
        /\ UNCHANGED <<process, up, memory, generationFile, job, faults,
                       lost>>
    BY StoreAssumption
    DEF Compact, StoreInv, StoreTypeOK, Idle, MemoryNumbered, LogNumbered
  <1> DEFINE h == Head(writes).seq
  <1>1. /\ Head(writes) \in Events /\ h \in Nat
        /\ Tail(writes) \in Seq(Events)
        /\ Len(Tail(writes)) = Len(writes) - 1
        /\ EndsAt(Tail(writes), sequence)
        /\ h = sequence - Len(writes) + 1
    BY <1>0, HeadTailFacts, EventTypes
  <1>2. h = sequence' - Len(writes') /\ h <= sequence
    BY <1>0, <1>1 DEF memory
  <1> DEFINE short == LastOf(WrittenUpTo(h), MaxEvents)
  <1>3. log' = IF Len(log) > MaxLog THEN short ELSE log
    BY DEF Compact
  <1> HIDE DEF h
  <1>4. EndsAt(log, h) /\ \A e \in Events : InSeq(e, log) => e.seq <= h
    <2>1. LastSeq(log) = h
      BY <1>0 DEF LastSeq, h
    <2>2. EndsAt(log, h)
      BY <1>0, <2>1, ConsecutiveEnds
    <2> QED
      BY <1>0, <1>1, <2>2, InSeqBound
  <1>5. /\ short \in Seq(Events) /\ EndsAt(short, h)
        /\ \A e \in Events : InSeq(e, events) /\ e.seq <= h => InSeq(e, short)
    <2> DEFINE upTo == UpTo(events, h)
               k == CountUpTo(events, h)
    <2>1. /\ upTo \in Seq(Events) /\ Len(upTo) = k /\ EndsAt(upTo, h)
          /\ \A i \in 1..k : upTo[i] = events[i]
          /\ k \in 0..Len(events)
          /\ \A i \in 1..Len(events) : events[i].seq <= h <=> i <= k
      <3>1. h \in Int /\ sequence \in Int /\ h <= sequence
        BY <1>0, <1>1, <1>2
      <3>2. /\ upTo \in Seq(Events) /\ Len(upTo) = k
            /\ \A i \in 1..k : upTo[i] = events[i]
            /\ EndsAt(upTo, h)
        BY <1>0, <3>1, UpToFacts
      <3>3. /\ k \in 0..Len(events)
            /\ \A i \in 1..Len(events) : events[i].seq <= h <=> i <= k
        BY <1>0, <3>1, CountUpToFacts
      <3> QED
        BY <3>2, <3>3
    <2>2. short = LastOf(upTo, MaxEvents)
      BY DEF WrittenUpTo
    <2> HIDE DEF upTo, k, short
    <2>3. Len(events) \in Nat /\ k <= MaxEvents /\ DOMAIN upTo = 1..k
      BY <1>0, <2>1
    <2>4. /\ short \in Seq(Events) /\ Len(short) = k
          /\ \A i \in 1..k : short[i] = upTo[Len(upTo) - Len(short) + i]
      <3>0. upTo \in Seq(Events) /\ MaxEvents \in Nat
        BY <1>0, <2>1
      <3> DEFINE last == LastOf(upTo, MaxEvents)
      <3>1. /\ last \in Seq(Events)
            /\ Len(last) = (IF Len(upTo) < MaxEvents THEN Len(upTo)
                            ELSE MaxEvents)
            /\ \A i \in 1..Len(last) :
                 last[i] = upTo[Len(upTo) - Len(last) + i]
        BY <3>0, LastOfFacts
      <3> HIDE DEF last
      <3>2. Len(last) = k
        BY <1>0, <2>1, <2>3, <3>1
      <3> QED
        BY <2>2, <3>1, <3>2 DEF last
    <2>5. EndsAt(short, h)
      BY <1>0, <1>1, <2>1, <2>2, LastOfEnds
    <2>6. ASSUME NEW e \in Events, InSeq(e, events), e.seq <= h
          PROVE  InSeq(e, short)
      <3>1. PICK i \in 1..Len(events) : events[i] = e
        BY <1>0, <2>6, EventTypes DEF InSeq
      <3>2. i \in 1..k
        BY <2>1, <2>3, <2>6, <3>1
      <3>3. short[i] = e /\ DOMAIN short = 1..k
        BY <2>1, <2>3, <2>4, <3>1, <3>2
      <3> QED
        BY <3>2, <3>3 DEF InSeq
    <2> QED
      BY <2>4, <2>5, <2>6
  <1> HIDE DEF short
  <1>6. log' \in Seq(Events) /\ EndsAt(log', h) /\ Consecutive(log')
    BY <1>0, <1>1, <1>3, <1>4, <1>5, ConsecutiveEnds
  <1>7. LogNumbered'
    BY <1>0, <1>2, <1>6 DEF LogNumbered
  <1>8. StoreTypeOK'
    BY <1>0, <1>1, <1>6 DEF StoreInv, StoreTypeOK, memory
  <1>9. WrittenIsKept'
    <2>1. \A e \in Events :
            InSeq(e, events) => InSeq(e, writes) \/ InSeq(e, log)
      BY <1>0, KeptMeans DEF StoreInv, WrittenIsKept
    <2>2. ASSUME NEW e \in Events, InSeq(e, events)
          PROVE  InSeq(e, Tail(writes)) \/ InSeq(e, log')
      <3>1. InSeq(e, writes) <=> e = Head(writes) \/ InSeq(e, Tail(writes))
        BY <1>0, HeadTailFacts
      <3>2. Head(writes).seq <= h /\ InSeq(Head(writes), log)
        <4>1. Len(log) \in DOMAIN log
          BY <1>0
        <4> QED
          BY <1>0, <1>1, <4>1 DEF h, InSeq
      <3>3. InSeq(e, Tail(writes)) \/ (InSeq(e, log) /\ e.seq <= h)
        BY <1>4, <2>1, <2>2, <3>1, <3>2
      <3> QED
        BY <1>3, <1>5, <2>2, <3>3
    <2>3. \A i \in DOMAIN events :
            InSeq(events[i], Tail(writes)) \/ InSeq(events[i], log')
      BY <1>0, <2>2, KeptMeans
    <2> QED
      BY <1>0, <2>3 DEF WrittenIsKept, memory
  <1>10. Idle' /\ Running' /\ MemoryNumbered'
    BY <1>0, <1>1 DEF StoreInv, Idle, Running, MemoryNumbered, memory
  <1> QED
    BY <1>7, <1>8, <1>9, <1>10 DEF StoreInv

LEMMA EmptyEvents == <<>> \in Seq(Events) /\ Len(<<>>) <= MaxEvents
  BY StoreAssumption

LEMMA ProcessEndsInv == ASSUME StoreInv, ProcessEnds PROVE StoreInv'
  <1>1. StoreTypeOK'
    <2>1. job' \in [Jobs -> {"new", "running", "done", "gone"}]
      BY DEF StoreInv, StoreTypeOK, ProcessEnds
    <2>2. lost' \in BOOLEAN
      BY DEF ProcessEnds, StoreInv, StoreTypeOK
    <2> QED
      BY <2>1, <2>2, EmptyEvents
      DEF StoreInv, StoreTypeOK, ProcessEnds, files
  <1>2. Idle' /\ Running' /\ MemoryNumbered' /\ LogNumbered' /\ WrittenIsKept'
    BY DEF StoreInv, ProcessEnds, files, Idle, Running, MemoryNumbered,
       LogNumbered, WrittenIsKept, EndsAt
  <1> QED
    BY <1>1, <1>2 DEF StoreInv

\* What the start of the server reports of the jobs it finds running.
LEMMA HydrationFacts ==
    ASSUME NEW loaded
    PROVE  Hydration(loaded) \in Seq(Reports)
  <1> DEFINE stale == {j \in Jobs :
                         Reported(j, FirstOf(loaded, PageLimit)) = "running"}
  <1>1. IsFiniteSet(stale) /\ stale \in SUBSET Jobs
    BY StoreAssumption, FS_Subset
  <1>2. Cardinality(stale) \in Nat
    BY <1>1, FS_CardinalityType
  <1>3. Hydration(loaded) = IF stale = {} THEN <<>>
                            ELSE <<[j \in stale |-> "interrupted"]>>
                      \o [i \in 1..Cardinality(stale) |-> NoReport]
    BY DEF Hydration
  <1> HIDE DEF stale
  <1>4. [j \in stale |-> "interrupted"] \in Reports
    <2>1. [j \in stale |-> "interrupted"] \in [stale -> Statuses]
      BY DEF Statuses
    <2> QED
      BY <1>1, <2>1 DEF Reports
  <1>5. NoReport \in Reports
    <2>1. NoReport \in [{} -> Statuses] /\ {} \in SUBSET Jobs
      BY DEF NoReport
    <2> QED
      BY <2>1 DEF Reports
  <1>6. [i \in 1..Cardinality(stale) |-> NoReport] \in Seq(Reports)
    <2> DEFINE n == Cardinality(stale)
    <2>1. n \in Nat
      BY <1>2
    <2> HIDE DEF n
    <2>2. [i \in 1..n |-> NoReport] \in [1..n -> Reports]
      BY <1>5
    <2>3. [i \in 1..n |-> NoReport] \in Seq(Reports)
      BY <2>1, <2>2, SeqDef
    <2> QED
      BY <2>3 DEF n
  <1>7. <<[j \in stale |-> "interrupted"]>> \in Seq(Reports)
    BY <1>4
  <1>8. <<>> \in Seq(Reports)
    OBVIOUS
  <1>9. <<[j \in stale |-> "interrupted"]>>
          \o [i \in 1..Cardinality(stale) |-> NoReport] \in Seq(Reports)
    BY <1>6, <1>7, ConcatProperties
  <1> QED
    BY <1>3, <1>8, <1>9

LEMMA StartInv == ASSUME StoreInv, Start PROVE StoreInv'
  <1> DEFINE loaded == Kept(log)
             g == IF generationFile # NoGeneration THEN generationFile
                  ELSE IF loaded # <<>> THEN loaded[1].generation
                  ELSE process + 1
             new == Numbered(Hydration(loaded) \o <<NoReport>>, g,
                             LastSeq(log))
  <1>0. /\ log \in Seq(Events) /\ Consecutive(log)
        /\ LastSeq(log) \in Nat /\ EndsAt(log, LastSeq(log))
        /\ ~up /\ writing = "line"
        /\ process \in 0..MaxProcesses /\ process < MaxProcesses
    BY ConsecutiveEnds
    DEF Start, StoreInv, StoreTypeOK, Idle, LogNumbered
  <1>1. /\ up' = TRUE /\ process' = process + 1
        /\ generation' = g
        /\ events' = Kept(loaded \o new)
        /\ sequence' = LastSeq(log) + Len(new)
        /\ log' = IF Len(log) > MaxLog THEN loaded ELSE log
        /\ writes' = new
        /\ UNCHANGED <<writing, generationFile, job, faults, lost>>
    BY DEF Start
  <1>2. /\ loaded \in Seq(Events) /\ EndsAt(loaded, LastSeq(log))
        /\ \A i \in DOMAIN loaded : InSeq(loaded[i], log)
    BY <1>0, KeptFacts
  <1> HIDE DEF loaded
  <1>3. g \in Generations
    <2>1. CASE generationFile # NoGeneration
      BY <2>1 DEF StoreInv, StoreTypeOK
    <2>2. CASE generationFile = NoGeneration /\ loaded # <<>>
      <3>1. 1 \in 1..Len(loaded)
        BY <1>2, <2>2
      <3> QED
        BY <1>2, <2>2, <3>1, EventTypes
    <2>3. CASE generationFile = NoGeneration /\ loaded = <<>>
      <3>1. process + 1 \in 1..MaxProcesses
        BY <1>0, StoreAssumption
      <3> QED
        BY <2>3, <3>1 DEF Generations
    <2> QED
      BY <2>1, <2>2, <2>3
  <1> DEFINE reports == Hydration(loaded) \o <<NoReport>>
  <1>4. reports \in Seq(Reports) /\ Len(reports) \in Nat /\ Len(reports) > 0
    <2>1. NoReport \in [{} -> Statuses] /\ {} \in SUBSET Jobs
      BY DEF NoReport
    <2>2. NoReport \in Reports
      BY <2>1 DEF Reports
    <2>3. <<NoReport>> \in Seq(Reports) /\ Len(<<NoReport>>) = 1
      BY <2>2
    <2>4. /\ reports \in Seq(Reports)
          /\ Len(reports) = Len(Hydration(loaded)) + Len(<<NoReport>>)
          /\ Hydration(loaded) \in Seq(Reports)
      BY <2>3, HydrationFacts, ConcatProperties
    <2>5. Len(Hydration(loaded)) \in Nat
      BY <2>4
    <2> HIDE DEF reports
    <2> QED
      BY <2>3, <2>4, <2>5
  <1>5. new = Numbered(reports, g, LastSeq(log))
    OBVIOUS
  <1> HIDE DEF reports, g, new
  <1>6. /\ new \in Seq(Events) /\ Len(new) = Len(reports)
        /\ EndsAt(new, LastSeq(log) + Len(new))
    BY <1>0, <1>3, <1>4, <1>5, NumberedFacts
  <1> DEFINE n == LastSeq(log) + Len(new)
  <1>7. n \in Nat /\ n - Len(new) = LastSeq(log) /\ Len(new) > 0
    BY <1>0, <1>4, <1>6
  <1>8. loaded \o new \in Seq(Events) /\ loaded \o new # <<>>
    <2>1. /\ loaded \o new \in Seq(Events)
          /\ Len(loaded \o new) = Len(loaded) + Len(new)
      BY <1>2, <1>6, ConcatProperties
    <2>2. Len(loaded) + Len(new) # 0
      BY <1>2, <1>7
    <2> QED
      BY <2>1, <2>2
  <1>9. sequence' = n /\ EndsAt(new, n)
    BY <1>1, <1>6
  <1> HIDE DEF n
  <1>10. /\ events' \in Seq(Events) /\ events' # <<>>
         /\ Len(events') <= MaxEvents
         /\ EndsAt(events', n)
    <2>1. EndsAt(loaded \o new, n)
      BY <1>2, <1>6, <1>7, <1>9, ConcatEnds
    <2> DEFINE all == loaded \o new
    <2>2. all \in Seq(Events) /\ all # <<>> /\ EndsAt(all, n) /\ n \in Int
      BY <1>7, <1>8, <2>1
    <2>3. events' = Kept(all)
      BY <1>1
    <2> HIDE DEF all
    <2> QED
      BY <2>2, <2>3, KeptFacts
  <1>11. log' \in Seq(Events) /\ EndsAt(log', LastSeq(log))
    BY <1>0, <1>1, <1>2
  <1>12. StoreTypeOK'
    <2>1. process' \in 0..MaxProcesses
      BY <1>0, <1>1, StoreAssumption
    <2> QED
      BY <1>1, <1>3, <1>6, <1>7, <1>9, <1>10, <1>11, <2>1
      DEF StoreInv, StoreTypeOK
  <1>13. Idle' /\ Running' /\ MemoryNumbered'
    BY <1>1, <1>3, <1>9, <1>10 DEF Idle, Running, MemoryNumbered
  <1>14. LogNumbered'
    <2>1. sequence' - Len(writes') = LastSeq(log)
      BY <1>1, <1>7, <1>9
    <2>2. Consecutive(log')
      BY <1>0, <1>11, ConsecutiveEnds
    <2> QED
      BY <1>0, <1>1, <1>11, <2>1, <2>2 DEF LogNumbered
  <1>15. WrittenIsKept'
    <2> SUFFICES ASSUME NEW i \in DOMAIN events'
                 PROVE  InSeq(events'[i], new) \/ InSeq(events'[i], log')
      BY <1>1 DEF WrittenIsKept
    <2>1. InSeq(events'[i], loaded \o new)
      BY <1>1, <1>8, KeptFacts
    <2>2. InSeq(events'[i], loaded) \/ InSeq(events'[i], new)
      BY <1>2, <1>6, <2>1, InConcat
    <2>3. InSeq(events'[i], loaded) => InSeq(events'[i], log)
      BY <1>2 DEF InSeq
    <2> QED
      BY <1>1, <2>2, <2>3
  <1> QED
    BY <1>12, <1>13, <1>14, <1>15 DEF StoreInv

LEMMA StoreInitInv == StoreInit => StoreInv
  <1> SUFFICES ASSUME StoreInit PROVE StoreInv
    OBVIOUS
  <1>1. StoreTypeOK
    <2>1. 0 \in 0..MaxProcesses /\ 0 \in 0..MaxFaults
      BY StoreAssumption
    <2> QED
      BY <2>1, EmptyEvents DEF StoreInit, StoreTypeOK
  <1>2. Idle /\ Running /\ MemoryNumbered /\ LogNumbered /\ WrittenIsKept
    BY DEF StoreInit, Idle, Running, MemoryNumbered, LogNumbered,
       WrittenIsKept, EndsAt, Consecutive
  <1> QED
    BY <1>1, <1>2 DEF StoreInv

LEMMA StoreNextInv == StoreInv /\ [StoreNext]_storeVars => StoreInv'
  <1> SUFFICES ASSUME StoreInv, [StoreNext]_storeVars
               PROVE  StoreInv'
    OBVIOUS
  <1>1. CASE UNCHANGED storeVars
    BY <1>1
    DEF storeVars, StoreInv, StoreTypeOK, Idle, Running, MemoryNumbered,
        LogNumbered, WrittenIsKept
  <1> QED
    BY <1>1, StartInv, ProcessEndsInv, WriteLineInv, WriteGenerationInv,
       CompactInv, PublishOtherInv, JobStepInv
    DEF StoreNext, Background

LEMMA StoreInvNoHoles == StoreInv => NoHoles
  <1> SUFFICES ASSUME StoreInv, NEW s \in {log, events},
                      NEW i \in 1..(Len(s) - 1)
               PROVE  s[i + 1].seq = s[i].seq + 1
    BY DEF NoHoles
  <1>1. s \in Seq(Events) /\ Consecutive(s)
    BY ConsecutiveEnds
    DEF StoreInv, StoreTypeOK, MemoryNumbered, LogNumbered
  <1>2. i \in DOMAIN s /\ i + 1 \in DOMAIN s /\ (i + 1) - i = 1
    BY <1>1
  <1> QED
    BY <1>1, <1>2 DEF Consecutive

-----------------------------------------------------------------------------
(* What a fold of events into the view computes, by induction over their   *)
(* number: the least number of a set stands for the induction, since a     *)
(* property cannot be a parameter here.                                    *)

LEMMA LeastNumber ==
    ASSUME NEW T \in SUBSET Nat, T # {}
    PROVE  \E x \in T : \A y \in T : ~(y < x)
  <1>1. \E x \in T : \A y \in T : ~(<<y, x>> \in OpToRel(<, Nat))
    BY NatLessThanWellFounded, WFMin
  <1>2. PICK x \in T : \A y \in T : ~(<<y, x>> \in OpToRel(<, Nat))
    BY <1>1
  <1>3. ASSUME NEW y \in T PROVE ~(y < x)
    <2>1. <<y, x>> \in Nat \X Nat
      OBVIOUS
    <2>2. ~(<<y, x>> \in OpToRel(<, Nat))
      BY <1>2
    <2> QED
      BY <2>1, <2>2 DEF OpToRel
  <1> QED
    BY <1>3

LEMMA SetInduction ==
    ASSUME NEW S, 0 \in S, \A n \in Nat : n \in S => n + 1 \in S
    PROVE  Nat \subseteq S
  <1> DEFINE T == {n \in Nat : n \notin S}
  <1> SUFFICES ASSUME T # {} PROVE FALSE
    OBVIOUS
  <1>1. PICK x \in T : \A y \in T : ~(y < x)
    <2>1. T \in SUBSET Nat
      OBVIOUS
    <2> HIDE DEF T
    <2> QED
      BY <2>1, LeastNumber
  <1>2. x \in Nat /\ x # 0 /\ x - 1 \in Nat /\ x - 1 < x
    OBVIOUS
  <1>3. x - 1 \in S
    BY <1>1, <1>2
  <1> QED
    BY <1>2, <1>3

LEMMA GreatestIsMax ==
    ASSUME NEW n \in Nat, NEW T \in SUBSET (1..n), n \in T
    PROVE  Max(T) = n
  <1>1. \A y \in T : n >= y
    OBVIOUS
  <1>2. \A x \in T : (\A y \in T : x >= y) => x = n
    OBVIOUS
  <1> QED
    BY <1>1, <1>2, Zenon DEF Max

\* The fold is defined over sets of places; it exists for each of them.
FoldOver(v, some, n, iter) ==
    iter = [T \in SUBSET (1..n) |->
              IF T = {} THEN v
              ELSE OnEvent(iter[T \ {Max(T)}], some[Max(T)])]

LEMMA FoldExists ==
    ASSUME NEW v, NEW some, NEW n \in Nat
    PROVE  \E iter : FoldOver(v, some, n, iter)
  <1> DEFINE S == {k \in Nat : \E iter : FoldOver(v, some, k, iter)}
  <1>1. 0 \in S
    <2> DEFINE iter == [T \in SUBSET (1..0) |-> v]
    <2>1. FoldOver(v, some, 0, iter)
      BY DEF FoldOver
    <2> QED
      BY <2>1
  <1>2. ASSUME NEW k \in Nat, k \in S
        PROVE  k + 1 \in S
    <2>1. PICK h : FoldOver(v, some, k, h)
      BY <1>2
    <2> DEFINE g == [T \in SUBSET (1..(k + 1)) |->
                       IF k + 1 \in T
                       THEN OnEvent(h[T \ {k + 1}], some[k + 1])
                       ELSE h[T]]
    <2>2. ASSUME NEW T \in SUBSET (1..(k + 1))
          PROVE  g[T] = IF T = {} THEN v
                        ELSE OnEvent(g[T \ {Max(T)}], some[Max(T)])
      <3>1. CASE k + 1 \in T
        <4>1. Max(T) = k + 1
          BY <3>1, GreatestIsMax
        <4>2. /\ T \ {k + 1} \in SUBSET (1..(k + 1))
              /\ k + 1 \notin T \ {k + 1}
          OBVIOUS
        <4>3. g[T \ {k + 1}] = h[T \ {k + 1}]
          BY <4>2
        <4>4. g[T] = OnEvent(h[T \ {k + 1}], some[k + 1])
          BY <3>1
        <4> HIDE DEF g
        <4> QED
          BY <3>1, <4>1, <4>3, <4>4
      <3>2. CASE k + 1 \notin T
        <4>1. T \in SUBSET (1..k)
          BY <3>2
        <4>2. T \ {Max(T)} \in SUBSET (1..(k + 1))
              /\ k + 1 \notin T \ {Max(T)}
          BY <3>2
        <4>3. g[T] = h[T] /\ g[T \ {Max(T)}] = h[T \ {Max(T)}]
          BY <3>2, <4>2
        <4>4. h[T] = IF T = {} THEN v
                     ELSE OnEvent(h[T \ {Max(T)}], some[Max(T)])
          BY <2>1, <4>1, Zenon DEF FoldOver
        <4> HIDE DEF g
        <4> QED
          BY <4>3, <4>4
      <3> QED
        BY <3>1, <3>2
    <2>3. g = [T \in SUBSET (1..(k + 1)) |-> g[T]]
      OBVIOUS
    <2> HIDE DEF g
    <2>4. g = [T \in SUBSET (1..(k + 1)) |->
                 IF T = {} THEN v
                 ELSE OnEvent(g[T \ {Max(T)}], some[Max(T)])]
      BY <2>2, <2>3, Zenon
    <2>5. FoldOver(v, some, k + 1, g)
      BY <2>4 DEF FoldOver
    <2> QED
      BY <2>5
  <1> HIDE DEF S
  <1>3. Nat \subseteq S
    BY <1>1, <1>2, SetInduction
  <1> QED
    BY <1>3 DEF S

\* The views that the fold goes through.
LEMMA FoldSteps ==
    ASSUME NEW v, NEW some \in Seq(Events)
    PROVE  \E f : /\ f[0] = v
                  /\ \A i \in 1..Len(some) : f[i] = OnEvent(f[i - 1], some[i])
                  /\ FoldLeft(OnEvent, v, some) = f[Len(some)]
  <1> DEFINE iter == CHOOSE it : FoldOver(v, some, Len(some), it)
  <1>0. Len(some) \in Nat /\ DOMAIN some = 1..Len(some)
    OBVIOUS
  <1>1. FoldOver(v, some, Len(some), iter)
    BY <1>0, FoldExists
  <1>2. FoldLeft(OnEvent, v, some) = iter[1..Len(some)]
    BY <1>0, Zenon DEF FoldLeft, MapThenFoldSet, FoldOver
  <1> HIDE DEF iter
  <1> DEFINE f == [i \in 0..Len(some) |-> iter[1..i]]
  <1>3. \A T \in SUBSET (1..Len(some)) :
          iter[T] = IF T = {} THEN v
                    ELSE OnEvent(iter[T \ {Max(T)}], some[Max(T)])
    BY <1>1, Zenon DEF FoldOver
  <1>4. f[0] = v
    <2>1. 1..0 = {} /\ 0 \in 0..Len(some) /\ {} \in SUBSET (1..Len(some))
      BY <1>0
    <2> QED
      BY <1>3, <2>1
  <1>5. ASSUME NEW i \in 1..Len(some)
        PROVE  f[i] = OnEvent(f[i - 1], some[i])
    <2>1. /\ 1..i \in SUBSET (1..Len(some)) /\ i \in 1..i /\ i \in Nat
          /\ (1..i) \ {i} = 1..(i - 1)
          /\ i \in 0..Len(some) /\ i - 1 \in 0..Len(some)
      BY <1>0
    <2>2. Max(1..i) = i
      BY <2>1, GreatestIsMax
    <2>3. iter[1..i] = OnEvent(iter[1..(i - 1)], some[i])
      BY <1>3, <2>1, <2>2
    <2> QED
      BY <2>1, <2>3
  <1>6. f[Len(some)] = iter[1..Len(some)]
    BY <1>0
  <1> HIDE DEF f
  <1> QED
    BY <1>2, <1>4, <1>5, <1>6

LEMMA FoldNothing ==
    ASSUME NEW v, NEW some, some = <<>>
    PROVE  FoldLeft(OnEvent, v, some) = v
  <1>1. some \in Seq(Events) /\ Len(some) = 0
    BY EmptyEvents
  <1>2. PICK f : /\ f[0] = v
                 /\ \A i \in 1..Len(some) : f[i] = OnEvent(f[i - 1], some[i])
                 /\ FoldLeft(OnEvent, v, some) = f[Len(some)]
    BY <1>1, FoldSteps
  <1>3. FoldLeft(OnEvent, v, some) = f[0]
    BY <1>1, <1>2
  <1> QED
    BY <1>2, <1>3

\* A set of views that no event leaves holds the view after all of them.
LEMMA FoldStays ==
    ASSUME NEW V, NEW v \in V, NEW some \in Seq(Events),
           \A w \in V, i \in 1..Len(some) : OnEvent(w, some[i]) \in V
    PROVE  FoldLeft(OnEvent, v, some) \in V
  <1>1. PICK f : /\ f[0] = v
                 /\ \A i \in 1..Len(some) : f[i] = OnEvent(f[i - 1], some[i])
                 /\ FoldLeft(OnEvent, v, some) = f[Len(some)]
    BY FoldSteps
  <1> DEFINE S == {i \in Nat : i <= Len(some) => f[i] \in V}
  <1>2. 0 \in S
    BY <1>1
  <1>3. ASSUME NEW i \in Nat, i \in S PROVE i + 1 \in S
    <2> SUFFICES ASSUME i + 1 <= Len(some) PROVE f[i + 1] \in V
      OBVIOUS
    <2>1. i + 1 \in 1..Len(some) /\ (i + 1) - 1 = i /\ i <= Len(some)
      OBVIOUS
    <2>2. f[i] \in V
      BY <1>3, <2>1
    <2> QED
      BY <1>1, <2>1, <2>2
  <1> HIDE DEF S
  <1>4. Nat \subseteq S
    BY <1>2, <1>3, SetInduction
  <1>5. Len(some) \in S
    BY <1>4
  <1> QED
    BY <1>1, <1>5 DEF S

-----------------------------------------------------------------------------
(* The client: its types, and that no loss is silent. *)

Views == [sse : {"idle", "connecting", "reconnecting", "catching-up",
                 "live", "gap", "reset"},
          cursor : Cursors, told : BOOLEAN]

Clients == [at : Places, cursor : Cursors]

Frames == [reset : {TRUE}, generation : Generations]
            \union [reset : {FALSE}, event : Events]

ClientTyped ==
    /\ relayed \in BOOLEAN
    /\ conn \in {"none", "open", "broken"}
    /\ frames \in Seq(Frames)
    /\ client \in Clients
    /\ view \in Views
    /\ saved \in Cursors
    /\ delivered \in Seq(Events)
    /\ base \in Cursors
    /\ mixed \in BOOLEAN
    /\ drops \in 0..MaxDrops

\* An event is in hand while the client asks for those before it.
CatchesUp == client.at = "catchUp" => frames # <<>> /\ ~Head(frames).reset

\* Every number after the base is among the events, up to a view's cursor,
\* unless the view has told of a loss.
Covers(some, b, w) ==
    ~w.told =>
        \A n \in (b.seq + 1)..w.cursor.seq :
            \E i \in DOMAIN some :
                Cursor(some[i].generation, some[i].seq)
                  = Cursor(w.cursor.generation, n)

StreamInv ==
    StoreInv /\ ClientTyped /\ CatchesUp /\ Covers(delivered, base, view)

LEMMA CursorTypes ==
    /\ \A g \in Generations, n \in Nat : Cursor(g, n) \in Cursors
    /\ NoCursor \in Cursors
    /\ \A c \in Cursors : c.seq \in Nat
    /\ \A c \in Cursors, n \in Nat : [c EXCEPT !.seq = n] \in Cursors
  BY DEF Cursor, Cursors, NoCursor

LEMMA FrameTypes ==
    /\ \A g \in Generations : Reset(g) \in Frames
    /\ \A e \in Events : EventFrame(e) \in Frames
    /\ \A f \in Frames : IF f.reset THEN f.generation \in Generations
                         ELSE f.event \in Events
    /\ \A f \in Frames : IsFrame(f)
  BY DEF Reset, EventFrame, Frames, IsFrame

LEMMA OnEventType ==
    ASSUME NEW v \in Views, NEW e \in Events
    PROVE  /\ OnEvent(v, e) \in Views
           /\ ~OnEvent(v, e).told
                => /\ ~v.told
                   /\ OnEvent(v, e).cursor.generation = v.cursor.generation
                   /\ \/ OnEvent(v, e) = v
                      \/ /\ e.generation = v.cursor.generation
                         /\ e.seq = v.cursor.seq + 1
                         /\ OnEvent(v, e).cursor.seq = e.seq
  <1>1. /\ e.seq \in Nat /\ e.generation \in Generations
        /\ v.cursor.seq \in Nat /\ v.told \in BOOLEAN
        /\ Cursor(e.generation, e.seq) \in Cursors
    BY EventTypes, CursorTypes DEF Views
  <1> DEFINE c == Cursor(e.generation, e.seq)
  <1>2. /\ c \in Cursors /\ c.generation = e.generation /\ c.seq = e.seq
    BY <1>1 DEF Cursor
  <1>3. CASE e.generation # v.cursor.generation
    <2>1. OnEvent(v, e) = [sse |-> "reset", cursor |-> c, told |-> TRUE]
      BY <1>3 DEF OnEvent
    <2> HIDE DEF c
    <2> QED
      BY <1>2, <2>1 DEF Views
  <1>4. CASE e.generation = v.cursor.generation /\ e.seq <= v.cursor.seq
    BY <1>4 DEF OnEvent
  <1>5. CASE e.generation = v.cursor.generation /\ ~(e.seq <= v.cursor.seq)
    <2>1. OnEvent(v, e) = [sse |-> "live", cursor |-> c,
                           told |-> v.told \/ Skips(v, e)]
      BY <1>5 DEF OnEvent
    <2>2. (v.told \/ Skips(v, e)) \in BOOLEAN
      BY <1>1 DEF Skips
    <2>3. ~Skips(v, e) => e.seq = v.cursor.seq + 1
      BY <1>1, <1>5 DEF Skips
    <2> HIDE DEF c
    <2>4. OnEvent(v, e) \in Views
      BY <1>2, <2>1, <2>2 DEF Views
    <2>5. /\ OnEvent(v, e).told = (v.told \/ Skips(v, e))
          /\ OnEvent(v, e).cursor = c
      BY <2>1
    <2> QED
      BY <1>1, <1>2, <1>5, <2>3, <2>4, <2>5
  <1> QED
    BY <1>3, <1>4, <1>5

LEMMA DeliverFacts ==
    ASSUME view \in Views, saved \in Cursors, delivered \in Seq(Events),
           base \in Cursors, Covers(delivered, base, view),
           NEW some \in Seq(Events), Deliver(some), base' = base
    PROVE  /\ view' \in Views /\ saved' \in Cursors
           /\ delivered' \in Seq(Events)
           /\ Covers(delivered', base', view')
  <1>1. /\ view' = FoldLeft(OnEvent, view, some)
        /\ delivered' = delivered \o some
        /\ saved' = IF some = <<>> THEN saved
                    ELSE Cursor(Last(some).generation, Last(some).seq)
    BY DEF Deliver
  <1>2. /\ delivered' \in Seq(Events)
        /\ Len(delivered') = Len(delivered) + Len(some)
        /\ \A i \in 1..(Len(delivered) + Len(some)) :
             delivered'[i] = IF i <= Len(delivered) THEN delivered[i]
                             ELSE some[i - Len(delivered)]
    BY <1>1, ConcatProperties
  <1>3. saved' \in Cursors
    <2> SUFFICES ASSUME some # <<>>
                 PROVE  Cursor(Last(some).generation, Last(some).seq)
                          \in Cursors
      BY <1>1
    <2>1. Last(some) = some[Len(some)] /\ Len(some) \in 1..Len(some)
      BY DEF Last
    <2> QED
      BY <2>1, EventTypes, CursorTypes
  <1> DEFINE V == {w \in Views : Covers(delivered', base, w)}
  <1>4. view \in V
    <2> SUFFICES ASSUME ~view.told, NEW n \in (base.seq + 1)..view.cursor.seq
                 PROVE  \E i \in DOMAIN delivered' :
                          Cursor(delivered'[i].generation, delivered'[i].seq)
                            = Cursor(view.cursor.generation, n)
      BY DEF Covers
    <2>1. PICK i \in 1..Len(delivered) :
            Cursor(delivered[i].generation, delivered[i].seq)
              = Cursor(view.cursor.generation, n)
      BY DEF Covers
    <2>2. i \in 1..Len(delivered') /\ delivered'[i] = delivered[i]
      BY <1>2
    <2> QED
      BY <1>2, <2>1, <2>2
  <1>5. ASSUME NEW w \in V, NEW k \in 1..Len(some)
        PROVE  OnEvent(w, some[k]) \in V
    <2> DEFINE e == some[k]
               u == OnEvent(w, e)
    <2>1. e \in Events /\ w \in Views
      OBVIOUS
    <2>2. u \in Views
      BY <2>1, OnEventType
    <2>3. ASSUME ~u.told, NEW n \in (base.seq + 1)..u.cursor.seq
          PROVE  \E i \in DOMAIN delivered' :
                   Cursor(delivered'[i].generation, delivered'[i].seq)
                     = Cursor(u.cursor.generation, n)
      <3>1. /\ ~w.told /\ u.cursor.generation = w.cursor.generation
            /\ \/ u = w
               \/ /\ e.generation = w.cursor.generation
                  /\ e.seq = w.cursor.seq + 1
                  /\ u.cursor.seq = e.seq
        BY <2>1, <2>3, OnEventType
      <3>2. CASE n \in (base.seq + 1)..w.cursor.seq
        <4>1. Covers(delivered', base, w)
          OBVIOUS
        <4> QED
          BY <3>1, <3>2, <4>1 DEF Covers
      <3>3. CASE n \notin (base.seq + 1)..w.cursor.seq
        <4>1. /\ w.cursor.seq \in Nat /\ base.seq \in Nat
              /\ e.seq \in Nat /\ n \in Int
          BY <2>1, CursorTypes, EventTypes DEF Views
        <4>2. n = e.seq /\ e.generation = u.cursor.generation
          <5>1. ~(n <= w.cursor.seq) /\ n <= u.cursor.seq
            BY <2>3, <3>3, <4>1
          <5> HIDE DEF u, e
          <5> QED
            BY <3>1, <4>1, <5>1
        <4>3. /\ Len(delivered) + k \in 1..Len(delivered')
              /\ ~(Len(delivered) + k <= Len(delivered))
              /\ (Len(delivered) + k) - Len(delivered) = k
          BY <1>2
        <4>4. delivered'[Len(delivered) + k] = e
          BY <1>2, <4>3
        <4>5. Len(delivered) + k \in DOMAIN delivered'
          BY <1>2, <4>3
        <4> HIDE DEF u, e
        <4> QED
          BY <4>2, <4>4, <4>5
      <3> QED
        BY <3>2, <3>3
    <2> QED
      BY <2>2, <2>3 DEF Covers
  <1> HIDE DEF V
  <1>6. view' \in V
    BY <1>1, <1>4, <1>5, FoldStays
  <1>7. view' \in Views /\ Covers(delivered', base, view')
    BY <1>6 DEF V
  <1> QED
    BY <1>2, <1>3, <1>7

ClientInv == ClientTyped /\ CatchesUp /\ Covers(delivered, base, view)

LEMMA ClientTypes ==
    /\ \A a \in Places, c \in Cursors :
         [at |-> a, cursor |-> c] \in Clients
    /\ \A x \in Clients, a \in Places :
         /\ [x EXCEPT !.at = a] \in Clients
         /\ [x EXCEPT !.at = a].at = a
         /\ x.cursor \in Cursors
    /\ \A x \in Clients, c \in Cursors :
         /\ [x EXCEPT !.cursor = c] \in Clients
         /\ [x EXCEPT !.cursor = c].at = x.at
  BY DEF Clients

LEMMA FirstOfEnds ==
    ASSUME NEW s \in Seq(Events), NEW n \in Int, EndsAt(s, n), NEW m \in Nat
    PROVE  \E k \in Int : EndsAt(FirstOf(s, m), k)
  <1> DEFINE t == FirstOf(s, m)
             k == n - Len(s) + Len(t)
  <1>1. Len(s) \in Nat /\ DOMAIN s = 1..Len(s)
    OBVIOUS
  <1>2. /\ t \in Seq(Events) /\ Len(t) \in 0..Len(s) /\ DOMAIN t = 1..Len(t)
        /\ \A i \in 1..Len(t) : t[i] = s[i]
    BY <1>1, FirstOfFacts
  <1> HIDE DEF t
  <1>3. k \in Int /\ \A i \in 1..Len(t) : t[i].seq = k - Len(t) + i
    BY <1>1, <1>2 DEF EndsAt
  <1> HIDE DEF k
  <1> QED
    BY <1>2, <1>3 DEF EndsAt, t

\* A page of events, and what of it a cursor has not passed.
LEMMA PageFacts ==
    ASSUME StoreInv, NEW after \in Nat, NEW n \in Nat
    PROVE  /\ List(after) \in Seq(Events)
           /\ NewTo(List(after), n) \in Seq(Events)
  <1>1. /\ events \in Seq(Events) /\ sequence \in Int
        /\ EndsAt(events, sequence) /\ PageLimit \in Nat
        /\ after \in Int /\ n \in Int
    BY StoreAssumption DEF StoreInv, StoreTypeOK, MemoryNumbered
  <1> DEFINE s == Beyond(events, after)
  <1>2. s \in Seq(Events) /\ EndsAt(s, sequence)
    BY <1>1, BeyondFacts
  <1>3. List(after) = FirstOf(s, PageLimit)
    BY DEF List
  <1> HIDE DEF s
  <1>4. List(after) \in Seq(Events)
    BY <1>1, <1>2, <1>3, FirstOfFacts
  <1>5. PICK k \in Int : EndsAt(List(after), k)
    BY <1>1, <1>2, <1>3, FirstOfEnds
  <1> QED
    BY <1>1, <1>4, <1>5, BeyondFacts DEF NewTo

LEMMA OneNewFacts ==
    ASSUME NEW e \in Events, NEW n \in Nat
    PROVE  NewTo(<<e>>, n) \in Seq(Events)
  <1>1. <<e>> \in Seq(Events) /\ e.seq \in Int /\ n \in Int
    BY EventTypes
  <1>2. EndsAt(<<e>>, e.seq)
    BY <1>1 DEF EndsAt
  <1> QED
    BY <1>1, <1>2, BeyondFacts DEF NewTo

LEMMA AfterType ==
    ASSUME NEW c \in Cursors, NEW some \in Seq(Events)
    PROVE  After(c, some) \in Cursors
  <1>1. CASE some = <<>>
    BY <1>1 DEF After
  <1>2. CASE some # <<>>
    <2>1. Last(some) = some[Len(some)] /\ Len(some) \in 1..Len(some)
      BY <1>2 DEF Last
    <2>2. Last(some).seq \in Nat
      BY <2>1, EventTypes
    <2> QED
      BY <1>2, <2>2, CursorTypes DEF After
  <1> QED
    BY <1>1, <1>2

LEMMA RunningTypes ==
    ASSUME StoreInv, up
    PROVE  /\ generation \in Generations /\ sequence \in Nat
           /\ Cursor(generation, sequence) \in Cursors
           /\ \A n \in Nat : Cursor(generation, n) \in Cursors
           /\ Reset(generation) \in Frames
  BY CursorTypes, FrameTypes DEF StoreInv, StoreTypeOK, Running

\* With an empty stretch from the base on there is nothing to cover.
LEMMA NothingToCover ==
    ASSUME NEW some, NEW b \in Cursors, NEW w, w.cursor = b
    PROVE  Covers(some, b, w)
  <1>1. b.seq \in Nat
    BY CursorTypes
  <1> QED
    BY <1>1 DEF Covers

LEMMA PageSteps ==
    ASSUME StreamInv, Connect \/ Snapshot \/ ConnectFails \/ Reload
    PROVE  ClientInv'
  <1>0. /\ ClientTyped /\ CatchesUp /\ Covers(delivered, base, view)
        /\ StoreInv /\ <<>> \in Seq(Frames) /\ <<>> \in Seq(Events)
        /\ {"off", "asking", "poll", "dial"} \subseteq Places
    BY DEF StreamInv, Places
  <1>1. CASE Connect
    <2>1. /\ view' \in Views /\ view'.cursor = view.cursor
          /\ view'.told = view.told
      BY <1>0, <1>1 DEF ClientTyped, Views, Connect, Connecting
    <2>2. client' \in Clients /\ client'.at = "asking"
      BY <1>0, <1>1, ClientTypes DEF ClientTyped, Connect
    <2>3. UNCHANGED <<conn, frames, saved, delivered, base, others>>
      BY <1>1 DEF Connect
    <2>4. Covers(delivered', base', view')
      BY <1>0, <2>1, <2>3 DEF Covers
    <2> QED
      BY <1>0, <2>1, <2>2, <2>3, <2>4
      DEF ClientInv, ClientTyped, CatchesUp, others
  <1>2. CASE Snapshot
    <2>1. /\ Cursor(generation, sequence) \in Cursors
          /\ saved' = Cursor(generation, sequence) /\ base' = saved'
          /\ delivered' = <<>>
          /\ UNCHANGED <<conn, frames, others>>
      BY <1>0, <1>2, RunningTypes DEF Snapshot
    <2>2. view' \in Views /\ view'.cursor = saved'
      BY <1>2, <2>1 DEF Snapshot, OnSnapshot, Views
    <2>3. client' \in Clients /\ client'.at # "catchUp"
      <3>1. client' \in {[at |-> a, cursor |-> saved']
                            : a \in {"poll", "dial"}}
        BY <1>2 DEF Snapshot
      <3> QED
        BY <1>0, <2>1, <3>1, ClientTypes
    <2>4. Covers(delivered', base', view')
      BY <2>1, <2>2, NothingToCover
    <2> QED
      BY <1>0, <2>1, <2>2, <2>3, <2>4
      DEF ClientInv, ClientTyped, CatchesUp, others
  <1>3. CASE ConnectFails
    <2>1. /\ view' \in Views /\ view'.cursor = view.cursor
          /\ view'.told = view.told
      BY <1>0, <1>3 DEF ClientTyped, Views, ConnectFails
    <2>2. client' \in Clients /\ client'.at = "off"
      BY <1>0, <1>3, ClientTypes DEF ClientTyped, ConnectFails
    <2>3. UNCHANGED <<conn, frames, saved, delivered, base, others>>
      BY <1>3 DEF ConnectFails
    <2>4. Covers(delivered', base', view')
      BY <1>0, <2>1, <2>3 DEF Covers
    <2> QED
      BY <1>0, <2>1, <2>2, <2>3, <2>4
      DEF ClientInv, ClientTyped, CatchesUp, others
  <1>4. CASE Reload
    <2>1. /\ conn' = "none" /\ frames' = <<>> /\ base' = saved
          /\ delivered' = <<>> /\ UNCHANGED <<saved, others>>
          /\ view' = [sse |-> "idle", cursor |-> saved, told |-> FALSE]
          /\ client' = [at |-> "off", cursor |-> NoCursor]
      BY <1>4 DEF Reload
    <2>2. saved \in Cursors
      BY <1>0 DEF ClientTyped
    <2>3. view' \in Views /\ view'.cursor = saved
      BY <2>1, <2>2 DEF Views
    <2>4. client' \in Clients /\ client'.at = "off"
      BY <1>0, <2>1, ClientTypes, CursorTypes
    <2>5. Covers(delivered', base', view')
      BY <2>1, <2>2, <2>3, NothingToCover
    <2> QED
      BY <1>0, <2>1, <2>2, <2>3, <2>4, <2>5
      DEF ClientInv, ClientTyped, CatchesUp, others
  <1> QED
    BY <1>1, <1>2, <1>3, <1>4

\* A delivery keeps the types and the cover; the rest of the client's step
\* decides what it does to the cursor and the frames.
LEMMA DeliveringStep ==
    ASSUME ClientTyped, Covers(delivered, base, view),
           NEW some \in Seq(Events), Deliver(some),
           base' = base, conn' = conn, drops' = drops, relayed' = relayed,
           mixed' \in BOOLEAN,
           frames' \in Seq(Frames), client' \in Clients,
           client'.at # "catchUp"
    PROVE  ClientInv'
  <1>1. /\ view' \in Views /\ saved' \in Cursors
        /\ delivered' \in Seq(Events) /\ Covers(delivered', base', view')
    BY DeliverFacts DEF ClientTyped
  <1> QED
    BY <1>1 DEF ClientInv, ClientTyped, CatchesUp

LEMMA FrameFacts ==
    ASSUME frames \in Seq(Frames), frames # <<>>
    PROVE  /\ Head(frames) \in Frames
           /\ Tail(frames) \in Seq(Frames)
           /\ Head(frames).reset => Head(frames).generation \in Generations
           /\ ~Head(frames).reset => Head(frames).event \in Events
  <1>1. Head(frames) \in Frames /\ Tail(frames) \in Seq(Frames)
    BY HeadTailProperties
  <1>2. IF Head(frames).reset THEN Head(frames).generation \in Generations
        ELSE Head(frames).event \in Events
    BY <1>1, FrameTypes
  <1> QED
    BY <1>1, <1>2

LEMMA ClientFacts ==
    ASSUME ClientTyped
    PROVE  /\ client \in Clients /\ client.cursor \in Cursors
           /\ client.cursor.seq \in Nat /\ mixed \in BOOLEAN
           /\ frames \in Seq(Frames)
  <1>1. client \in Clients /\ mixed \in BOOLEAN /\ frames \in Seq(Frames)
    BY DEF ClientTyped
  <1>2. client.cursor \in Cursors
    BY <1>1 DEF Clients
  <1>3. client.cursor.seq \in Nat
    BY <1>2, CursorTypes
  <1> QED
    BY <1>1, <1>2, <1>3

LEMMA ReadEventStep == ASSUME StreamInv, ReadEvent PROVE ClientInv'
  <1>0. /\ ClientTyped /\ Covers(delivered, base, view)
        /\ client \in Clients /\ client.cursor \in Cursors
        /\ client.cursor.seq \in Nat /\ mixed \in BOOLEAN
    BY ClientFacts DEF StreamInv
  <1> DEFINE e == Head(frames).event
             some == NewTo(<<e>>, client.cursor.seq)
  <1>1. e \in Events /\ Tail(frames) \in Seq(Frames)
    BY <1>0, FrameFacts DEF ReadEvent, ClientTyped
  <1>2. some \in Seq(Events)
    BY <1>0, <1>1, OneNewFacts
  <1>3. /\ Deliver(some) /\ frames' = Tail(frames)
        /\ client' = [client EXCEPT !.cursor = After(client.cursor, some)]
        /\ UNCHANGED <<conn, base, others>> /\ client.at = "read"
    BY DEF ReadEvent
  <1> HIDE DEF some, e
  <1>4. client' \in Clients /\ client'.at = "read"
    BY <1>0, <1>2, <1>3, AfterType, ClientTypes
  <1> QED
    BY <1>0, <1>1, <1>2, <1>3, <1>4, DeliveringStep DEF others

LEMMA ResetPageStep == ASSUME StreamInv, ResetPage PROVE ClientInv'
  <1>0. /\ ClientTyped /\ Covers(delivered, base, view) /\ StoreInv
        /\ client \in Clients /\ client.cursor \in Cursors
        /\ client.cursor.seq \in Nat /\ frames \in Seq(Frames)
        /\ "read" \in Places
    BY ClientFacts DEF StreamInv, Places
  <1> DEFINE some == NewTo(List(client.cursor.seq), client.cursor.seq)
  <1>1. some \in Seq(Events)
    BY <1>0, PageFacts
  <1>2. /\ Deliver(some)
        /\ client' = [at |-> "read", cursor |-> After(client.cursor, some)]
        /\ UNCHANGED <<conn, frames, base, relayed, drops>>
        /\ mixed' = (mixed \/ generation # client.cursor.generation)
    BY DEF ResetPage
  <1> HIDE DEF some
  <1>3. client' \in Clients /\ client'.at = "read"
    BY <1>0, <1>1, <1>2, AfterType, ClientTypes
  <1>4. mixed' \in BOOLEAN
    BY <1>2, <1>0 DEF ClientTyped
  <1> QED
    BY <1>0, <1>1, <1>2, <1>3, <1>4, DeliveringStep

LEMMA CatchUpStep == ASSUME StreamInv, CatchUp PROVE ClientInv'
  <1>0. /\ ClientTyped /\ Covers(delivered, base, view) /\ StoreInv
        /\ client \in Clients /\ client.cursor \in Cursors
        /\ client.cursor.seq \in Nat /\ mixed \in BOOLEAN
        /\ "read" \in Places /\ up
        /\ frames \in Seq(Frames) /\ frames # <<>> /\ ~Head(frames).reset
    BY ClientFacts DEF StreamInv, Places, CatchesUp, CatchUp
  <1> DEFINE from == IF ResetRequired(client.cursor.seq,
                                      client.cursor.generation)
                     THEN Cursor(generation, 0) ELSE client.cursor
             missed == NewTo(List(client.cursor.seq), from.seq)
             mid == After(from, missed)
             rest == NewTo(<<Head(frames).event>>, mid.seq)
  <1>1. from \in Cursors /\ from.seq \in Nat
    <2>1. Cursor(generation, 0) \in Cursors
      BY <1>0, RunningTypes
    <2>2. from \in Cursors
      BY <1>0, <2>1
    <2> HIDE DEF from
    <2> QED
      BY <2>2, CursorTypes
  <1>2. /\ Deliver(missed \o rest) /\ frames' = Tail(frames)
        /\ client' = [at |-> "read", cursor |-> After(from, missed \o rest)]
        /\ UNCHANGED <<conn, base, others>>
    BY DEF CatchUp
  <1> HIDE DEF from
  <1>3. missed \in Seq(Events)
    BY <1>0, <1>1, PageFacts
  <1> HIDE DEF missed
  <1>4. mid \in Cursors /\ mid.seq \in Nat
    BY <1>1, <1>3, AfterType, CursorTypes
  <1> HIDE DEF mid
  <1>5. /\ Head(frames).event \in Events /\ Tail(frames) \in Seq(Frames)
    BY <1>0, FrameFacts
  <1>6. rest \in Seq(Events)
    BY <1>4, <1>5, OneNewFacts
  <1> HIDE DEF rest
  <1>7. missed \o rest \in Seq(Events)
    BY <1>3, <1>6
  <1> DEFINE all == missed \o rest
  <1>8. all \in Seq(Events) /\ Deliver(all)
    BY <1>2, <1>7
  <1>9. client' = [at |-> "read", cursor |-> After(from, all)]
    BY <1>2
  <1> HIDE DEF all
  <1>10. client' \in Clients /\ client'.at = "read"
    BY <1>0, <1>1, <1>8, <1>9, AfterType, ClientTypes
  <1>11. UNCHANGED <<conn, base, drops, relayed, mixed>>
    BY <1>2 DEF others
  <1>12. /\ frames' \in Seq(Frames) /\ mixed' \in BOOLEAN
         /\ client'.at # "catchUp"
    BY <1>0, <1>2, <1>5, <1>10, <1>11
  <1> QED
    BY <1>0, <1>8, <1>10, <1>11, <1>12, DeliveringStep

LEMMA PollStep == ASSUME StreamInv, Poll PROVE ClientInv'
  <1>0. /\ ClientTyped /\ Covers(delivered, base, view) /\ StoreInv
        /\ client \in Clients /\ client.cursor \in Cursors
        /\ client.cursor.seq \in Nat /\ frames \in Seq(Frames)
        /\ mixed \in BOOLEAN /\ up
    BY ClientFacts DEF StreamInv, Poll
  <1> DEFINE some == NewTo(List(client.cursor.seq), client.cursor.seq)
             from == Cursor(generation, client.cursor.seq)
  <1>1. some \in Seq(Events)
    BY <1>0, PageFacts
  <1>2. from \in Cursors
    BY <1>0, RunningTypes
  <1>3. /\ Deliver(some)
        /\ client' = [client EXCEPT !.cursor = After(from, some)]
        /\ UNCHANGED <<conn, frames, base, others>> /\ client.at = "poll"
    BY DEF Poll
  <1> HIDE DEF some, from
  <1>4. client' \in Clients /\ client'.at = "poll"
    BY <1>0, <1>1, <1>2, <1>3, AfterType, ClientTypes
  <1> QED
    BY <1>0, <1>1, <1>3, <1>4, DeliveringStep DEF others

LEMMA EventFramesType ==
    ASSUME NEW some \in Seq(Events)
    PROVE  EventFrames(some) \in Seq(Frames)
  <1>1. Len(some) \in Nat /\ DOMAIN some = 1..Len(some)
    OBVIOUS
  <1>2. \A i \in 1..Len(some) : EventFrame(some[i]) \in Frames
    BY FrameTypes
  <1>3. EventFrames(some) = [i \in 1..Len(some) |-> EventFrame(some[i])]
    BY <1>1 DEF EventFrames
  <1>4. EventFrames(some) \in [1..Len(some) -> Frames]
    BY <1>2, <1>3
  <1> QED
    BY <1>1, <1>4, SeqDef

\* Steps of the client that deliver nothing.
LEMMA OtherStreamSteps ==
    ASSUME StreamInv, Dial \/ ReadReset \/ ReadGap \/ Redial
    PROVE  ClientInv'
  <1>0. /\ ClientTyped /\ Covers(delivered, base, view) /\ StoreInv
        /\ client \in Clients /\ client.cursor \in Cursors
        /\ client.cursor.seq \in Nat /\ frames \in Seq(Frames)
        /\ {"read", "reset", "catchUp", "dial"} \subseteq Places
    BY ClientFacts DEF StreamInv, Places
  <1>1. UNCHANGED <<page, others>>
    BY DEF Dial, ReadReset, ReadGap, Redial
  <1>2. ASSUME frames' \in Seq(Frames), client' \in Clients, CatchesUp',
               conn' \in {"none", "open", "broken"}
        PROVE  ClientInv'
    BY <1>0, <1>1, <1>2 DEF ClientInv, ClientTyped, Covers, page, others
  <1>3. CASE Dial
    <2> DEFINE first == IF ResetRequired(client.cursor.seq,
                                         client.cursor.generation)
                        THEN <<Reset(generation)>> ELSE <<>>
               some == List(client.cursor.seq)
    <2>1. /\ conn' = "open" /\ frames' = first \o EventFrames(some)
          /\ client' = [client EXCEPT !.at = "read"] /\ up
      BY <1>3 DEF Dial
    <2>2. first \in Seq(Frames)
      <3>1. Reset(generation) \in Frames
        BY <1>0, <2>1, RunningTypes
      <3>2. <<Reset(generation)>> \in Seq(Frames) /\ <<>> \in Seq(Frames)
        BY <3>1
      <3> QED
        BY <3>2
    <2>3. some \in Seq(Events)
      BY <1>0, PageFacts
    <2> HIDE DEF first, some
    <2>4. frames' \in Seq(Frames)
      BY <2>1, <2>2, <2>3, EventFramesType, ConcatProperties
    <2>5. client' \in Clients /\ client'.at = "read"
      BY <1>0, <2>1, ClientTypes
    <2> QED
      BY <1>2, <2>1, <2>4, <2>5 DEF CatchesUp
  <1>4. CASE ReadReset
    <2>1. /\ frames # <<>> /\ Head(frames).reset
          /\ client' = [at |-> "reset",
                        cursor |-> Cursor(Head(frames).generation, 0)]
          /\ frames' = Tail(frames) /\ conn' = conn
      BY <1>4 DEF ReadReset
    <2>2. /\ Head(frames).generation \in Generations
          /\ Tail(frames) \in Seq(Frames)
      BY <1>0, <2>1, FrameFacts
    <2>3. Cursor(Head(frames).generation, 0) \in Cursors
      BY <2>2, CursorTypes
    <2>4. client' \in Clients /\ client'.at = "reset"
      BY <1>0, <2>1, <2>3, ClientTypes
    <2> QED
      BY <1>0, <1>2, <2>1, <2>2, <2>4 DEF CatchesUp, ClientTyped
  <1>5. CASE ReadGap
    <2>1. /\ frames # <<>> /\ ~Head(frames).reset
          /\ client' = [client EXCEPT !.at = "catchUp"]
          /\ UNCHANGED <<conn, frames>>
      BY <1>5 DEF ReadGap
    <2>2. client' \in Clients
      BY <1>0, <2>1, ClientTypes
    <2> QED
      BY <1>0, <1>2, <2>1, <2>2 DEF CatchesUp, ClientTyped
  <1>6. CASE Redial
    <2>1. /\ frames' = <<>> /\ conn' = "none"
          /\ client' = [client EXCEPT !.at = "dial"]
      BY <1>6 DEF Redial
    <2>2. client' \in Clients /\ client'.at = "dial"
      BY <1>0, <2>1, ClientTypes
    <2>3. <<>> \in Seq(Frames)
      OBVIOUS
    <2> QED
      BY <1>2, <2>1, <2>2, <2>3 DEF CatchesUp
  <1> QED
    BY <1>3, <1>4, <1>5, <1>6

\* Steps of the server and of the network, as the client sees them.
LEMMA ServerSteps ==
    ASSUME StreamInv, StoreInv',
           \/ Published(PublishOther) \/ \E j \in Jobs : Published(JobStep(j))
           \/ ServerEnds \/ Drop
           \/ (Start \/ Background) /\ UNCHANGED clientVars
    PROVE  ClientInv'
  <1>0. /\ ClientTyped /\ Covers(delivered, base, view) /\ CatchesUp
        /\ StoreInv /\ frames \in Seq(Frames)
    BY DEF StreamInv, ClientTyped
  <1>1. ASSUME UNCHANGED <<conn, client, page, others>>,
               events' # <<>>,
               frames' = IF conn = "open"
                         THEN Append(frames, EventFrame(Last(events')))
                         ELSE frames
        PROVE  ClientInv'
    <2> DEFINE last == EventFrame(Last(events'))
    <2>1. last \in Frames
      <3>1. events' \in Seq(Events)
        BY DEF StoreInv, StoreTypeOK
      <3>2. Len(events') \in 1..Len(events')
            /\ Last(events') = events'[Len(events')]
        BY <1>1, <3>1 DEF Last
      <3> QED
        BY <3>1, <3>2, EventTypes, FrameTypes
    <2> HIDE DEF last
    <2>2. /\ frames' \in Seq(Frames)
          /\ frames # <<>> => frames' # <<>> /\ Head(frames') = Head(frames)
      <3>1. CASE conn = "open"
        <4>1. frames' = Append(frames, last)
          BY <1>1, <3>1 DEF last
        <4>2. /\ frames' \in Seq(Frames) /\ frames' # <<>>
          BY <1>0, <2>1, <4>1, AppendProperties
        <4>3. frames # <<>> => Head(frames') = Head(frames)
          BY <1>0, <2>1, <4>1, HeadTailAppend
        <4> QED
          BY <4>2, <4>3
      <3>2. CASE conn # "open"
        BY <1>0, <1>1, <3>2
      <3> QED
        BY <3>1, <3>2
    <2>3. CatchesUp'
      BY <1>0, <1>1, <2>2 DEF CatchesUp
    <2> QED
      BY <1>0, <1>1, <2>2, <2>3
      DEF ClientInv, ClientTyped, Covers, page, others
  <1>2. CASE Published(PublishOther)
    <2>1. PublishOther /\ events' # <<>>
      BY <1>0, <1>2, PublishOtherInv DEF Published
    <2> QED
      BY <1>1, <1>2, <2>1 DEF Published
  <1>3. ASSUME NEW j \in Jobs, Published(JobStep(j))
        PROVE  ClientInv'
    <2>1. JobStep(j) /\ events' # <<>>
      BY <1>0, <1>3, JobStepInv DEF Published
    <2> QED
      BY <1>1, <1>3, <2>1 DEF Published
  <1>4. CASE ServerEnds \/ Drop
    <2>1. /\ UNCHANGED <<frames, client, page, relayed, mixed>>
          /\ conn' \in {conn, "broken"}
          /\ drops' \in 0..MaxDrops
      BY <1>0, <1>4, StreamAssumption
      DEF ServerEnds, Drop, ClientTyped, others
    <2> QED
      BY <1>0, <2>1 DEF ClientInv, ClientTyped, CatchesUp, Covers, page
  <1>5. CASE UNCHANGED clientVars
    BY <1>0, <1>5
    DEF ClientInv, ClientTyped, CatchesUp, Covers, clientVars, page, others
  <1> QED
    BY <1>2, <1>3, <1>4, <1>5

\* The steps of the whole, seen from the store.
LEMMA StoreOfNext == [Next]_vars => [StoreNext]_storeVars
  BY DEF Next, vars, StoreNext, Background, Connect, Snapshot, ConnectFails,
     Reload, Dial, ReadReset, ReadEvent, ReadGap, ResetPage, CatchUp, Redial,
     Poll, Published, ServerEnds, Drop

LEMMA StreamInitInv == Init => StreamInv
  <1> SUFFICES ASSUME Init PROVE StreamInv
    OBVIOUS
  <1>1. StoreInv
    BY StoreInitInv DEF Init
  <1>2. NoCursor \in Cursors /\ NoCursor.seq = 0
    BY CursorTypes DEF NoCursor, Cursor
  <1>3. ClientTyped /\ CatchesUp
    <2>1. /\ <<>> \in Seq(Frames) /\ <<>> \in Seq(Events)
          /\ 0 \in 0..MaxDrops /\ "off" \in Places
      BY StreamAssumption DEF Places
    <2>2. client \in Clients /\ client.at = "off"
      BY <1>2, <2>1, ClientTypes DEF Init
    <2>3. view \in Views
      BY <1>2 DEF Init, Views
    <2> QED
      BY <1>2, <2>1, <2>2, <2>3 DEF Init, ClientTyped, CatchesUp
  <1>4. Covers(delivered, base, view)
    BY <1>2, NothingToCover DEF Init
  <1> QED
    BY <1>1, <1>3, <1>4 DEF StreamInv

LEMMA StreamNextInv == StreamInv /\ [Next]_vars => StreamInv'
  <1> SUFFICES ASSUME StreamInv, [Next]_vars
               PROVE  StreamInv'
    OBVIOUS
  <1>1. StoreInv'
    BY StoreOfNext, StoreNextInv DEF StreamInv
  <1>2. CASE UNCHANGED vars
    <2>1. ClientInv'
      BY <1>2
      DEF StreamInv, ClientInv, ClientTyped, CatchesUp, Covers, vars,
          clientVars, page, others
    <2> QED
      BY <1>1, <2>1 DEF StreamInv, ClientInv
  <1>3. CASE Next
    <2>1. ClientInv'
      BY <1>1, <1>3, PageSteps, OtherStreamSteps, ReadEventStep,
         ResetPageStep, CatchUpStep, PollStep, ServerSteps
      DEF Next
    <2> QED
      BY <1>1, <2>1 DEF StreamInv, ClientInv
  <1> QED
    BY <1>2, <1>3

\* The types of the whole, server and client: among them that no more events
\* than MaxEvents stay in memory (append and load of DurableEventStore) and
\* that whatever the client keeps is a cursor or an event of the server.
THEOREM StreamTypeCorrect == Spec => []TypeOK
  <1>1. StreamInv => TypeOK
    <2> SUFFICES ASSUME StreamInv PROVE TypeOK
      OBVIOUS
    <2>1. \A i \in DOMAIN frames : IsFrame(frames[i])
      <3>1. frames \in Seq(Frames)
        BY DEF StreamInv, ClientTyped
      <3> QED
        BY <3>1, FrameTypes
    <2> QED
      BY <2>1
      DEF StreamInv, StoreInv, ClientTyped, TypeOK, Clients, Views
  <1> QED
    BY <1>1, StreamInitInv, StreamNextInv, PTL DEF Spec

\* The log and the memory number their events without a hole, whatever was
\* published between two steps of the write chain, wherever it failed and
\* wherever the process ended (append, load and compactIfNeeded).
THEOREM LogHasNoHoles == Spec => []NoHoles
  <1>1. StreamInv => NoHoles
    BY StoreInvNoHoles DEF StreamInv
  <1> QED
    BY <1>1, StreamInitInv, StreamNextInv, PTL DEF Spec

\* Compaction never loses an event that is in memory and has been written,
\* however many were published while the log was written (compactIfNeeded).
THEOREM CompactionKeepsWritten == Spec => []WrittenIsKept
  <1>1. StreamInv => WrittenIsKept
    BY DEF StreamInv, StoreInv
  <1> QED
    BY <1>1, StreamInitInv, StreamNextInv, PTL DEF Spec

\* The page never passes an event in silence: the cursor that it folds from
\* what the client delivers has a gap behind it only if it has shown one
\* (reduceSync and streamEvents, over either transport).
THEOREM LossIsShown == Spec => []NoSilentLoss
  <1>1. StreamInv => NoSilentLoss
    BY DEF StreamInv, Covers, NoSilentLoss
  <1> QED
    BY <1>1, StreamInitInv, StreamNextInv, PTL DEF Spec

-----------------------------------------------------------------------------
(* The generation of the server and its numbers, over its ends and starts. *)

\* The generation of the server, or the one its next start will have.
Gen == IF up THEN generation
       ELSE IF generationFile # NoGeneration THEN generationFile
       ELSE IF log # <<>> THEN log[1].generation
       ELSE process + 1

\* The last number given, and the first of the events in memory: now, or as a
\* start will find them.
Top == IF up THEN sequence ELSE LastSeq(log)
Floor == IF up THEN events[1].seq
         ELSE IF log = <<>> THEN 1 ELSE Kept(log)[1].seq

Stamped(s, g) == \A i \in 1..Len(s) : s[i].generation = g /\ s[i].seq > 0

\* Whatever is in memory, in the log or on its way there is of one generation,
\* and no later process has drawn it.
OneGeneration ==
    /\ Stamped(log, Gen) /\ Stamped(events, Gen) /\ Stamped(writes, Gen)
    /\ generationFile \in {NoGeneration, Gen}
    /\ Gen \in 1..(process + 1)
    /\ up \/ generationFile # NoGeneration \/ log # <<>> => Gen <= process

\* As long as memory is not full, it goes back as far as the log and what has
\* yet to be written.
MemoryReaches ==
    up /\ Len(events) < MaxEvents =>
        /\ log # <<>> => log[1].seq >= events[1].seq
        /\ Len(writes) <= Len(events)

StampInv == StoreInv /\ OneGeneration /\ MemoryReaches

\* The numbers go up within a generation, and generations follow each other.
Advances == \/ Gen' = Gen /\ Top' >= Top /\ Floor' >= Floor
            \/ Gen' > Gen

-----------------------------------------------------------------------------
(* Order of the events that reach the page. *)

\* What the page has got so far, as cursors.
CursorsOf(some) ==
    {Cursor(some[i].generation, some[i].seq) : i \in 1..Len(some)}

Past == {view.cursor} \union CursorsOf(delivered)

\* A client with cursor cur, whose page has got past, of a server in
\* generation g with events from floor to top: whatever the page has got of
\* this generation lies behind the cursor, or behind the memory.
CursorKnows(cur, past, g, top, floor) ==
    /\ 1 <= cur.generation /\ cur.generation <= g
    /\ \A c \in past :
         /\ c.generation <= cur.generation
         /\ c.generation = g =>
              c.seq <= top /\ (c.seq <= cur.seq \/ c.seq < floor)

Resetting(fs) == fs # <<>> /\ fs[1].reset

\* An event on the wire is of the generation the client will have when it
\* reads it, and new to the page unless the cursor has passed it.
EventFits(e, fs, cur, past, g, top) ==
    /\ e.generation <= g
    /\ e.generation = g => e.seq <= top
    /\ IF Resetting(fs)
       THEN /\ e.generation = fs[1].generation
            /\ \A c \in past : c.generation = e.generation => c.seq < e.seq
       ELSE /\ e.generation <= cur.generation
            /\ \A c \in past : c.generation = e.generation =>
                 c.seq < e.seq \/ e.seq <= cur.seq

ResetFirst(fs) == \A k \in 1..Len(fs) : fs[k].reset => k = 1

FramesInOrder(fs) ==
    \A k, l \in 1..Len(fs) :
        k < l /\ ~fs[k].reset =>
            /\ fs[k].event.generation = fs[l].event.generation
            /\ fs[k].event.seq < fs[l].event.seq

FramesFollow(fs, cur, past, g, top, floor) ==
    /\ FramesInOrder(fs)
    /\ \A k \in 1..Len(fs) :
         ~fs[k].reset => EventFits(fs[k].event, fs, cur, past, g, top)
    /\ Resetting(fs) =>
         /\ cur.generation <= fs[1].generation /\ fs[1].generation <= g
         /\ fs[1].generation = g =>
              \A c \in past : c.generation = g => c.seq < floor

\* A stream that is open is of the server's generation.
OpenFollows(fs, cur, g) ==
    /\ IF Resetting(fs) THEN fs[1].generation = g ELSE cur.generation = g
    /\ \A k \in 1..Len(fs) : ~fs[k].reset => fs[k].event.generation = g

\* What may be on the wire where the client is.
PlacesFit ==
    /\ client.at \in {"off", "asking", "dial", "poll"} =>
         conn = "none" /\ frames = <<>>
    /\ Resetting(frames) => client.at = "read"
    /\ ResetFirst(frames)
    /\ client.at = "catchUp" => frames[1].event.seq > client.cursor.seq + 1

Streams == {"dial", "read", "reset", "catchUp"}

InOrder(some) ==
    \A i, j \in 1..Len(some) :
        i < j /\ some[i].generation = some[j].generation
          => some[i].seq < some[j].seq

NothingTwice ==
    /\ client.at \in Streams =>
         CursorKnows(client.cursor, Past, Gen, Top, Floor)
    /\ FramesFollow(frames, client.cursor, Past, Gen, Top, Floor)
    /\ conn = "open" => OpenFollows(frames, client.cursor, Gen)
    /\ client.at = "poll" => \A c \in Past : c.seq <= client.cursor.seq
    /\ InOrder(delivered)
    /\ saved = view.cursor

OrderInv == /\ StreamInv /\ StampInv /\ PlacesFit
            /\ ~lost /\ ~mixed => NothingTwice

LEMMA JobReportType ==
    ASSUME NEW now
    PROVE  JobReport(now) \in Reports
  <1> DEFINE told == {k \in Jobs : now[k] \in {"running", "done"}}
  <1>1. JobReport(now) = [k \in told |-> now[k]]
    BY DEF JobReport
  <1>2. \A k \in told : now[k] \in Statuses
    BY DEF Statuses
  <1>3. told \in SUBSET Jobs
    OBVIOUS
  <1> HIDE DEF told
  <1>4. JobReport(now) \in [told -> Statuses]
    BY <1>1, <1>2
  <1> QED
    BY <1>3, <1>4 DEF Reports

LEMMA EmptyReport == NoReport \in Reports
  <1>1. NoReport \in [{} -> Statuses] /\ {} \in SUBSET Jobs
    BY DEF NoReport
  <1> QED
    BY <1>1 DEF Reports

LEMMA StampedFacts ==
    ASSUME NEW s \in Seq(Events), NEW g, Stamped(s, g)
    PROVE  /\ Stamped(Kept(s), g)
           /\ \A t \in Seq(Events) : Stamped(t, g) => Stamped(s \o t, g)
           /\ s # <<>> => /\ Stamped(Tail(s), g)
                          /\ Head(s).generation = g /\ Head(s).seq > 0
           /\ \A e \in Events :
                e.generation = g /\ e.seq > 0 => Stamped(Append(s, e), g)
  <1>0. Len(s) \in Nat
    OBVIOUS
  <1>1. Stamped(Kept(s), g)
    <2> DEFINE t == Kept(s)
    <2>1. /\ t \in Seq(Events) /\ Len(t) \in 0..Len(s)
          /\ \A i \in 1..Len(t) : t[i] = s[Len(s) - Len(t) + i]
      BY KeptFacts
    <2> HIDE DEF t
    <2>2. \A i \in 1..Len(t) : Len(s) - Len(t) + i \in 1..Len(s)
      BY <1>0, <2>1
    <2>3. Stamped(t, g)
      BY <2>1, <2>2 DEF Stamped
    <2> QED
      BY <2>3 DEF t
  <1>2. ASSUME NEW t \in Seq(Events), Stamped(t, g)
        PROVE  Stamped(s \o t, g)
    <2>1. /\ Len(t) \in Nat /\ Len(s \o t) = Len(s) + Len(t)
          /\ \A i \in 1..(Len(s) + Len(t)) :
               (s \o t)[i] = IF i <= Len(s) THEN s[i] ELSE t[i - Len(s)]
      BY ConcatProperties
    <2>2. ASSUME NEW i \in 1..(Len(s) + Len(t))
          PROVE  (s \o t)[i].generation = g /\ (s \o t)[i].seq > 0
      <3>1. CASE i <= Len(s)
        <4>1. i \in 1..Len(s)
          BY <1>0, <3>1
        <4> QED
          BY <2>1, <3>1, <4>1 DEF Stamped
      <3>2. CASE ~(i <= Len(s))
        <4>1. i - Len(s) \in 1..Len(t)
          BY <1>0, <2>1, <3>2
        <4> QED
          BY <1>2, <2>1, <3>2, <4>1 DEF Stamped
      <3> QED
        BY <3>1, <3>2
    <2> QED
      BY <2>1, <2>2 DEF Stamped
  <1>3. ASSUME s # <<>>
        PROVE  /\ Stamped(Tail(s), g)
               /\ Head(s).generation = g /\ Head(s).seq > 0
    <2>1. /\ Head(s) = s[1] /\ 1 \in 1..Len(s)
          /\ Len(Tail(s)) = Len(s) - 1
          /\ \A i \in 1..Len(Tail(s)) : Tail(s)[i] = s[i + 1]
      BY <1>3, HeadTailProperties
    <2>2. \A i \in 1..Len(Tail(s)) : i + 1 \in 1..Len(s)
      BY <1>0, <2>1
    <2> QED
      BY <2>1, <2>2 DEF Stamped
  <1>4. ASSUME NEW e \in Events, e.generation = g, e.seq > 0
        PROVE  Stamped(Append(s, e), g)
    <2>1. /\ Len(Append(s, e)) = Len(s) + 1
          /\ \A i \in 1..Len(s) : Append(s, e)[i] = s[i]
          /\ Append(s, e)[Len(s) + 1] = e
      BY AppendProperties
    <2>2. \A i \in 1..(Len(s) + 1) : i \in 1..Len(s) \/ i = Len(s) + 1
      BY <1>0
    <2> QED
      BY <1>4, <2>1, <2>2 DEF Stamped
  <1> QED
    BY <1>1, <1>2, <1>3, <1>4

LEMMA EndsMeans ==
    ASSUME NEW s \in Seq(Events), NEW n \in Int, EndsAt(s, n)
    PROVE  /\ Len(s) \in Nat
           /\ \A i \in 1..Len(s) : s[i] \in Events
                                   /\ s[i].seq = n - Len(s) + i
           /\ s # <<>> => 1 \in 1..Len(s) /\ Len(s) \in 1..Len(s)
  BY EventTypes DEF EndsAt

\* What the store has, and where the server is, in numbers.
LEMMA StampFacts ==
    ASSUME StampInv
    PROVE  /\ events \in Seq(Events) /\ writes \in Seq(Events)
           /\ log \in Seq(Events) /\ sequence \in Nat
           /\ Len(events) \in Nat /\ Len(writes) \in Nat /\ Len(log) \in Nat
           /\ Len(events) <= MaxEvents /\ MaxEvents \in Nat
           /\ EndsAt(events, sequence) /\ EndsAt(writes, sequence)
           /\ EndsAt(log, LastSeq(log)) /\ LastSeq(log) \in Nat
           /\ process \in Nat /\ generation \in Nat /\ Gen \in Nat
           /\ up \in BOOLEAN /\ lost \in BOOLEAN
           /\ up => /\ events # <<>> /\ Len(events) >= 1
                    /\ generation \in Generations /\ generation # 0
                    /\ Gen = generation /\ Top = sequence
                    /\ Floor = sequence - Len(events) + 1
                    /\ Floor > 0
           /\ ~up => /\ events = <<>> /\ writes = <<>> /\ sequence = 0
                     /\ Top = LastSeq(log)
           /\ ~up /\ log # <<>> =>
                /\ Floor = LastSeq(log) - Len(Kept(log)) + 1
                /\ Len(Kept(log)) \in 1..Len(log)
                /\ log[1].generation = Gen
           /\ ~up /\ log = <<>> => Floor = 1
  <1>1. /\ events \in Seq(Events) /\ writes \in Seq(Events)
        /\ log \in Seq(Events) /\ sequence \in Nat
        /\ Len(events) <= MaxEvents /\ MaxEvents \in Nat
        /\ EndsAt(events, sequence) /\ EndsAt(writes, sequence)
        /\ process \in Nat /\ Consecutive(log)
        /\ up \in BOOLEAN /\ lost \in BOOLEAN
        /\ generation \in Nat
    BY StoreAssumption
    DEF StampInv, StoreInv, StoreTypeOK, MemoryNumbered, LogNumbered,
        Generations, NoGeneration
  <1>2. EndsAt(log, LastSeq(log)) /\ LastSeq(log) \in Nat
    BY <1>1, ConsecutiveEnds
  <1>3. Len(events) \in Nat /\ Len(writes) \in Nat /\ Len(log) \in Nat
    BY <1>1
  <1>4. ASSUME up
        PROVE  /\ events # <<>> /\ Len(events) >= 1
               /\ generation \in Generations /\ generation # 0
               /\ Gen = generation /\ Top = sequence
               /\ Floor = sequence - Len(events) + 1
               /\ Floor > 0
    <2>1. events # <<>> /\ generation \in Generations
      BY <1>4 DEF StampInv, StoreInv, Running
    <2>2. generation # 0
      BY <2>1, StoreAssumption DEF Generations
    <2>3. Gen = generation /\ Top = sequence /\ Floor = events[1].seq
      BY <1>4 DEF Gen, Top, Floor
    <2>4. 1 \in 1..Len(events) /\ events[1].seq = sequence - Len(events) + 1
      BY <1>1, <2>1, EndsMeans
    <2>5. events[1].seq > 0
      BY <2>4 DEF StampInv, OneGeneration, Stamped
    <2> QED
      BY <1>3, <2>1, <2>2, <2>3, <2>4, <2>5
  <1>5. ~up => /\ events = <<>> /\ writes = <<>> /\ sequence = 0
               /\ Top = LastSeq(log)
    BY DEF StampInv, StoreInv, Idle, Top
  <1>6. ASSUME ~up, log # <<>>
        PROVE  /\ Floor = LastSeq(log) - Len(Kept(log)) + 1
               /\ Len(Kept(log)) \in 1..Len(log)
               /\ log[1].generation = Gen
    <2>1. Floor = Kept(log)[1].seq
      BY <1>6 DEF Floor
    <2> DEFINE t == Kept(log)
    <2>2. /\ t \in Seq(Events) /\ t # <<>> /\ EndsAt(t, LastSeq(log))
          /\ Len(t) \in 0..Len(log)
      BY <1>1, <1>2, <1>6, KeptFacts
    <2> HIDE DEF t
    <2>3. 1 \in 1..Len(t) /\ t[1].seq = LastSeq(log) - Len(t) + 1
      BY <1>2, <2>2, EndsMeans
    <2>4. Len(t) \in 1..Len(log) /\ 1 \in 1..Len(log)
      BY <1>3, <2>2, <2>3
    <2> QED
      BY <2>1, <2>3, <2>4 DEF t, StampInv, OneGeneration, Stamped
  <1>7. ~up /\ log = <<>> => Floor = 1
    BY DEF Floor
  <1>8. Gen \in Nat
    BY <1>1 DEF StampInv, OneGeneration
  <1> QED
    BY <1>1, <1>2, <1>3, <1>4, <1>5, <1>6, <1>7, <1>8

\* The same, the numbers only.
LEMMA StampNumbers ==
    ASSUME StampInv
    PROVE  /\ sequence \in Nat /\ process \in Nat /\ generation \in Nat
           /\ Len(events) \in Nat /\ Len(writes) \in Nat /\ Len(log) \in Nat
           /\ Len(events) <= MaxEvents /\ MaxEvents \in Nat
           /\ LastSeq(log) \in Nat /\ Gen \in Nat
           /\ up => /\ Len(events) >= 1 /\ Gen = generation
                    /\ Top = sequence
                    /\ Floor = sequence - Len(events) + 1 /\ Floor > 0
  BY StampFacts

LEMMA ConcatLength ==
    ASSUME NEW S, NEW s \in Seq(S), NEW t \in Seq(S)
    PROVE  /\ s \o t \in Seq(S) /\ Len(s \o t) = Len(s) + Len(t)
           /\ Len(s) \in Nat /\ Len(t) \in Nat
  BY ConcatProperties

LEMMA PublishStamps ==
    ASSUME StampInv, NEW report \in Reports, Publish(report), StoreInv'
    PROVE  /\ StampInv' /\ Gen' = Gen /\ Top' = Top + 1 /\ Floor' >= Floor
           /\ Len(events') \in 1..Len(events')
           /\ events'[Len(events')] \in Events
           /\ events'[Len(events')].seq = Top + 1
           /\ events'[Len(events')].generation = Gen
  <1> DEFINE new == Numbered(<<report>>, generation, sequence)
             all == events \o new
             seq == sequence + 1
  <1>1. /\ up /\ up' /\ events' = Kept(all)
        /\ sequence' = sequence + 1 /\ writes' = writes \o new
        /\ UNCHANGED <<process, generation, log, generationFile>>
    BY DEF Publish, files
  <1>2. events \in Seq(Events) /\ writes \in Seq(Events)
    BY StampFacts
  <1>3. EndsAt(events, sequence) /\ events # <<>>
    BY <1>1, StampFacts
  <1>4. /\ sequence \in Nat /\ seq \in Int /\ seq = sequence + 1
        /\ seq > 0
        /\ Len(events) \in Nat /\ Len(writes) \in Nat
        /\ Len(events) <= MaxEvents /\ MaxEvents \in Nat
        /\ Len(events) >= 1
        /\ Gen = generation /\ Top = sequence
        /\ Floor = sequence - Len(events) + 1 /\ Floor > 0
    BY <1>1, StampNumbers
  <1>5. generation \in Generations
    BY <1>1, StampFacts
  <1>6. /\ new \in Seq(Events) /\ Len(new) = 1
        /\ EndsAt(new, seq)
        /\ new[1].generation = generation
    <2> DEFINE reports == <<report>>
    <2>1. reports \in Seq(Reports) /\ Len(reports) = 1
      OBVIOUS
    <2> HIDE DEF reports
    <2>2. new = Numbered(reports, generation, sequence)
      BY DEF reports
    <2> HIDE DEF new
    <2>3. /\ new \in Seq(Events) /\ Len(new) = 1
          /\ EndsAt(new, sequence + 1)
          /\ \A i \in 1..Len(reports) : new[i].generation = generation
      <3>1. sequence \in Nat
        BY <1>4
      <3> QED
        BY <1>5, <2>1, <2>2, <3>1, NumberedFacts
    <2>4. 1 \in 1..Len(reports)
      BY <2>1
    <2> QED
      BY <2>3, <2>4
  <1> HIDE DEF new
  <1>7. /\ all \in Seq(Events) /\ Len(all) = Len(events) + 1
        /\ Len(writes \o new) = Len(writes) + 1
    <2>1. new \in Seq(Events) /\ Len(new) = 1
      BY <1>6
    <2> QED
      BY <1>2, <2>1, ConcatLength
  <1>8. EndsAt(all, seq)
    <2>1. seq - Len(new) = sequence
      BY <1>4, <1>6
    <2>2. EndsAt(events, seq - Len(new)) /\ seq \in Int
      BY <1>3, <1>4, <2>1
    <2>3. new \in Seq(Events) /\ EndsAt(new, seq)
      BY <1>6
    <2> HIDE DEF seq
    <2> QED
      BY <1>2, <2>2, <2>3, ConcatEnds
  <1>9. Stamped(new, generation)
    <2>1. 1 \in 1..Len(new) /\ new[1].seq = seq
      <3>1. new \in Seq(Events) /\ EndsAt(new, seq) /\ seq \in Int
        BY <1>4, <1>6
      <3> HIDE DEF seq
      <3>2. \A i \in 1..Len(new) : new[i].seq = seq - Len(new) + i
        BY <3>1, EndsMeans
      <3>3. Len(new) = 1 /\ 1 \in 1..Len(new)
        BY <1>6
      <3>4. new[1].seq = seq - 1 + 1
        BY <3>2, <3>3
      <3> QED
        BY <3>1, <3>3, <3>4
    <2>2. \A i \in 1..Len(new) : i = 1
      BY <1>6
    <2> QED
      BY <1>4, <1>6, <2>1, <2>2 DEF Stamped
  <1>10. Stamped(all, generation) /\ Stamped(writes \o new, generation)
    <2>1. Stamped(events, generation) /\ Stamped(writes, generation)
      BY <1>4 DEF StampInv, OneGeneration
    <2>2. new \in Seq(Events)
      BY <1>6
    <2> QED
      BY <1>2, <1>9, <2>1, <2>2, StampedFacts
  <1> HIDE DEF all, seq
  <1>11. /\ events' \in Seq(Events) /\ events' # <<>>
         /\ EndsAt(events', seq) /\ Stamped(events', generation)
    <2>1. all \in Seq(Events) /\ all # <<>>
      <3>1. all \in Seq(Events) /\ Len(all) # 0
        BY <1>4, <1>7
      <3> QED
        BY <3>1
    <2>2. seq \in Int
      BY <1>4
    <2> QED
      BY <1>1, <1>8, <1>10, <2>1, <2>2, KeptFacts, StampedFacts
  <1>12. Len(events') = IF Len(all) < MaxEvents THEN Len(all) ELSE MaxEvents
    <2>1. all \in Seq(Events) /\ MaxEvents \in Nat
      BY <1>4, <1>7
    <2> QED
      BY <1>1, <2>1, LastOfFacts DEF Kept
  <1>13. Gen' = Gen /\ Top' = Top + 1 /\ Floor' = events'[1].seq
    BY <1>1, <1>4 DEF Gen, Top, Floor
  <1>14. /\ 1 \in 1..Len(events') /\ Len(events') \in 1..Len(events')
         /\ \A i \in 1..Len(events') :
              /\ events'[i] \in Events
              /\ events'[i].seq = seq - Len(events') + i
    <2>1. seq \in Int
      BY <1>4
    <2> QED
      BY <1>11, <2>1, EndsMeans
  <1>15. /\ events'[1].seq = seq - Len(events') + 1
         /\ events'[Len(events')].seq = Top + 1
         /\ events'[Len(events')] \in Events
         /\ events'[Len(events')].generation = Gen
    <2>1. events'[Len(events')].seq = seq - Len(events') + Len(events')
      BY <1>14
    <2>2. Len(events') \in Nat
      BY <1>11
    <2>3. events'[Len(events')].generation = generation
      BY <1>11, <1>14 DEF Stamped
    <2> QED
      BY <1>4, <1>14, <2>1, <2>2, <2>3
  <1>16. /\ Floor' >= Floor
         /\ Len(events') < MaxEvents =>
              /\ Len(events') = Len(events) + 1 /\ Floor' = Floor
              /\ Len(events) < MaxEvents
    <2>1. Floor' = seq - Len(events') + 1
      BY <1>13, <1>15
    <2>2. /\ Len(all) = Len(events) + 1
          /\ Len(events') = IF Len(all) < MaxEvents THEN Len(all)
                            ELSE MaxEvents
      BY <1>7, <1>12
    <2>3. CASE Len(events) + 1 < MaxEvents
      <3>1. Len(events') = Len(events) + 1
        BY <2>2, <2>3
      <3> QED
        BY <1>4, <2>1, <2>3, <3>1
    <2>4. CASE ~(Len(events) + 1 < MaxEvents)
      <3>1. Len(events') = MaxEvents
        BY <2>2, <2>4
      <3> QED
        BY <1>4, <2>1, <2>4, <3>1
    <2> QED
      BY <2>3, <2>4
  <1>17. OneGeneration'
    BY <1>1, <1>4, <1>10, <1>11, <1>13 DEF StampInv, OneGeneration
  <1>18. MemoryReaches'
    <2> SUFFICES ASSUME Len(events') < MaxEvents
                 PROVE  /\ log # <<>> => log[1].seq >= events'[1].seq
                        /\ Len(writes') <= Len(events')
      BY <1>1 DEF MemoryReaches
    <2>1. /\ Len(events') = Len(events) + 1 /\ Floor' = Floor
          /\ Len(events) < MaxEvents
      BY <1>16
    <2>2. events'[1].seq = events[1].seq
      BY <1>1, <1>13, <2>1 DEF Floor
    <2>3. /\ log # <<>> => log[1].seq >= events[1].seq
          /\ Len(writes) <= Len(events)
      BY <1>1, <2>1 DEF StampInv, MemoryReaches
    <2>4. Len(writes') = Len(writes) + 1
      BY <1>1, <1>7
    <2>5. Len(writes') <= Len(events')
      BY <1>4, <2>1, <2>3, <2>4
    <2> QED
      BY <2>2, <2>3, <2>5
  <1> QED
    BY <1>13, <1>14, <1>15, <1>16, <1>17, <1>18 DEF StampInv

LEMMA WritingStamps ==
    ASSUME StampInv, WriteLine \/ WriteGeneration \/ WriteFails, StoreInv'
    PROVE  StampInv' /\ Gen' = Gen /\ Top' = Top /\ Floor' = Floor
  <1>1. /\ writes # <<>> /\ writes' = writes
        /\ UNCHANGED <<process, up, generation, events, sequence>>
        /\ \/ /\ log' = Append(log, Head(writes))
              /\ generationFile' = generationFile
              /\ writing = "line"
           \/ /\ log' = log
              /\ generationFile' \in {generationFile, generation}
    BY DEF WriteLine, WriteGeneration, WriteFails, memory, files
  <1>2. /\ events \in Seq(Events) /\ writes \in Seq(Events)
        /\ log \in Seq(Events)
        /\ sequence \in Nat /\ Len(events) \in Nat /\ Len(writes) \in Nat
        /\ EndsAt(writes, sequence) /\ up /\ generation = Gen
        /\ Floor = sequence - Len(events) + 1
    BY <1>1, StampFacts
  <1>3. Gen' = Gen /\ Top' = Top /\ Floor' = Floor
    BY <1>1, <1>2 DEF Gen, Top, Floor
  <1>4. /\ Head(writes) \in Events /\ Head(writes).generation = Gen
        /\ Head(writes).seq > 0
        /\ Head(writes).seq = sequence - Len(writes) + 1
    BY <1>1, <1>2, HeadTailFacts, StampedFacts DEF StampInv, OneGeneration
  <1>5. Stamped(log', Gen)
    <2>1. log \in Seq(Events) /\ Stamped(log, Gen)
      BY <1>2 DEF StampInv, OneGeneration
    <2>2. Stamped(Append(log, Head(writes)), Gen)
      BY <1>4, <2>1, StampedFacts
    <2> QED
      BY <1>1, <2>1, <2>2
  <1>6. OneGeneration'
    BY <1>1, <1>2, <1>3, <1>5 DEF StampInv, OneGeneration
  <1>7. MemoryReaches'
    <2> SUFFICES ASSUME Len(events) < MaxEvents, log' # <<>>
                 PROVE  log'[1].seq >= events[1].seq
      BY <1>1 DEF StampInv, MemoryReaches
    <2>1. CASE log # <<>>
      <3>1. log'[1] = log[1]
        <4>1. Append(log, Head(writes))[1] = log[1]
          BY <1>2, <1>4, <2>1, AppendProperties
        <4> QED
          BY <1>1, <4>1
      <3> QED
        BY <1>2, <2>1, <3>1 DEF StampInv, MemoryReaches
    <2>2. CASE log = <<>>
      <3>1. log'[1] = Head(writes)
        BY <1>1, <2>2
      <3>2. Len(writes) <= Len(events) /\ events[1].seq = Floor
        BY <1>2 DEF StampInv, MemoryReaches, Floor
      <3> QED
        BY <1>2, <1>4, <3>1, <3>2
    <2> QED
      BY <2>1, <2>2
  <1> QED
    BY <1>3, <1>6, <1>7 DEF StampInv

LEMMA CompactStamps ==
    ASSUME StampInv, Compact, StoreInv'
    PROVE  StampInv' /\ Gen' = Gen /\ Top' = Top /\ Floor' = Floor
  <1> DEFINE upTo == UpTo(events, Head(writes).seq)
             kept == Kept(upTo)
  <1>1. /\ writes # <<>> /\ writes' = Tail(writes)
        /\ UNCHANGED <<process, up, generation, events, sequence,
                       generationFile>>
        /\ log' \in {log, kept}
    BY DEF Compact, memory, WrittenUpTo, Kept
  <1>2. /\ events \in Seq(Events) /\ writes \in Seq(Events)
        /\ log \in Seq(Events)
        /\ sequence \in Nat /\ Len(events) \in Nat /\ Len(writes) \in Nat
        /\ EndsAt(events, sequence) /\ EndsAt(writes, sequence)
        /\ up /\ generation = Gen
    BY <1>1, StampFacts
  <1>3. Gen' = Gen /\ Top' = Top /\ Floor' = Floor
    BY <1>1, <1>2 DEF Gen, Top, Floor
  <1>4. /\ Head(writes) \in Events /\ Head(writes).seq \in Int
        /\ Tail(writes) \in Seq(Events)
        /\ Len(Tail(writes)) = Len(writes) - 1
        /\ Stamped(Tail(writes), Gen)
    BY <1>1, <1>2, HeadTailFacts, StampedFacts, EventTypes
    DEF StampInv, OneGeneration
  <1>5. /\ upTo \in Seq(Events) /\ Len(upTo) \in 0..Len(events)
        /\ \A i \in 1..Len(upTo) : upTo[i] = events[i]
    <2> DEFINE h == Head(writes).seq
               k == CountUpTo(events, h)
    <2>1. /\ events \in Seq(Events) /\ EndsAt(events, sequence)
          /\ sequence \in Int /\ h \in Int
      BY <1>2, <1>4
    <2>2. upTo = UpTo(events, h)
      OBVIOUS
    <2> HIDE DEF h, upTo
    <2>3. k \in 0..Len(events)
      BY <2>1, CountUpToFacts
    <2>4. /\ upTo \in Seq(Events) /\ Len(upTo) = k
          /\ \A i \in 1..k : upTo[i] = events[i]
      BY <2>1, <2>2, UpToFacts
    <2> QED
      BY <2>3, <2>4
  <1> HIDE DEF upTo
  <1>6. Stamped(upTo, Gen)
    <2>1. \A i \in 1..Len(upTo) : i \in 1..Len(events)
      BY <1>2, <1>5
    <2> QED
      BY <1>5, <2>1 DEF StampInv, OneGeneration, Stamped
  <1>7. /\ Stamped(kept, Gen) /\ kept \in Seq(Events)
        /\ Len(kept) \in 0..Len(upTo)
        /\ \A i \in 1..Len(kept) : kept[i] = upTo[Len(upTo) - Len(kept) + i]
    BY <1>5, <1>6, StampedFacts, KeptFacts
  <1> HIDE DEF kept
  <1>8. kept # <<>> => kept[1].seq >= events[1].seq
    <2> SUFFICES ASSUME kept # <<>> PROVE kept[1].seq >= events[1].seq
      OBVIOUS
    <2>1. 1 \in 1..Len(kept)
      BY <1>7
    <2> DEFINE i == Len(upTo) - Len(kept) + 1
    <2>2. i \in 1..Len(upTo) /\ i \in 1..Len(events) /\ 1 \in 1..Len(events)
      BY <1>2, <1>5, <1>7, <2>1
    <2>3. kept[1] = events[i]
      BY <1>5, <1>7, <2>1, <2>2
    <2> HIDE DEF i
    <2>4. /\ events[i].seq = sequence - Len(events) + i
          /\ events[1].seq = sequence - Len(events) + 1
      BY <1>2, <2>2, EndsMeans
    <2> QED
      BY <1>2, <2>2, <2>3, <2>4
  <1>9. OneGeneration'
    <2>1. Stamped(log', Gen) /\ Stamped(writes', Gen)
      BY <1>1, <1>4, <1>7 DEF StampInv, OneGeneration
    <2> QED
      BY <1>1, <1>2, <1>3, <2>1 DEF StampInv, OneGeneration
  <1>10. MemoryReaches'
    BY <1>1, <1>2, <1>4, <1>8 DEF StampInv, MemoryReaches
  <1> QED
    BY <1>3, <1>9, <1>10 DEF StampInv

LEMMA EndStamps ==
    ASSUME StampInv, ProcessEnds, StoreInv'
    PROVE  StampInv' /\ (~lost' => Advances)
  <1>1. /\ up /\ up' = FALSE /\ events' = <<>> /\ writes' = <<>>
        /\ UNCHANGED <<process, log, generationFile>>
        /\ lost' = (lost \/ /\ LastSeq(log) < sequence
                            /\ generationFile # NoGeneration \/ log # <<>>)
    BY DEF ProcessEnds, files
  <1>2. /\ log \in Seq(Events) /\ process \in Nat /\ Gen \in Nat
        /\ events \in Seq(Events) /\ sequence \in Nat
        /\ Len(events) \in Nat /\ Len(log) \in Nat
        /\ Len(events) >= 1 /\ Len(events) <= MaxEvents /\ MaxEvents \in Nat
        /\ LastSeq(log) \in Nat /\ EndsAt(log, LastSeq(log))
        /\ Gen = generation /\ Top = sequence
        /\ Floor = sequence - Len(events) + 1 /\ Floor > 0
    BY <1>1, StampFacts
  <1>3. /\ Gen' = IF generationFile # NoGeneration THEN generationFile
                  ELSE IF log # <<>> THEN log[1].generation ELSE process + 1
        /\ Top' = LastSeq(log)
        /\ Floor' = IF log = <<>> THEN 1 ELSE Kept(log)[1].seq
    BY <1>1 DEF Gen, Top, Floor
  <1>4. /\ Stamped(log, Gen) /\ generationFile \in {NoGeneration, Gen}
        /\ Gen \in 1..(process + 1) /\ Gen <= process
    BY <1>1 DEF StampInv, OneGeneration
  <1>5. generationFile # NoGeneration \/ log # <<>> => Gen' = Gen
    <2>1. log # <<>> => 1 \in 1..Len(log)
      BY <1>2
    <2> QED
      BY <1>3, <1>4, <2>1 DEF Stamped
  <1>6. OneGeneration'
    <2>1. Stamped(log, Gen')
      <3>1. CASE log = <<>>
        BY <3>1 DEF Stamped
      <3> QED
        BY <1>4, <1>5, <3>1
    <2>2. Stamped(<<>>, Gen')
      BY DEF Stamped
    <2>3. /\ generationFile \in {NoGeneration, Gen'}
          /\ Gen' \in 1..(process + 1)
          /\ generationFile # NoGeneration \/ log # <<>> => Gen' <= process
      BY <1>2, <1>3, <1>4, <1>5
    <2> QED
      BY <1>1, <2>1, <2>2, <2>3 DEF OneGeneration
  <1>7. MemoryReaches'
    BY <1>1 DEF MemoryReaches
  <1>8. ASSUME ~lost' PROVE Advances
    <2>1. CASE generationFile # NoGeneration \/ log # <<>>
      <3>1. LastSeq(log) >= sequence /\ log # <<>>
        <4>1. LastSeq(log) >= sequence
          <5>1. ~(LastSeq(log) < sequence)
            BY <1>1, <1>8, <2>1
          <5>2. LastSeq(log) \in Nat /\ sequence \in Nat
            BY StampNumbers
          <5> QED
            BY <5>1, <5>2
        <4>2. log = <<>> => LastSeq(log) = 0
          BY DEF LastSeq
        <4> QED
          <5>1. sequence \in Nat /\ sequence > 0
            <6>1. /\ sequence \in Nat /\ Len(events) \in Nat
                  /\ Len(events) >= 1
                  /\ sequence - Len(events) + 1 > 0
              BY <1>1, StampNumbers
            <6> QED
              BY <6>1
          <5> QED
            BY <4>1, <4>2, <5>1
      <3> DEFINE t == Kept(log)
      <3>2. /\ t \in Seq(Events) /\ t # <<>> /\ EndsAt(t, LastSeq(log))
            /\ Len(t) = IF Len(log) < MaxEvents THEN Len(log) ELSE MaxEvents
        BY <1>2, <3>1, KeptFacts, LastOfFacts DEF Kept
      <3>3. Floor' = t[1].seq
        BY <1>3, <3>1
      <3> HIDE DEF t
      <3>4. t[1].seq = LastSeq(log) - Len(t) + 1
        BY <1>2, <3>2, EndsMeans
      <3>5. log[1].seq = LastSeq(log) - Len(log) + 1
        BY <1>2, <3>1, EndsMeans
      <3>6. Len(events) < MaxEvents => log[1].seq >= Floor
        BY <1>1, <3>1 DEF StampInv, MemoryReaches, Floor
      <3>7. Floor' >= Floor
        BY <1>2, <3>1, <3>2, <3>3, <3>4, <3>5, <3>6
      <3> QED
        BY <1>2, <1>3, <1>5, <2>1, <3>1, <3>7 DEF Advances
    <2>2. CASE generationFile = NoGeneration /\ log = <<>>
      BY <1>2, <1>3, <1>4, <2>2 DEF Advances
    <2> QED
      BY <2>1, <2>2
  <1> QED
    BY <1>6, <1>7, <1>8 DEF StampInv

LEMMA StartStamps ==
    ASSUME StampInv, Start, StoreInv'
    PROVE  StampInv' /\ Advances /\ Gen' = Gen
  <1> DEFINE loaded == Kept(log)
             g == IF generationFile # NoGeneration THEN generationFile
                  ELSE IF loaded # <<>> THEN loaded[1].generation
                  ELSE process + 1
             new == Numbered(Hydration(loaded) \o <<NoReport>>, g,
                             LastSeq(log))
             all == loaded \o new
             last == LastSeq(log) + Len(new)
  <1>1. /\ ~up /\ up' = TRUE /\ process' = process + 1 /\ generation' = g
        /\ events' = Kept(all) /\ sequence' = last
        /\ log' \in {log, loaded} /\ writes' = new
        /\ generationFile' = generationFile
        /\ process < MaxProcesses
    BY DEF Start
  <1>2. log \in Seq(Events) /\ EndsAt(log, LastSeq(log))
    BY StampFacts
  <1>3. /\ process \in Nat /\ Gen \in Nat /\ Len(log) \in Nat
        /\ MaxEvents \in Nat /\ LastSeq(log) \in Nat
        /\ MaxProcesses \in Nat
    BY StampNumbers, StoreAssumption
  <1>4. Top = LastSeq(log)
    BY <1>1, StampFacts
  <1>5. /\ Stamped(log, Gen) /\ generationFile \in {NoGeneration, Gen}
        /\ Gen \in 1..(process + 1)
    BY DEF StampInv, OneGeneration
  <1>6. /\ loaded \in Seq(Events) /\ EndsAt(loaded, LastSeq(log))
        /\ Stamped(loaded, Gen)
        /\ log # <<>> => loaded # <<>>
    BY <1>2, <1>3, <1>5, KeptFacts, StampedFacts
  <1>7. /\ Len(loaded) \in Nat
        /\ Len(loaded) = (IF Len(log) < MaxEvents THEN Len(log)
                          ELSE MaxEvents)
    BY <1>2, <1>3, LastOfFacts DEF Kept
  <1>8. g = Gen
    <2>1. loaded # <<>> => loaded[1].generation = Gen
      <3>1. loaded # <<>> => 1 \in 1..Len(loaded)
        BY <1>6
      <3> QED
        BY <1>6, <3>1 DEF Stamped
    <2>2. log = <<>> => loaded = <<>>
      <3>1. log = <<>> => Len(loaded) = 0
        BY <1>3, <1>7
      <3> QED
        BY <1>6, <3>1
    <2>3. /\ Gen = IF generationFile # NoGeneration THEN generationFile
                   ELSE IF log # <<>> THEN log[1].generation ELSE process + 1
      BY <1>1 DEF Gen
    <2> HIDE DEF loaded
    <2> QED
      BY <1>5, <1>6, <2>1, <2>2, <2>3
  <1>9. Floor = IF log = <<>> THEN 1 ELSE loaded[1].seq
    BY <1>1 DEF Floor
  <1> HIDE DEF loaded, g
  <1>10. g \in Generations
    <2>1. Gen \in 1..MaxProcesses
      BY <1>1, <1>3, <1>5
    <2> QED
      BY <1>8, <2>1 DEF Generations
  <1>11. /\ new \in Seq(Events) /\ EndsAt(new, last)
         /\ Len(new) \in Nat /\ Len(new) >= 1
         /\ \A i \in 1..Len(new) : new[i].generation = Gen
    <2> DEFINE reports == Hydration(loaded) \o <<NoReport>>
    <2>1. reports \in Seq(Reports) /\ Len(reports) \in Nat /\ Len(reports) >= 1
      <3>1. /\ Hydration(loaded) \in Seq(Reports)
            /\ <<NoReport>> \in Seq(Reports) /\ Len(<<NoReport>>) = 1
        BY HydrationFacts, EmptyReport
      <3>2. /\ reports \in Seq(Reports)
            /\ Len(reports) = Len(Hydration(loaded)) + 1
            /\ Len(Hydration(loaded)) \in Nat
        BY <3>1, ConcatLength
      <3> HIDE DEF reports
      <3> QED
        BY <3>2
    <2> HIDE DEF reports
    <2>2. new = Numbered(reports, g, LastSeq(log))
      BY DEF reports
    <2> HIDE DEF new
    <2>3. /\ new \in Seq(Events) /\ Len(new) = Len(reports)
          /\ EndsAt(new, LastSeq(log) + Len(reports))
          /\ \A i \in 1..Len(reports) : new[i].generation = g
      <3>1. LastSeq(log) \in Nat
        BY <1>3
      <3> QED
        BY <1>10, <2>1, <2>2, <3>1, NumberedFacts
    <2> QED
      BY <1>8, <2>1, <2>3
  <1> HIDE DEF new
  <1>12. last \in Int /\ last = LastSeq(log) + Len(new)
    BY <1>3, <1>11
  <1>13. Stamped(new, Gen)
    <2> HIDE DEF last
    <2>1. \A i \in 1..Len(new) : new[i].seq = last - Len(new) + i
      BY <1>11, <1>12, EndsMeans
    <2>2. \A i \in 1..Len(new) : last - Len(new) + i > 0
      BY <1>3, <1>11, <1>12
    <2> QED
      BY <1>11, <2>1, <2>2 DEF Stamped
  <1>14. /\ all \in Seq(Events) /\ Len(all) = Len(loaded) + Len(new)
    <2>1. new \in Seq(Events) /\ loaded \in Seq(Events)
      BY <1>6, <1>11
    <2> QED
      BY <2>1, ConcatLength
  <1>15. EndsAt(all, last)
    <2>1. last - Len(new) = LastSeq(log)
      BY <1>3, <1>11, <1>12
    <2> HIDE DEF last
    <2>2. EndsAt(loaded, last - Len(new)) /\ last \in Int
      BY <1>6, <1>12, <2>1
    <2>3. /\ new \in Seq(Events) /\ loaded \in Seq(Events)
          /\ EndsAt(new, last)
      BY <1>6, <1>11
    <2> QED
      BY <2>2, <2>3, ConcatEnds
  <1>16. Stamped(all, Gen)
    <2>1. new \in Seq(Events) /\ loaded \in Seq(Events)
      BY <1>6, <1>11
    <2> QED
      BY <1>6, <1>13, <2>1, StampedFacts
  <1> HIDE DEF all, last
  <1>17. /\ events' \in Seq(Events) /\ events' # <<>>
         /\ EndsAt(events', last) /\ Stamped(events', Gen)
    <2>1. all \in Seq(Events) /\ all # <<>>
      <3>1. all \in Seq(Events) /\ Len(all) # 0
        BY <1>7, <1>11, <1>14
      <3> QED
        BY <3>1
    <2>2. last \in Int
      BY <1>12
    <2> QED
      BY <1>1, <1>15, <1>16, <2>1, <2>2, KeptFacts, StampedFacts
  <1>18. Len(events') = IF Len(all) < MaxEvents THEN Len(all) ELSE MaxEvents
    <2>1. all \in Seq(Events) /\ MaxEvents \in Nat
      BY <1>3, <1>14
    <2> QED
      BY <1>1, <2>1, LastOfFacts DEF Kept
  <1>19. Gen' = Gen /\ Top' = last /\ Floor' = events'[1].seq
    BY <1>1, <1>8 DEF Gen, Top, Floor
  <1>20. /\ events'[1].seq = last - Len(events') + 1
         /\ events'[1].seq > 0
    <2>1. 1 \in 1..Len(events')
      BY <1>17
    <2>2. \A i \in 1..Len(events') : events'[i].seq = last - Len(events') + i
      BY <1>12, <1>17, EndsMeans
    <2> QED
      BY <1>17, <2>1, <2>2 DEF Stamped
  <1>21. /\ log = <<>> => Floor = 1
         /\ log # <<>> => Floor = LastSeq(log) - Len(loaded) + 1
    <2>1. log # <<>> => loaded[1].seq = LastSeq(log) - Len(loaded) + 1
      <3>1. LastSeq(log) \in Int
        BY <1>3
      <3> QED
        BY <1>6, <3>1, EndsMeans
    <2> QED
      BY <1>9, <2>1
  <1>22. /\ Len(all) = Len(loaded) + Len(new)
         /\ Len(loaded) \in Nat /\ Len(new) \in Nat /\ Len(new) >= 1
         /\ last - Len(events') + 1 > 0
         /\ Floor' = last - Len(events') + 1
    BY <1>7, <1>11, <1>14, <1>19, <1>20
  <1>23. Floor' >= Floor /\ Top' >= Top
    <2>1. Len(events') <= Len(loaded) + Len(new) /\ Len(events') \in Int
      <3>1. CASE Len(all) < MaxEvents
        BY <1>18, <1>22, <3>1
      <3>2. CASE ~(Len(all) < MaxEvents)
        <4>1. Len(events') = MaxEvents
          BY <1>18, <3>2
        <4> QED
          BY <1>3, <1>22, <3>2, <4>1
      <3> QED
        BY <3>1, <3>2
    <2>2. last \in Int /\ last = LastSeq(log) + Len(new)
      BY <1>12
    <2>3. LastSeq(log) - Len(loaded) <= last - Len(events')
      BY <1>3, <1>22, <2>1, <2>2
    <2>4. CASE log = <<>>
      <3>1. Floor = 1 /\ Floor' = last - Len(events') + 1
            /\ last - Len(events') + 1 > 0
        BY <1>21, <1>22, <2>4
      <3>2. Floor' >= Floor
        BY <2>1, <2>2, <3>1
      <3>3. Top' >= Top
        BY <1>3, <1>4, <1>19, <1>22, <2>2
      <3> QED
        BY <3>2, <3>3
    <2>5. CASE log # <<>>
      <3>1. Floor = LastSeq(log) - Len(loaded) + 1
            /\ Floor' = last - Len(events') + 1
        BY <1>21, <1>22, <2>5
      <3>2. Floor' >= Floor
        BY <1>3, <1>22, <2>1, <2>2, <2>3, <3>1
      <3>3. Top' >= Top
        BY <1>3, <1>4, <1>19, <1>22, <2>2
      <3> QED
        BY <3>2, <3>3
    <2> QED
      BY <2>4, <2>5
  <1>24. Advances
    BY <1>19, <1>23 DEF Advances
  <1>25. OneGeneration'
    <2>1. Stamped(log', Gen) /\ Stamped(writes', Gen)
      BY <1>1, <1>5, <1>6, <1>13
    <2>2. Gen \in 1..(process' + 1) /\ Gen <= process'
      BY <1>1, <1>3, <1>5
    <2> QED
      BY <1>1, <1>5, <1>17, <1>19, <2>1, <2>2 DEF OneGeneration
  <1>26. MemoryReaches'
    <2> SUFFICES ASSUME Len(events') < MaxEvents
                 PROVE  /\ log' # <<>> => log'[1].seq >= events'[1].seq
                        /\ Len(new) <= Len(events')
      BY <1>1 DEF MemoryReaches
    <2>1. Len(all) < MaxEvents /\ Len(events') = Len(all)
      <3>1. Len(all) \in Nat
        BY <1>22
      <3>2. ~(Len(all) < MaxEvents) => Len(events') = MaxEvents
        BY <1>18
      <3>3. ~(MaxEvents < MaxEvents)
        BY <1>3
      <3>4. Len(all) < MaxEvents
        BY <3>2, <3>3
      <3> QED
        BY <1>18, <3>4
    <2>2. Len(loaded) = Len(log)
      <3>1. CASE Len(log) < MaxEvents
        BY <1>7, <3>1
      <3>2. CASE ~(Len(log) < MaxEvents)
        <4>1. Len(loaded) = MaxEvents
          BY <1>7, <3>2
        <4> QED
          BY <1>3, <1>22, <2>1, <4>1
      <3> QED
        BY <3>1, <3>2
    <2>3. ASSUME log' # <<>> PROVE log'[1].seq = LastSeq(log) - Len(log) + 1
      <3>1. LastSeq(log) \in Int
        BY <1>3
      <3>2. CASE log' = log
        BY <1>2, <2>3, <3>1, <3>2, EndsMeans
      <3>3. CASE log' = loaded
        <4>1. loaded[1].seq = LastSeq(log) - Len(loaded) + 1
          BY <1>6, <2>3, <3>1, <3>3, EndsMeans
        <4> QED
          BY <2>2, <3>3, <4>1
      <3> QED
        BY <1>1, <3>2, <3>3
    <2>4. events'[1].seq = LastSeq(log) - Len(log) + 1
      <3>1. Len(events') = Len(log) + Len(new)
        BY <1>22, <2>1, <2>2
      <3>2. last - Len(events') + 1 = LastSeq(log) - Len(log) + 1
        BY <1>3, <1>12, <1>22, <3>1
      <3> QED
        BY <1>20, <3>2
    <2>5. Len(new) <= Len(events')
      BY <1>22, <2>1
    <2>6. LastSeq(log) - Len(log) + 1 \in Int
      BY <1>3
    <2> QED
      BY <2>3, <2>4, <2>5, <2>6
  <1> QED
    BY <1>19, <1>24, <1>25, <1>26 DEF StampInv

LEMMA StampInitInv == StoreInit => StampInv
  <1> SUFFICES ASSUME StoreInit PROVE StampInv
    OBVIOUS
  <1>1. StoreInv
    BY StoreInitInv
  <1>2. /\ ~up /\ generationFile = NoGeneration /\ log = <<>>
        /\ process = 0 /\ events = <<>> /\ writes = <<>>
    BY DEF StoreInit
  <1>3. Gen = 1
    BY <1>2 DEF Gen
  <1> QED
    BY <1>1, <1>2, <1>3 DEF StampInv, OneGeneration, MemoryReaches, Stamped

LEMMA StampNats ==
    StampInv => Gen \in Nat /\ Top \in Nat /\ Floor \in Nat
  <1> SUFFICES ASSUME StampInv
               PROVE  Gen \in Nat /\ Top \in Nat /\ Floor \in Nat
    OBVIOUS
  <1>1. up => Top \in Nat /\ Floor \in Nat
    BY StampNumbers
  <1>2. ~up => Top \in Nat
    BY StampFacts
  <1>3. ASSUME ~up, log # <<>> PROVE Floor \in Nat
    <2>1. /\ Floor = LastSeq(log) - Len(Kept(log)) + 1
          /\ Len(Kept(log)) \in 1..Len(log)
      BY <1>3, StampFacts
    <2> DEFINE t == Kept(log)
    <2>2. Floor = t[1].seq /\ t \in Seq(Events) /\ t # <<>>
      BY <1>3, StampFacts, KeptFacts DEF Floor
    <2> HIDE DEF t
    <2> QED
      BY <2>2, EventTypes
  <1>4. ~up /\ log = <<>> => Floor \in Nat
    BY StampFacts
  <1> QED
    BY <1>1, <1>2, <1>3, <1>4, StampNumbers

\* What every step of the store does.
LEMMA StoreStamps ==
    ASSUME StampInv, [StoreNext]_storeVars, StoreInv'
    PROVE  /\ StampInv' /\ (~lost' => Advances) /\ (lost => lost')
           /\ Gen' = Gen \/ ProcessEnds
  <1>0. Gen \in Nat /\ Top \in Nat /\ Floor \in Nat
    BY StampNats
  <1>1. CASE UNCHANGED storeVars
    <2>1. UNCHANGED <<process, up, generation, events, sequence, writes,
                      log, generationFile, lost>>
      BY <1>1 DEF storeVars
    <2>2. Gen' = Gen /\ Top' = Top /\ Floor' = Floor
      BY <2>1 DEF Gen, Top, Floor
    <2>3. OneGeneration' /\ MemoryReaches'
      BY <2>1, <2>2 DEF StampInv, OneGeneration, MemoryReaches
    <2> QED
      BY <1>0, <2>1, <2>2, <2>3 DEF Advances, StampInv
  <1>2. CASE Start
    <2>1. lost' = lost
      BY <1>2 DEF Start
    <2> QED
      BY <1>2, <2>1, StartStamps
  <1>3. CASE ProcessEnds
    <2>1. lost => lost'
      BY <1>3 DEF ProcessEnds
    <2> QED
      BY <1>3, <2>1, EndStamps
  <1>4. CASE WriteLine \/ WriteGeneration \/ WriteFails
    <2>1. lost' = lost
      BY <1>4 DEF WriteLine, WriteGeneration, WriteFails
    <2>2. StampInv' /\ Gen' = Gen /\ Top' = Top /\ Floor' = Floor
      BY <1>4, WritingStamps
    <2> QED
      BY <1>0, <2>1, <2>2 DEF Advances
  <1>5. CASE Compact
    <2>1. lost' = lost
      BY <1>5 DEF Compact
    <2>2. StampInv' /\ Gen' = Gen /\ Top' = Top /\ Floor' = Floor
      BY <1>5, CompactStamps
    <2> QED
      BY <1>0, <2>1, <2>2 DEF Advances
  <1>6. ASSUME NEW report \in Reports, Publish(report)
        PROVE  /\ StampInv' /\ (~lost' => Advances) /\ (lost => lost')
               /\ Gen' = Gen
    <2>1. lost' = lost
      BY <1>6 DEF Publish
    <2>2. StampInv' /\ Gen' = Gen /\ Top' = Top + 1 /\ Floor' >= Floor
      BY <1>6, PublishStamps
    <2> QED
      BY <1>0, <2>1, <2>2 DEF Advances
  <1>7. CASE PublishOther
    BY <1>6, <1>7, EmptyReport DEF PublishOther
  <1>8. ASSUME NEW j \in Jobs, JobStep(j)
        PROVE  /\ StampInv' /\ (~lost' => Advances) /\ (lost => lost')
               /\ Gen' = Gen
    BY <1>6, <1>8, JobReportType DEF JobStep
  <1> QED
    BY <1>1, <1>2, <1>3, <1>4, <1>5, <1>7, <1>8 DEF StoreNext, Background

-----------------------------------------------------------------------------
(* Cursors, events and what is on the wire, as numbers.                    *)

LEMMA CursorInts ==
    /\ \A c \in Cursors : c.seq \in Nat /\ c.generation \in Nat
    /\ \A e \in Events : /\ e.seq \in Nat /\ e.generation \in Nat
                         /\ Cursor(e.generation, e.seq) \in Cursors
                         /\ Cursor(e.generation, e.seq).seq = e.seq
                         /\ Cursor(e.generation, e.seq).generation
                              = e.generation
    /\ \A fs \in Seq(Frames) :
         /\ Len(fs) \in Nat
         /\ \A k \in 1..Len(fs) :
              IF fs[k].reset THEN fs[k].generation \in Nat
              ELSE fs[k].event \in Events /\ fs[k].event.seq \in Nat
                   /\ fs[k].event.generation \in Nat
  <1>1. \A c \in Cursors : c.seq \in Nat /\ c.generation \in Nat
    BY DEF Cursors, Generations, NoGeneration
  <1>2. Generations \subseteq Nat
    BY DEF Generations
  <1>3. \A e \in Events : /\ e.seq \in Nat /\ e.generation \in Nat
                         /\ Cursor(e.generation, e.seq) \in Cursors
    BY <1>2, EventTypes, CursorTypes
  <1>4. \A e \in Events : /\ Cursor(e.generation, e.seq).seq = e.seq
                         /\ Cursor(e.generation, e.seq).generation
                              = e.generation
    BY DEF Cursor
  <1>5. ASSUME NEW fs \in Seq(Frames), NEW k \in 1..Len(fs)
        PROVE  IF fs[k].reset THEN fs[k].generation \in Nat
               ELSE fs[k].event \in Events /\ fs[k].event.seq \in Nat
                    /\ fs[k].event.generation \in Nat
    <2>1. fs[k] \in Frames
      OBVIOUS
    <2> QED
      BY <1>2, <1>3, <2>1, FrameTypes
  <1> QED
    BY <1>1, <1>3, <1>4, <1>5

\* The server goes on: to later numbers, or to a later generation.
Later(g, top, floor, g2, top2, floor2) ==
    \/ g2 = g /\ top2 >= top /\ floor2 >= floor
    \/ g2 > g

LEMMA KnowsLater ==
    ASSUME NEW cur \in Cursors, NEW past \in SUBSET Cursors,
           NEW g \in Nat, NEW top \in Nat, NEW floor \in Nat,
           NEW g2 \in Nat, NEW top2 \in Nat, NEW floor2 \in Nat,
           Later(g, top, floor, g2, top2, floor2),
           CursorKnows(cur, past, g, top, floor)
    PROVE  CursorKnows(cur, past, g2, top2, floor2)
  <1>1. cur.generation \in Nat /\ cur.seq \in Nat
    BY CursorInts
  <1>2. /\ 1 <= cur.generation /\ cur.generation <= g
        /\ \A c \in past :
             /\ c.generation <= cur.generation
             /\ c.generation = g =>
                  c.seq <= top /\ (c.seq <= cur.seq \/ c.seq < floor)
    BY DEF CursorKnows
  <1>3. cur.generation <= g2
    BY <1>1, <1>2 DEF Later
  <1>4. ASSUME NEW c \in past, c.generation = g2
        PROVE  c.seq <= top2 /\ (c.seq <= cur.seq \/ c.seq < floor2)
    <2>1. c.seq \in Nat /\ c.generation \in Nat
      BY CursorInts
    <2>2. g2 = g /\ top2 >= top /\ floor2 >= floor
      BY <1>1, <1>2, <1>4, <2>1 DEF Later
    <2> QED
      BY <1>1, <1>2, <1>4, <2>1, <2>2
  <1> QED
    BY <1>2, <1>3, <1>4 DEF CursorKnows

LEMMA FollowLater ==
    ASSUME NEW fs \in Seq(Frames),
           NEW cur \in Cursors, NEW past \in SUBSET Cursors,
           NEW g \in Nat, NEW top \in Nat, NEW floor \in Nat,
           NEW g2 \in Nat, NEW top2 \in Nat, NEW floor2 \in Nat,
           Later(g, top, floor, g2, top2, floor2),
           FramesFollow(fs, cur, past, g, top, floor)
    PROVE  FramesFollow(fs, cur, past, g2, top2, floor2)
  <1>1. ASSUME NEW k \in 1..Len(fs), ~fs[k].reset
        PROVE  EventFits(fs[k].event, fs, cur, past, g2, top2)
    <2> DEFINE e == fs[k].event
    <2>1. e.seq \in Nat /\ e.generation \in Nat
      BY <1>1, CursorInts
    <2>2. EventFits(e, fs, cur, past, g, top)
      BY <1>1 DEF FramesFollow
    <2> HIDE DEF e
    <2>3. e.generation <= g2 /\ (e.generation = g2 => e.seq <= top2)
      BY <2>1, <2>2 DEF EventFits, Later
    <2>4. EventFits(e, fs, cur, past, g2, top2)
      BY <2>2, <2>3 DEF EventFits
    <2> QED
      BY <2>4 DEF e
  <1>2. ASSUME Resetting(fs)
        PROVE  /\ fs[1].generation <= g2
               /\ fs[1].generation = g2 =>
                    \A c \in past : c.generation = g2 => c.seq < floor2
    <2>1. fs[1].generation \in Nat
      <3>1. 1 \in 1..Len(fs) /\ fs[1].reset
        BY <1>2 DEF Resetting
      <3> QED
        BY <3>1, CursorInts
    <2>2. /\ fs[1].generation <= g
          /\ fs[1].generation = g =>
               \A c \in past : c.generation = g => c.seq < floor
      BY <1>2 DEF FramesFollow
    <2>3. fs[1].generation <= g2
      BY <2>1, <2>2 DEF Later
    <2>4. ASSUME fs[1].generation = g2, NEW c \in past, c.generation = g2
          PROVE  c.seq < floor2
      <3>1. c.seq \in Nat
        BY CursorInts
      <3>2. g2 = g /\ floor2 >= floor
        BY <2>1, <2>2, <2>4 DEF Later
      <3> QED
        BY <2>2, <2>4, <3>1, <3>2
    <2> QED
      BY <2>3, <2>4
  <1> QED
    BY <1>1, <1>2 DEF FramesFollow

\* The wire grows by the event that was published.
LEMMA AppendFrames ==
    ASSUME NEW fs \in Seq(Frames), NEW e \in Events
    PROVE  LET ft == Append(fs, EventFrame(e)) IN
           /\ ft \in Seq(Frames) /\ ft # <<>>
           /\ fs # <<>> => ft[1] = fs[1]
           /\ Resetting(ft) <=> Resetting(fs)
           /\ ResetFirst(fs) => ResetFirst(ft)
           /\ \A k \in 1..Len(ft) :
                \/ k \in 1..Len(fs) /\ ft[k] = fs[k]
                \/ k = Len(fs) + 1 /\ ~ft[k].reset /\ ft[k].event = e
  <1> DEFINE f == EventFrame(e)
             ft == Append(fs, f)
  <1>1. f \in Frames /\ f.reset = FALSE /\ f.event = e
    BY FrameTypes DEF EventFrame
  <1> HIDE DEF f
  <1>2. /\ ft \in Seq(Frames) /\ Len(ft) = Len(fs) + 1 /\ Len(fs) \in Nat
        /\ \A k \in 1..Len(fs) : ft[k] = fs[k]
        /\ ft[Len(fs) + 1] = f
    BY <1>1, AppendProperties
  <1> HIDE DEF ft
  <1>3. \A k \in 1..Len(ft) : k \in 1..Len(fs) \/ k = Len(fs) + 1
    BY <1>2
  <1>4. /\ ft # <<>>
        /\ fs # <<>> => 1 \in 1..Len(fs)
        /\ fs = <<>> => Len(fs) + 1 = 1
    BY <1>2
  <1>5. Resetting(ft) <=> Resetting(fs)
    BY <1>1, <1>2, <1>4 DEF Resetting
  <1>6. fs # <<>> => ft[1] = fs[1]
    BY <1>2, <1>4
  <1>7. ResetFirst(fs) => ResetFirst(ft)
    BY <1>1, <1>2, <1>3 DEF ResetFirst
  <1>8. \A k \in 1..Len(ft) :
          \/ k \in 1..Len(fs) /\ ft[k] = fs[k]
          \/ k = Len(fs) + 1 /\ ~ft[k].reset /\ ft[k].event = e
    BY <1>1, <1>2, <1>3
  <1>9. /\ ft \in Seq(Frames) /\ ft # <<>>
        /\ fs # <<>> => ft[1] = fs[1]
        /\ Resetting(ft) <=> Resetting(fs)
        /\ ResetFirst(fs) => ResetFirst(ft)
        /\ \A k \in 1..Len(ft) :
             \/ k \in 1..Len(fs) /\ ft[k] = fs[k]
             \/ k = Len(fs) + 1 /\ ~ft[k].reset /\ ft[k].event = e
    BY <1>2, <1>4, <1>5, <1>6, <1>7, <1>8
  <1> QED
    BY <1>9, Zenon DEF ft, f

LEMMA FollowAppend ==
    ASSUME NEW fs \in Seq(Frames), NEW e \in Events,
           NEW cur \in Cursors, NEW past \in SUBSET Cursors,
           NEW g \in Nat, NEW top \in Nat, NEW floor \in Nat,
           NEW top2 \in Nat, NEW floor2 \in Nat, floor2 >= floor,
           top2 = top + 1, e.seq = top2, e.generation = g,
           CursorKnows(cur, past, g, top, floor),
           FramesFollow(fs, cur, past, g, top, floor),
           OpenFollows(fs, cur, g)
    PROVE  LET ft == Append(fs, EventFrame(e)) IN
           /\ FramesFollow(ft, cur, past, g, top2, floor2)
           /\ OpenFollows(ft, cur, g)
  <1> DEFINE ft == Append(fs, EventFrame(e))
  <1>1. /\ ft \in Seq(Frames) /\ ft # <<>>
        /\ fs # <<>> => ft[1] = fs[1]
        /\ Resetting(ft) <=> Resetting(fs)
        /\ \A k \in 1..Len(ft) :
             \/ k \in 1..Len(fs) /\ ft[k] = fs[k]
             \/ k = Len(fs) + 1 /\ ~ft[k].reset /\ ft[k].event = e
    BY AppendFrames
  <1> HIDE DEF ft
  <1>2. Len(fs) \in Nat /\ Len(ft) \in Nat
    BY <1>1
  <1>3. Resetting(fs) => ft[1] = fs[1]
    BY <1>1 DEF Resetting
  <1>4. OpenFollows(ft, cur, g)
    <2>1. \A k \in 1..Len(ft) : ~ft[k].reset => ft[k].event.generation = g
      BY <1>1 DEF OpenFollows
    <2> QED
      BY <1>1, <1>3, <2>1 DEF OpenFollows
  <1>5. FramesFollow(fs, cur, past, g, top2, floor2)
    <2>1. Later(g, top, floor, g, top2, floor2)
      BY DEF Later
    <2> QED
      BY <2>1, FollowLater
  <1>6. ASSUME NEW k \in 1..Len(fs), ~fs[k].reset
        PROVE  /\ fs[k].event.generation = e.generation
               /\ fs[k].event.seq < e.seq
    <2>1. fs[k].event.generation = g /\ fs[k].event.seq \in Nat
      BY <1>6, CursorInts DEF OpenFollows
    <2>2. fs[k].event.seq <= top
      BY <1>6, <2>1 DEF FramesFollow, EventFits
    <2> QED
      BY <2>1, <2>2
  <1>7. FramesInOrder(ft)
    <2> SUFFICES ASSUME NEW k \in 1..Len(ft), NEW l \in 1..Len(ft),
                        k < l, ~ft[k].reset
                 PROVE  /\ ft[k].event.generation = ft[l].event.generation
                        /\ ft[k].event.seq < ft[l].event.seq
      BY DEF FramesInOrder
    <2>1. k \in 1..Len(fs) /\ ft[k] = fs[k]
      <3>1. k = Len(fs) + 1 => l \notin 1..Len(fs) /\ l # Len(fs) + 1
        BY <1>2
      <3> QED
        BY <1>1, <3>1
    <2>2. CASE l \in 1..Len(fs) /\ ft[l] = fs[l]
      <3>1. FramesInOrder(fs)
        BY DEF FramesFollow
      <3> QED
        BY <2>1, <2>2, <3>1 DEF FramesInOrder
    <2>3. CASE ft[l].event = e
      BY <1>6, <2>1, <2>3
    <2> QED
      BY <1>1, <2>2, <2>3
  <1>8. EventFits(e, ft, cur, past, g, top2)
    <2>1. e.generation <= g /\ (e.generation = g => e.seq <= top2)
      OBVIOUS
    <2>2. \A c \in past : c.generation = e.generation => c.seq < e.seq
      <3> SUFFICES ASSUME NEW c \in past, c.generation = e.generation
                   PROVE  c.seq < e.seq
        OBVIOUS
      <3>1. c.seq \in Nat /\ c.seq <= top
        BY CursorInts DEF CursorKnows
      <3> QED
        BY <3>1
    <2>3. IF Resetting(ft) THEN e.generation = ft[1].generation
          ELSE e.generation = cur.generation
      BY <1>4 DEF OpenFollows
    <2>4. ~Resetting(ft) => e.generation <= cur.generation
      BY <2>3
    <2> QED
      BY <2>1, <2>2, <2>3, <2>4 DEF EventFits
  <1>9. ASSUME NEW k \in 1..Len(ft), ~ft[k].reset
        PROVE  EventFits(ft[k].event, ft, cur, past, g, top2)
    <2>1. CASE k \in 1..Len(fs) /\ ft[k] = fs[k]
      <3>1. EventFits(fs[k].event, fs, cur, past, g, top2)
        BY <1>5, <1>9, <2>1 DEF FramesFollow
      <3> QED
        BY <1>1, <1>3, <2>1, <3>1 DEF EventFits
    <2>2. CASE ft[k].event = e
      BY <1>8, <2>2
    <2> QED
      BY <1>1, <2>1, <2>2
  <1>10. Resetting(ft) =>
           /\ cur.generation <= ft[1].generation /\ ft[1].generation <= g
           /\ ft[1].generation = g =>
                \A c \in past : c.generation = g => c.seq < floor2
    BY <1>1, <1>3, <1>5 DEF FramesFollow
  <1>11. FramesFollow(ft, cur, past, g, top2, floor2)
    BY <1>7, <1>9, <1>10 DEF FramesFollow
  <1> QED
    BY <1>4, <1>11, Zenon DEF ft

\* The events of a page that the server answers with: of its generation,
\* after a number, in memory and in order.
PageIs(p, n, g, top, floor) ==
    /\ \A i \in 1..Len(p) :
         p[i].generation = g /\ p[i].seq > n
           /\ p[i].seq <= top /\ floor <= p[i].seq
    /\ \A i, j \in 1..Len(p) : i < j => p[i].seq < p[j].seq

\* What a new stream begins with.
LEMMA DialFrames ==
    ASSUME NEW p \in Seq(Events), NEW reset \in BOOLEAN,
           NEW g \in Generations
    PROVE  LET ft == (IF reset THEN <<Reset(g)>> ELSE <<>>) \o EventFrames(p)
               d == IF reset THEN 1 ELSE 0
           IN  /\ ft \in Seq(Frames) /\ ResetFirst(ft)
               /\ Resetting(ft) <=> reset
               /\ reset => ft[1].generation = g
               /\ \A k \in 1..Len(ft) : ~ft[k].reset =>
                    k - d \in 1..Len(p) /\ ft[k].event = p[k - d]
  <1> DEFINE first == IF reset THEN <<Reset(g)>> ELSE <<>>
             d == IF reset THEN 1 ELSE 0
             rest == EventFrames(p)
             ft == first \o rest
  <1>1. /\ first \in Seq(Frames) /\ Len(first) = d
        /\ reset => first[1] = Reset(g)
    <2>1. <<Reset(g)>> \in Seq(Frames) /\ <<>> \in Seq(Frames)
      BY FrameTypes
    <2> QED
      BY <2>1
  <1>2. d \in {0, 1} /\ (reset <=> d = 1)
    OBVIOUS
  <1>3. /\ rest \in Seq(Frames) /\ Len(rest) = Len(p) /\ Len(p) \in Nat
        /\ \A i \in 1..Len(p) : /\ ~rest[i].reset
                                /\ rest[i].event = p[i]
    <2>1. rest = [i \in 1..Len(p) |-> EventFrame(p[i])]
      BY DEF EventFrames
    <2>2. rest \in Seq(Frames) /\ Len(p) \in Nat
      BY EventFramesType
    <2> HIDE DEF rest
    <2>3. Len(rest) = Len(p)
      BY <2>1, <2>2
    <2>4. \A i \in 1..Len(p) : rest[i] = EventFrame(p[i])
      BY <2>1
    <2>5. ASSUME NEW i \in 1..Len(p)
          PROVE  ~rest[i].reset /\ rest[i].event = p[i]
      <3>1. rest[i] = EventFrame(p[i])
        BY <2>4
      <3> HIDE DEF rest
      <3>2. ~EventFrame(p[i]).reset /\ EventFrame(p[i]).event = p[i]
        BY DEF EventFrame
      <3> QED
        BY <3>1, <3>2
    <2> QED
      BY <2>2, <2>3, <2>5
  <1>4. Reset(g).reset /\ Reset(g).generation = g
    BY DEF Reset
  <1> HIDE DEF first, d, rest
  <1>5. /\ ft \in Seq(Frames) /\ Len(ft) = d + Len(p)
        /\ \A k \in 1..(d + Len(p)) :
             ft[k] = IF k <= d THEN first[k] ELSE rest[k - d]
    <2>1. /\ ft \in Seq(Frames) /\ Len(ft) = Len(first) + Len(rest)
          /\ \A k \in 1..(Len(first) + Len(rest)) :
               ft[k] = IF k <= Len(first) THEN first[k]
                       ELSE rest[k - Len(first)]
      <3>1. first \in Seq(Frames) /\ rest \in Seq(Frames)
        BY <1>1, <1>3
      <3> QED
        BY <3>1, ConcatProperties
    <2> QED
      BY <1>1, <1>3, <2>1
  <1> HIDE DEF ft
  <1>6. ASSUME NEW k \in 1..Len(ft), ~(k <= d)
        PROVE  /\ k - d \in 1..Len(p)
               /\ ~ft[k].reset /\ ft[k].event = p[k - d]
    <2>1. k - d \in 1..Len(p)
      BY <1>2, <1>3, <1>5, <1>6
    <2> QED
      BY <1>3, <1>5, <1>6, <2>1
  <1>7. ASSUME NEW k \in 1..Len(ft), k <= d
        PROVE  /\ k = 1 /\ d = 1 /\ reset
               /\ ft[k].reset /\ ft[k].generation = g
    <2>1. k = 1 /\ d = 1
      BY <1>2, <1>3, <1>5, <1>7
    <2> QED
      BY <1>1, <1>2, <1>4, <1>5, <1>7, <2>1
  <1>8. ResetFirst(ft)
    BY <1>6, <1>7 DEF ResetFirst
  <1>9. Resetting(ft) <=> reset
    <2>1. CASE reset
      <3>1. d = 1 /\ 1 \in 1..Len(ft)
        BY <1>2, <1>3, <1>5, <2>1
      <3>2. ft # <<>>
        BY <1>5, <3>1
      <3> QED
        BY <1>7, <2>1, <3>1, <3>2 DEF Resetting
    <2>2. CASE ~reset
      <3> SUFFICES ASSUME ft # <<>> PROVE ~ft[1].reset
        BY <2>2 DEF Resetting
      <3>1. 1 \in 1..Len(ft) /\ ~(1 <= d)
        BY <1>2, <1>5, <2>2
      <3> QED
        BY <1>6, <3>1
    <2> QED
      BY <2>1, <2>2
  <1>10. Resetting(ft) => ft[1].generation = g
    <2> SUFFICES ASSUME reset PROVE ft[1].generation = g
      BY <1>9
    <2>1. 1 \in 1..Len(ft) /\ 1 <= d
      BY <1>2, <1>3, <1>5
    <2> QED
      BY <1>7, <2>1
  <1>11. \A k \in 1..Len(ft) : ~ft[k].reset =>
           k - d \in 1..Len(p) /\ ft[k].event = p[k - d]
    BY <1>6, <1>7
  <1>12. /\ ft \in Seq(Frames) /\ ResetFirst(ft)
         /\ Resetting(ft) <=> reset
         /\ reset => ft[1].generation = g
         /\ \A k \in 1..Len(ft) : ~ft[k].reset =>
              k - d \in 1..Len(p) /\ ft[k].event = p[k - d]
    BY <1>5, <1>8, <1>9, <1>10, <1>11
  <1> QED
    BY <1>12, Zenon DEF ft, first, rest, d

LEMMA FollowDial ==
    ASSUME NEW p \in Seq(Events), NEW reset \in BOOLEAN,
           NEW cur \in Cursors, NEW past \in SUBSET Cursors,
           NEW g \in Generations, NEW top \in Nat, NEW floor \in Nat,
           CursorKnows(cur, past, g, top, floor),
           PageIs(p, cur.seq, g, top, floor),
           IF reset THEN cur.generation = g => cur.seq < floor
           ELSE cur.generation = g
    PROVE  LET ft == (IF reset THEN <<Reset(g)>> ELSE <<>>) \o EventFrames(p)
           IN  /\ FramesFollow(ft, cur, past, g, top, floor)
               /\ OpenFollows(ft, cur, g)
  <1> DEFINE ft == (IF reset THEN <<Reset(g)>> ELSE <<>>) \o EventFrames(p)
             d == IF reset THEN 1 ELSE 0
  <1>1. /\ ft \in Seq(Frames) /\ ResetFirst(ft)
        /\ Resetting(ft) <=> reset
        /\ reset => ft[1].generation = g
        /\ \A k \in 1..Len(ft) : ~ft[k].reset =>
             k - d \in 1..Len(p) /\ ft[k].event = p[k - d]
    BY DialFrames, Zenon
  <1>2. d \in {0, 1}
    OBVIOUS
  <1>3. cur.seq \in Nat /\ cur.generation \in Nat /\ g \in Nat
    BY CursorInts DEF Generations
  <1> HIDE DEF ft, d
  <1>4. FramesInOrder(ft)
    <2> SUFFICES ASSUME NEW k \in 1..Len(ft), NEW l \in 1..Len(ft),
                        k < l, ~ft[k].reset
                 PROVE  /\ ft[k].event.generation = ft[l].event.generation
                        /\ ft[k].event.seq < ft[l].event.seq
      BY DEF FramesInOrder
    <2>1. ~ft[l].reset
      <3>1. l # 1
        BY <1>1
      <3> QED
        BY <1>1, <3>1 DEF ResetFirst
    <2>2. /\ k - d \in 1..Len(p) /\ l - d \in 1..Len(p)
          /\ ft[k].event = p[k - d] /\ ft[l].event = p[l - d]
      BY <1>1, <2>1
    <2>3. k - d < l - d
      BY <1>2
    <2> QED
      BY <2>2, <2>3 DEF PageIs
  <1>5. ASSUME NEW c \in past, c.generation = g
        PROVE  /\ c.seq \in Nat
               /\ c.seq <= top /\ (c.seq <= cur.seq \/ c.seq < floor)
    BY <1>5, CursorInts DEF CursorKnows
  <1>6. ASSUME NEW k \in 1..Len(ft), ~ft[k].reset
        PROVE  EventFits(ft[k].event, ft, cur, past, g, top)
    <2>1. /\ k - d \in 1..Len(p) /\ ft[k].event = p[k - d]
      BY <1>1, <1>6
    <2>2. PICK e \in Events : e = ft[k].event
      BY <2>1, EventTypes
    <2>3. /\ e.generation = g /\ e.seq > cur.seq /\ e.seq <= top
          /\ floor <= e.seq /\ e.seq \in Nat
      BY <2>1, <2>2, CursorInts DEF PageIs
    <2>4. \A c \in past : c.generation = e.generation => c.seq < e.seq
      BY <1>3, <1>5, <2>3
    <2>5. ~reset => e.generation <= cur.generation
      BY <1>3, <2>3
    <2>6. EventFits(e, ft, cur, past, g, top)
      BY <1>1, <1>3, <2>3, <2>4, <2>5 DEF EventFits
    <2> QED
      BY <2>2, <2>6
  <1>7. Resetting(ft) =>
          /\ cur.generation <= ft[1].generation /\ ft[1].generation <= g
          /\ ft[1].generation = g =>
               \A c \in past : c.generation = g => c.seq < floor
    <2> SUFFICES ASSUME reset
                 PROVE  /\ cur.generation <= g
                        /\ \A c \in past : c.generation = g => c.seq < floor
      BY <1>1, <1>3
    <2>1. cur.generation <= g
      BY DEF CursorKnows
    <2>2. ASSUME NEW c \in past, c.generation = g
          PROVE  c.seq < floor
      <3>1. c.generation <= cur.generation
        BY DEF CursorKnows
      <3>2. cur.generation = g
        BY <1>3, <2>1, <2>2, <3>1
      <3>3. cur.seq < floor
        BY <3>2
      <3> QED
        BY <1>3, <1>5, <2>2, <3>3
    <2> QED
      BY <2>1, <2>2
  <1>8. OpenFollows(ft, cur, g)
    <2>1. \A k \in 1..Len(ft) : ~ft[k].reset => ft[k].event.generation = g
      BY <1>1 DEF PageIs
    <2> QED
      BY <1>1, <2>1 DEF OpenFollows
  <1>9. FramesFollow(ft, cur, past, g, top, floor)
    BY <1>4, <1>6, <1>7 DEF FramesFollow
  <1> QED
    BY <1>8, <1>9, Zenon DEF ft

\* The frames that are left, one frame or none having been read.
IsRest(ft, fs) ==
    \E d \in {0, 1} : \A k \in 1..Len(ft) :
        k + d \in 1..Len(fs) /\ ft[k] = fs[k + d]

LEMMA RestFacts ==
    ASSUME NEW fs \in Seq(Frames)
    PROVE  /\ IsRest(fs, fs)
           /\ fs # <<>> =>
                /\ IsRest(Tail(fs), fs) /\ Tail(fs) \in Seq(Frames)
                /\ Head(fs) = fs[1] /\ 1 \in 1..Len(fs)
                /\ \A k \in 1..Len(Tail(fs)) :
                     k + 1 \in 1..Len(fs) /\ Tail(fs)[k] = fs[k + 1]
                /\ ResetFirst(fs) => /\ ResetFirst(Tail(fs))
                                     /\ ~Resetting(Tail(fs))
  <1>0. Len(fs) \in Nat
    OBVIOUS
  <1>1. IsRest(fs, fs)
    <2>1. \A k \in 1..Len(fs) : k + 0 = k
      BY <1>0
    <2> QED
      BY <2>1 DEF IsRest
  <1>2. ASSUME fs # <<>>
        PROVE  /\ IsRest(Tail(fs), fs) /\ Tail(fs) \in Seq(Frames)
               /\ Head(fs) = fs[1] /\ 1 \in 1..Len(fs)
               /\ \A k \in 1..Len(Tail(fs)) :
                    k + 1 \in 1..Len(fs) /\ Tail(fs)[k] = fs[k + 1]
               /\ ResetFirst(fs) => /\ ResetFirst(Tail(fs))
                                    /\ ~Resetting(Tail(fs))
    <2> DEFINE ft == Tail(fs)
    <2>1. /\ Head(fs) = fs[1] /\ ft \in Seq(Frames)
          /\ Len(ft) = Len(fs) - 1
          /\ \A k \in 1..Len(ft) : ft[k] = fs[k + 1]
      BY <1>2, HeadTailProperties
    <2>2. 1 \in 1..Len(fs) /\ Len(ft) \in Nat
      BY <1>0, <1>2, <2>1
    <2> HIDE DEF ft
    <2>3. \A k \in 1..Len(ft) : k + 1 \in 1..Len(fs) /\ k + 1 # 1
      BY <1>0, <2>1, <2>2
    <2>4. ASSUME ResetFirst(fs) PROVE ResetFirst(ft) /\ ~Resetting(ft)
      <3>1. \A k \in 1..Len(ft) : ~ft[k].reset
        BY <2>1, <2>3, <2>4 DEF ResetFirst
      <3>2. ft # <<>> => 1 \in 1..Len(ft)
        BY <2>1
      <3> QED
        BY <3>1, <3>2 DEF ResetFirst, Resetting
    <2>5. IsRest(ft, fs)
      BY <2>1, <2>3 DEF IsRest
    <2> QED
      BY <2>1, <2>2, <2>3, <2>4, <2>5 DEF ft
  <1> QED
    BY <1>1, <1>2

LEMMA RestInOrder ==
    ASSUME NEW fs \in Seq(Frames), NEW ft \in Seq(Frames), IsRest(ft, fs),
           FramesInOrder(fs)
    PROVE  FramesInOrder(ft)
  <1>1. PICK d \in {0, 1} : \A k \in 1..Len(ft) :
               k + d \in 1..Len(fs) /\ ft[k] = fs[k + d]
    BY DEF IsRest
  <1> SUFFICES ASSUME NEW k \in 1..Len(ft), NEW l \in 1..Len(ft),
                      k < l, ~ft[k].reset
               PROVE  /\ ft[k].event.generation = ft[l].event.generation
                      /\ ft[k].event.seq < ft[l].event.seq
    BY DEF FramesInOrder
  <1>2. k + d < l + d
    OBVIOUS
  <1>3. PICK m \in 1..Len(fs), n \in 1..Len(fs) :
          m < n /\ ft[k] = fs[m] /\ ft[l] = fs[n]
    <2>1. k + d \in 1..Len(fs) /\ ft[k] = fs[k + d]
      BY <1>1
    <2>2. l + d \in 1..Len(fs) /\ ft[l] = fs[l + d]
      BY <1>1
    <2> QED
      BY <1>2, <2>1, <2>2
  <1>4. m < n /\ ~fs[m].reset
    BY <1>3
  <1>5. /\ fs[m].event.generation = fs[n].event.generation
        /\ fs[m].event.seq < fs[n].event.seq
    BY <1>4 DEF FramesInOrder
  <1> QED
    BY <1>3, <1>5

\* The cursor moves up, past what the page gets.
LEMMA KnowsMore ==
    ASSUME NEW cur \in Cursors, NEW past \in SUBSET Cursors,
           NEW cur2 \in Cursors, NEW past2 \in SUBSET Cursors,
           NEW g \in Nat, NEW top \in Nat, NEW floor \in Nat,
           CursorKnows(cur, past, g, top, floor),
           cur.generation <= cur2.generation, cur2.generation <= g,
           cur.seq <= cur2.seq,
           \A c \in past2 :
             c \in past \/ /\ c.generation <= cur2.generation
                           /\ c.generation = g => c.seq <= top
                           /\ c.seq <= cur2.seq
    PROVE  CursorKnows(cur2, past2, g, top, floor)
  <1>1. /\ cur.seq \in Nat /\ cur.generation \in Nat
        /\ cur2.seq \in Nat /\ cur2.generation \in Nat
    BY CursorInts
  <1>2. 1 <= cur2.generation
    BY <1>1 DEF CursorKnows
  <1>3. ASSUME NEW c \in past2
        PROVE  /\ c.generation <= cur2.generation
               /\ c.generation = g =>
                    c.seq <= top /\ (c.seq <= cur2.seq \/ c.seq < floor)
    <2>1. c.seq \in Nat /\ c.generation \in Nat
      BY CursorInts
    <2>2. CASE c \in past
      <3>1. /\ c.generation <= cur.generation
            /\ c.generation = g =>
                 c.seq <= top /\ (c.seq <= cur.seq \/ c.seq < floor)
        BY <2>2 DEF CursorKnows
      <3> QED
        BY <1>1, <2>1, <3>1
    <2>3. CASE c \notin past
      BY <2>1, <2>3
    <2> QED
      BY <2>2, <2>3
  <1> QED
    BY <1>2, <1>3 DEF CursorKnows

LEMMA FollowMore ==
    ASSUME NEW fs \in Seq(Frames), NEW ft \in Seq(Frames), IsRest(ft, fs),
           ~Resetting(fs), ~Resetting(ft),
           NEW cur \in Cursors, NEW past \in SUBSET Cursors,
           NEW cur2 \in Cursors, NEW past2 \in SUBSET Cursors,
           NEW g \in Nat, NEW top \in Nat, NEW floor \in Nat,
           FramesFollow(fs, cur, past, g, top, floor),
           cur.generation <= cur2.generation, cur.seq <= cur2.seq,
           \A c \in past2 : c \in past \/ c.seq <= cur2.seq
    PROVE  FramesFollow(ft, cur2, past2, g, top, floor)
  <1>1. /\ cur.seq \in Nat /\ cur.generation \in Nat
        /\ cur2.seq \in Nat /\ cur2.generation \in Nat
    BY CursorInts
  <1>2. ASSUME NEW k \in 1..Len(ft), ~ft[k].reset
        PROVE  EventFits(ft[k].event, ft, cur2, past2, g, top)
    <2>1. PICK l \in 1..Len(fs) : ft[k] = fs[l]
      BY DEF IsRest
    <2>2. PICK e \in Events : e = fs[l].event
      BY <1>2, <2>1, CursorInts
    <2>3. e.seq \in Nat /\ e.generation \in Nat
      BY CursorInts
    <2>4. EventFits(e, fs, cur, past, g, top)
      BY <1>2, <2>1, <2>2 DEF FramesFollow
    <2>5. e.generation <= cur2.generation
      BY <1>1, <2>3, <2>4 DEF EventFits
    <2>6. ASSUME NEW c \in past2, c.generation = e.generation
          PROVE  c.seq < e.seq \/ e.seq <= cur2.seq
      <3>1. c.seq \in Nat
        BY CursorInts
      <3>2. CASE c \in past
        <4>1. c.seq < e.seq \/ e.seq <= cur.seq
          BY <2>4, <2>6, <3>2 DEF EventFits
        <4> QED
          BY <1>1, <2>3, <3>1, <4>1
      <3>3. CASE c.seq <= cur2.seq
        BY <1>1, <2>3, <3>1, <3>3
      <3> QED
        BY <3>2, <3>3
    <2>7. EventFits(e, ft, cur2, past2, g, top)
      BY <2>4, <2>5, <2>6 DEF EventFits
    <2> QED
      BY <2>1, <2>2, <2>7
  <1>3. FramesInOrder(ft)
    BY RestInOrder DEF FramesFollow
  <1> QED
    BY <1>2, <1>3 DEF FramesFollow

\* The client reads the reset and sets its cursor back.
LEMMA FollowReset ==
    ASSUME NEW fs \in Seq(Frames), NEW ft \in Seq(Frames), IsRest(ft, fs),
           Resetting(fs), ~Resetting(ft),
           NEW cur \in Cursors, NEW past \in SUBSET Cursors,
           NEW cur2 \in Cursors,
           NEW g \in Nat, NEW top \in Nat, NEW floor \in Nat,
           CursorKnows(cur, past, g, top, floor),
           FramesFollow(fs, cur, past, g, top, floor),
           cur2.generation = fs[1].generation
    PROVE  /\ CursorKnows(cur2, past, g, top, floor)
           /\ FramesFollow(ft, cur2, past, g, top, floor)
           /\ OpenFollows(fs, cur, g) => OpenFollows(ft, cur2, g)
  <1>1. /\ cur.seq \in Nat /\ cur.generation \in Nat
        /\ cur2.seq \in Nat /\ cur2.generation \in Nat
    BY CursorInts
  <1>2. /\ cur.generation <= cur2.generation /\ cur2.generation <= g
        /\ cur2.generation = g =>
             \A c \in past : c.generation = g => c.seq < floor
    BY DEF FramesFollow
  <1>3. CursorKnows(cur2, past, g, top, floor)
    <2>1. 1 <= cur2.generation
      BY <1>1, <1>2 DEF CursorKnows
    <2>2. ASSUME NEW c \in past
          PROVE  /\ c.generation <= cur2.generation
                 /\ c.generation = g =>
                      c.seq <= top /\ (c.seq <= cur2.seq \/ c.seq < floor)
      <3>1. c.seq \in Nat /\ c.generation \in Nat
        BY CursorInts
      <3>2. /\ c.generation <= cur.generation
            /\ c.generation = g => c.seq <= top
        BY DEF CursorKnows
      <3>3. c.generation <= cur2.generation
        BY <1>1, <1>2, <3>1, <3>2
      <3>4. c.generation = g => cur2.generation = g
        BY <1>1, <1>2, <3>1, <3>3
      <3> QED
        BY <1>2, <3>2, <3>3, <3>4
    <2> QED
      BY <1>2, <2>1, <2>2 DEF CursorKnows
  <1>4. ASSUME NEW k \in 1..Len(ft), ~ft[k].reset
        PROVE  EventFits(ft[k].event, ft, cur2, past, g, top)
    <2>1. PICK l \in 1..Len(fs) : ft[k] = fs[l]
      BY DEF IsRest
    <2>2. PICK e \in Events : e = fs[l].event
      BY <1>4, <2>1, CursorInts
    <2>3. e.seq \in Nat /\ e.generation \in Nat
      BY CursorInts
    <2>4. EventFits(e, fs, cur, past, g, top)
      BY <1>4, <2>1, <2>2 DEF FramesFollow
    <2>5. /\ e.generation = cur2.generation
          /\ \A c \in past : c.generation = e.generation => c.seq < e.seq
      BY <2>4 DEF EventFits
    <2>6. e.generation <= cur2.generation
      BY <2>3, <2>5
    <2>7. EventFits(e, ft, cur2, past, g, top)
      BY <2>4, <2>5, <2>6 DEF EventFits
    <2> QED
      BY <2>1, <2>2, <2>7
  <1>5. FramesFollow(ft, cur2, past, g, top, floor)
    <2>1. FramesInOrder(ft)
      BY RestInOrder DEF FramesFollow
    <2> QED
      BY <1>4, <2>1 DEF FramesFollow
  <1>6. ASSUME OpenFollows(fs, cur, g) PROVE OpenFollows(ft, cur2, g)
    <2>1. cur2.generation = g
      BY <1>6 DEF OpenFollows
    <2>2. ASSUME NEW k \in 1..Len(ft), ~ft[k].reset
          PROVE  ft[k].event.generation = g
      <3>1. PICK l \in 1..Len(fs) : ft[k] = fs[l]
        BY DEF IsRest
      <3> QED
        BY <1>6, <2>2, <3>1 DEF OpenFollows
    <2> QED
      BY <2>1, <2>2 DEF OpenFollows
  <1> QED
    BY <1>3, <1>5, <1>6

LEMMA OpenMore ==
    ASSUME NEW fs \in Seq(Frames), NEW ft \in Seq(Frames), IsRest(ft, fs),
           ~Resetting(fs), ~Resetting(ft), NEW cur, NEW cur2, NEW g,
           OpenFollows(fs, cur, g), cur2.generation = g
    PROVE  OpenFollows(ft, cur2, g)
  <1>1. ASSUME NEW k \in 1..Len(ft), ~ft[k].reset
        PROVE  ft[k].event.generation = g
    <2>1. PICK l \in 1..Len(fs) : ft[k] = fs[l]
      BY DEF IsRest
    <2> QED
      BY <1>1, <2>1 DEF OpenFollows
  <1> QED
    BY <1>1 DEF OpenFollows

-----------------------------------------------------------------------------
(* What the page makes of the events that it gets. *)

\* The page has got nothing of an event's generation that comes after it.
NewFor(past, some) ==
    \A c \in past, i \in 1..Len(some) :
        c.generation = some[i].generation => c.seq < some[i].seq

LEMMA OnNewEvent ==
    ASSUME NEW w, NEW e \in Events,
           w.cursor.seq \in Nat,
           w.cursor.generation = e.generation => w.cursor.seq < e.seq
    PROVE  OnEvent(w, e).cursor = Cursor(e.generation, e.seq)
  <1> DEFINE c == Cursor(e.generation, e.seq)
  <1>1. CASE e.generation # w.cursor.generation
    <2>1. OnEvent(w, e) = [sse |-> "reset", cursor |-> c, told |-> TRUE]
      BY <1>1 DEF OnEvent
    <2> HIDE DEF c
    <2>2. OnEvent(w, e).cursor = c
      BY <2>1
    <2> QED
      BY <2>2 DEF c
  <1>2. CASE e.generation = w.cursor.generation
    <2>1. ~(e.seq <= w.cursor.seq)
      BY <1>2, CursorInts
    <2>2. OnEvent(w, e) = [sse |-> "live", cursor |-> c,
                           told |-> w.told \/ Skips(w, e)]
      BY <1>2, <2>1 DEF OnEvent
    <2> HIDE DEF c
    <2>3. OnEvent(w, e).cursor = c
      BY <2>2
    <2> QED
      BY <2>3 DEF c
  <1> QED
    BY <1>1, <1>2

\* Each of some new events in order becomes the cursor of the view.
LEMMA FoldPlaces ==
    ASSUME NEW v \in Views, NEW some \in Seq(Events),
           InOrder(some), NewFor({v.cursor}, some)
    PROVE  \E f : /\ f[0] = v
                  /\ \A i \in 1..Len(some) :
                       /\ f[i] = OnEvent(f[i - 1], some[i])
                       /\ f[i].cursor
                            = Cursor(some[i].generation, some[i].seq)
                  /\ FoldLeft(OnEvent, v, some) = f[Len(some)]
  <1>0. Len(some) \in Nat
    OBVIOUS
  <1>1. PICK f : /\ f[0] = v
                 /\ \A i \in 1..Len(some) : f[i] = OnEvent(f[i - 1], some[i])
                 /\ FoldLeft(OnEvent, v, some) = f[Len(some)]
    BY FoldSteps
  <1> DEFINE Of(i) == Cursor(some[i].generation, some[i].seq)
             S == {i \in Nat : i \in 1..Len(some) => f[i].cursor = Of(i)}
  <1>2. 0 \in S
    OBVIOUS
  <1>3. ASSUME NEW i \in Nat, i \in S PROVE i + 1 \in S
    <2> SUFFICES ASSUME i + 1 \in 1..Len(some)
                 PROVE  f[i + 1].cursor = Of(i + 1)
      OBVIOUS
    <2>1. PICK e \in Events : e = some[i + 1]
      OBVIOUS
    <2>2. f[i + 1] = OnEvent(f[i], e)
      <3>1. (i + 1) - 1 = i
        OBVIOUS
      <3> QED
        BY <1>1, <2>1, <3>1
    <2>3. /\ f[i].cursor.seq \in Nat
          /\ f[i].cursor.generation = e.generation
               => f[i].cursor.seq < e.seq
      <3>1. CASE i = 0
        <4>1. v.cursor \in Cursors
          BY DEF Views
        <4>2. v.cursor.seq \in Nat
          BY <4>1, CursorInts
        <4>3. v.cursor.generation = e.generation => v.cursor.seq < e.seq
          BY <2>1 DEF NewFor
        <4> QED
          BY <1>1, <3>1, <4>2, <4>3
      <3>2. CASE i # 0
        <4>1. i \in 1..Len(some) /\ i < i + 1
          BY <1>0, <3>2
        <4>2. f[i].cursor = Of(i)
          BY <1>3, <4>1
        <4>3. some[i] \in Events
          BY <4>1
        <4>4. /\ f[i].cursor.seq = some[i].seq /\ some[i].seq \in Nat
              /\ f[i].cursor.generation = some[i].generation
          BY <4>2, <4>3, CursorInts
        <4>5. some[i].generation = e.generation => some[i].seq < e.seq
          BY <2>1, <4>1 DEF InOrder
        <4> QED
          BY <4>4, <4>5
      <3> QED
        BY <3>1, <3>2
    <2> QED
      BY <2>1, <2>2, <2>3, OnNewEvent
  <1> HIDE DEF S
  <1>4. Nat \subseteq S
    BY <1>2, <1>3, SetInduction
  <1>5. ASSUME NEW i \in 1..Len(some) PROVE f[i].cursor = Of(i)
    <2>1. i \in S
      BY <1>0, <1>4
    <2> QED
      BY <2>1 DEF S
  <1> QED
    BY <1>1, <1>5

LEMMA FoldCursor ==
    ASSUME NEW v \in Views, NEW some \in Seq(Events), some # <<>>,
           InOrder(some), NewFor({v.cursor}, some)
    PROVE  FoldLeft(OnEvent, v, some).cursor
             = Cursor(some[Len(some)].generation, some[Len(some)].seq)
  <1>1. Len(some) \in 1..Len(some)
    OBVIOUS
  <1>2. PICK f : /\ f[0] = v
                 /\ \A i \in 1..Len(some) :
                      /\ f[i] = OnEvent(f[i - 1], some[i])
                      /\ f[i].cursor
                           = Cursor(some[i].generation, some[i].seq)
                 /\ FoldLeft(OnEvent, v, some) = f[Len(some)]
    BY FoldPlaces
  <1> QED
    BY <1>1, <1>2

LEMMA InOrderConcat ==
    ASSUME NEW s \in Seq(Events), NEW t \in Seq(Events),
           InOrder(s), InOrder(t), NewFor(CursorsOf(s), t)
    PROVE  /\ InOrder(s \o t)
           /\ CursorsOf(s \o t) = CursorsOf(s) \union CursorsOf(t)
           /\ \A past : NewFor(past, s) /\ NewFor(past, t)
                          => NewFor(past, s \o t)
  <1> DEFINE u == s \o t
  <1>1. /\ Len(s) \in Nat /\ Len(t) \in Nat /\ Len(u) = Len(s) + Len(t)
        /\ \A i \in 1..(Len(s) + Len(t)) :
             u[i] = IF i <= Len(s) THEN s[i] ELSE t[i - Len(s)]
    BY ConcatProperties
  <1> HIDE DEF u
  <1>2. ASSUME NEW i \in 1..Len(u)
        PROVE  \/ i \in 1..Len(s) /\ u[i] = s[i]
               \/ /\ ~(i <= Len(s))
                  /\ i - Len(s) \in 1..Len(t) /\ u[i] = t[i - Len(s)]
    <2>1. CASE i <= Len(s)
      <3>1. i \in 1..Len(s)
        BY <1>1, <2>1
      <3> QED
        BY <1>1, <2>1, <3>1
    <2>2. CASE ~(i <= Len(s))
      <3>1. i - Len(s) \in 1..Len(t)
        BY <1>1, <2>2
      <3> QED
        BY <1>1, <2>2, <3>1
    <2> QED
      BY <2>1, <2>2
  <1>3. /\ \A i \in 1..Len(s) : i \in 1..Len(u) /\ u[i] = s[i]
        /\ \A i \in 1..Len(t) : /\ Len(s) + i \in 1..Len(u)
                                /\ u[Len(s) + i] = t[i]
    <2>1. ASSUME NEW i \in 1..Len(s) PROVE i \in 1..Len(u) /\ u[i] = s[i]
      BY <1>1
    <2>2. ASSUME NEW i \in 1..Len(t)
          PROVE  Len(s) + i \in 1..Len(u) /\ u[Len(s) + i] = t[i]
      <3>1. /\ Len(s) + i \in 1..Len(u) /\ ~(Len(s) + i <= Len(s))
            /\ (Len(s) + i) - Len(s) = i
        BY <1>1
      <3> QED
        BY <1>1, <3>1
    <2> QED
      BY <2>1, <2>2
  <1>4. InOrder(u)
    <2> SUFFICES ASSUME NEW i \in 1..Len(u), NEW j \in 1..Len(u), i < j,
                        u[i].generation = u[j].generation
                 PROVE  u[i].seq < u[j].seq
      BY DEF InOrder
    <2>1. CASE i \in 1..Len(s) /\ u[i] = s[i] /\ j \in 1..Len(s)
      <3>1. u[j] = s[j]
        BY <1>3, <2>1
      <3> QED
        BY <2>1, <3>1 DEF InOrder
    <2>2. CASE /\ i \in 1..Len(s) /\ u[i] = s[i]
               /\ j - Len(s) \in 1..Len(t) /\ u[j] = t[j - Len(s)]
      <3>1. s[i] \in Events
        BY <2>2
      <3>2. PICK c : c = Cursor(s[i].generation, s[i].seq)
        OBVIOUS
      <3>3. c.generation = s[i].generation /\ c.seq = s[i].seq
        BY <3>1, <3>2, CursorInts
      <3>4. c \in CursorsOf(s)
        BY <2>2, <3>2 DEF CursorsOf
      <3> QED
        BY <2>2, <3>3, <3>4 DEF NewFor
    <2>3. CASE /\ ~(i <= Len(s))
               /\ i - Len(s) \in 1..Len(t) /\ u[i] = t[i - Len(s)]
      <3>1. /\ j - Len(s) \in 1..Len(t) /\ u[j] = t[j - Len(s)]
        <4>1. ~(j <= Len(s))
          BY <1>1, <2>3
        <4> QED
          BY <1>2, <4>1
      <3>2. i - Len(s) < j - Len(s)
        BY <1>1
      <3> QED
        BY <2>3, <3>1, <3>2 DEF InOrder
    <2> QED
      BY <1>2, <2>1, <2>2, <2>3
  <1>5. CursorsOf(u) = CursorsOf(s) \union CursorsOf(t)
    <2>1. ASSUME NEW c \in CursorsOf(u)
          PROVE  c \in CursorsOf(s) \union CursorsOf(t)
      <3>1. PICK i \in 1..Len(u) : c = Cursor(u[i].generation, u[i].seq)
        BY <2>1 DEF CursorsOf
      <3> QED
        BY <1>2, <3>1 DEF CursorsOf
    <2>2. ASSUME NEW c \in CursorsOf(s) \union CursorsOf(t)
          PROVE  c \in CursorsOf(u)
      <3>1. CASE c \in CursorsOf(s)
        <4>1. PICK i \in 1..Len(s) : c = Cursor(s[i].generation, s[i].seq)
          BY <3>1 DEF CursorsOf
        <4> QED
          BY <1>3, <4>1 DEF CursorsOf
      <3>2. CASE c \in CursorsOf(t)
        <4>1. PICK i \in 1..Len(t) : c = Cursor(t[i].generation, t[i].seq)
          BY <3>2 DEF CursorsOf
        <4>2. /\ Len(s) + i \in 1..Len(u)
              /\ c = Cursor(u[Len(s) + i].generation, u[Len(s) + i].seq)
          BY <1>3, <4>1
        <4> QED
          BY <4>2 DEF CursorsOf
      <3> QED
        BY <3>1, <3>2
    <2> QED
      BY <2>1, <2>2
  <1>6. ASSUME NEW past, NewFor(past, s), NewFor(past, t)
        PROVE  NewFor(past, u)
    <2> SUFFICES ASSUME NEW c \in past, NEW i \in 1..Len(u),
                        c.generation = u[i].generation
                 PROVE  c.seq < u[i].seq
      BY DEF NewFor
    <2> QED
      BY <1>2, <1>6 DEF NewFor
  <1> QED
    BY <1>4, <1>5, <1>6 DEF u

\* What a step delivers is in order and new to the page.
DeliversNew ==
    \E some \in Seq(Events) :
        Deliver(some) /\ InOrder(some) /\ NewFor(Past, some)

\* New events in order are delivered in order, and the cursor that is saved
\* is the one that the page has folded.
LEMMA DeliverOrder ==
    ASSUME ClientTyped, InOrder(delivered), saved = view.cursor,
           NEW some \in Seq(Events), InOrder(some), NewFor(Past, some),
           Deliver(some)
    PROVE  /\ saved' = view'.cursor /\ InOrder(delivered')
           /\ \A c \in Past' : c \in Past \/ c \in CursorsOf(some)
  <1>1. /\ view' = FoldLeft(OnEvent, view, some)
        /\ saved' = IF some = <<>> THEN saved
                    ELSE Cursor(Last(some).generation, Last(some).seq)
        /\ delivered' = delivered \o some
    BY DEF Deliver
  <1>2. /\ view \in Views /\ delivered \in Seq(Events)
        /\ {view.cursor} \subseteq Past /\ CursorsOf(delivered) \subseteq Past
    BY DEF ClientTyped, Past
  <1>3. NewFor({view.cursor}, some) /\ NewFor(CursorsOf(delivered), some)
    BY <1>2 DEF NewFor
  <1>4. /\ InOrder(delivered')
        /\ CursorsOf(delivered') = CursorsOf(delivered)
                                     \union CursorsOf(some)
    BY <1>1, <1>2, <1>3, InOrderConcat
  <1>5. CASE some = <<>>
    <2>1. view' = view
      BY <1>1, <1>5, FoldNothing
    <2>2. saved' = saved
      BY <1>1, <1>5
    <2> QED
      BY <1>4, <2>1, <2>2 DEF Past
  <1>6. CASE some # <<>>
    <2>1. Last(some) = some[Len(some)] /\ Len(some) \in 1..Len(some)
      BY <1>6 DEF Last
    <2>2. view'.cursor
            = Cursor(some[Len(some)].generation, some[Len(some)].seq)
      BY <1>1, <1>2, <1>3, <1>6, FoldCursor
    <2>3. saved' = view'.cursor
      BY <1>1, <1>6, <2>1, <2>2
    <2>4. view'.cursor \in CursorsOf(some)
      BY <2>1, <2>2 DEF CursorsOf
    <2> QED
      BY <1>4, <2>3, <2>4 DEF Past
  <1> QED
    BY <1>5, <1>6

-----------------------------------------------------------------------------
(* The pages that the client gets, and where they leave it. *)

\* A page, and what the client takes of it, for a cursor at or before it.
LEMMA PageOrder ==
    ASSUME StampInv, up, NEW after \in Nat, NEW n \in Nat, n <= after
    PROVE  /\ List(after) \in Seq(Events)
           /\ NewTo(List(after), n) \in Seq(Events)
           /\ PageIs(List(after), after, Gen, Top, Floor)
           /\ PageIs(NewTo(List(after), n), after, Gen, Top, Floor)
  <1>1. /\ events \in Seq(Events) /\ EndsAt(events, sequence)
        /\ Stamped(events, Gen)
        /\ Gen = generation /\ Top = sequence
        /\ Floor = sequence - Len(events) + 1
    BY StampFacts DEF StampInv, OneGeneration
  <1>2. /\ sequence \in Nat /\ Len(events) \in Nat /\ PageLimit \in Nat
        /\ after \in Int /\ n \in Int
    BY <1>1, StampNumbers, StoreAssumption
  <1>3. ASSUME NEW j \in 1..Len(events)
        PROVE  /\ events[j].generation = Gen /\ events[j].seq \in Nat
               /\ events[j].seq <= Top /\ Floor <= events[j].seq
    <2>1. events[j].seq = sequence - Len(events) + j
      BY <1>1, <1>2, EndsMeans
    <2>2. events[j] \in Events
      BY <1>1
    <2>3. events[j].seq \in Nat
      BY <2>2, EventTypes
    <2>4. events[j].seq <= Top /\ Floor <= events[j].seq
      BY <1>1, <1>2, <2>1
    <2>5. events[j].generation = Gen
      BY <1>1 DEF Stamped
    <2> QED
      BY <2>3, <2>4, <2>5
  <1>4. PICK s \in Seq(Events) :
          /\ s = Beyond(events, after) /\ EndsAt(s, sequence)
          /\ \A i \in 1..Len(s) :
               /\ s[i].seq > after
               /\ \E j \in 1..Len(events) : s[i] = events[j]
    <2> DEFINE s == Beyond(events, after)
    <2>1. /\ s \in Seq(Events) /\ EndsAt(s, sequence)
          /\ \A i \in DOMAIN s :
               /\ s[i].seq > after
               /\ \E j \in 1..Len(events) : s[i] = events[j]
      <3>1. events \in Seq(Events) /\ EndsAt(events, sequence)
        BY <1>1
      <3>2. sequence \in Int /\ after \in Int
        BY <1>2
      <3> QED
        BY <3>1, <3>2, BeyondFacts
    <2> HIDE DEF s
    <2>2. DOMAIN s = 1..Len(s)
      BY <2>1, EventTypes
    <2> QED
      BY <2>1, <2>2 DEF s
  <1>5. PICK k \in Int, q \in Seq(Events) :
          /\ q = List(after) /\ EndsAt(q, k)
          /\ \A i \in 1..Len(q) : i \in 1..Len(s) /\ q[i] = s[i]
    <2> DEFINE q == FirstOf(s, PageLimit)
    <2>1. /\ q \in Seq(Events)
          /\ Len(q) = (IF Len(s) < PageLimit THEN Len(s) ELSE PageLimit)
          /\ \A i \in 1..Len(q) : q[i] = s[i]
      BY <1>2, FirstOfFacts
    <2>2. PICK k \in Int : EndsAt(q, k)
      BY <1>2, <1>4, FirstOfEnds
    <2>3. q = List(after)
      BY <1>4 DEF List
    <2> HIDE DEF q
    <2>4. Len(s) \in Nat /\ Len(q) <= Len(s)
      BY <1>2, <2>1
    <2>5. \A i \in 1..Len(q) : i \in 1..Len(s)
      BY <2>1, <2>4
    <2> QED
      BY <2>1, <2>2, <2>3, <2>5
  <1>6. ASSUME NEW i \in 1..Len(q)
        PROVE  /\ q[i].generation = Gen /\ q[i].seq > after
               /\ q[i].seq <= Top /\ Floor <= q[i].seq
    <2>1. q[i] = s[i] /\ i \in 1..Len(s)
      BY <1>5
    <2>2. PICK j \in 1..Len(events) : s[i] = events[j]
      BY <1>4, <2>1
    <2> QED
      BY <1>3, <1>4, <2>1, <2>2
  <1>7. ASSUME NEW p \in Seq(Events), NEW m \in Int, EndsAt(p, m),
               \A i \in 1..Len(p) : \E j \in 1..Len(q) : p[i] = q[j]
        PROVE  PageIs(p, after, Gen, Top, Floor)
    <2>1. \A i \in 1..Len(p) :
            /\ p[i].generation = Gen /\ p[i].seq > after
            /\ p[i].seq <= Top /\ Floor <= p[i].seq
      <3> SUFFICES ASSUME NEW i \in 1..Len(p)
                   PROVE  /\ p[i].generation = Gen /\ p[i].seq > after
                          /\ p[i].seq <= Top /\ Floor <= p[i].seq
        OBVIOUS
      <3>1. PICK j \in 1..Len(q) : p[i] = q[j]
        BY <1>7
      <3> QED
        BY <1>6, <3>1
    <2>2. Len(p) \in Nat /\ \A i \in 1..Len(p) : p[i].seq = m - Len(p) + i
      BY <1>7, EndsMeans
    <2>3. ASSUME NEW i \in 1..Len(p), NEW j \in 1..Len(p), i < j
          PROVE  p[i].seq < p[j].seq
      <3>1. m - Len(p) + i < m - Len(p) + j
        BY <2>2, <2>3
      <3>2. p[i].seq = m - Len(p) + i /\ p[j].seq = m - Len(p) + j
        BY <2>2
      <3> QED
        BY <3>1, <3>2
    <2> QED
      BY <2>1, <2>3 DEF PageIs
  <1>8. PageIs(q, after, Gen, Top, Floor)
    BY <1>5, <1>7
  <1>9. PICK p \in Seq(Events) :
          /\ p = NewTo(q, n) /\ EndsAt(p, k)
          /\ \A i \in 1..Len(p) : \E j \in 1..Len(q) : p[i] = q[j]
    <2> DEFINE p == Beyond(q, n)
    <2>1. /\ p \in Seq(Events) /\ EndsAt(p, k)
          /\ \A i \in DOMAIN p : \E j \in 1..Len(q) : p[i] = q[j]
      BY <1>2, <1>5, BeyondFacts
    <2>2. p = NewTo(q, n)
      BY DEF NewTo
    <2> HIDE DEF p
    <2>3. DOMAIN p = 1..Len(p)
      BY <2>1, EventTypes
    <2>4. \A i \in 1..Len(p) : \E j \in 1..Len(q) : p[i] = q[j]
      BY <2>1, <2>3
    <2> p \in Seq(Events)
      BY <2>1
    <2> WITNESS p \in Seq(Events)
    <2> QED
      BY <2>1, <2>2, <2>4
  <1>10. PageIs(p, after, Gen, Top, Floor)
    BY <1>7, <1>9
  <1> QED
    BY <1>5, <1>8, <1>9, <1>10

\* The event in hand, unless the cursor has passed it.
LEMMA OneNewOrder ==
    ASSUME NEW e \in Events, NEW n \in Nat
    PROVE  /\ NewTo(<<e>>, n) \in Seq(Events)
           /\ e.seq > n => Len(NewTo(<<e>>, n)) = 1
           /\ ~(e.seq > n) => NewTo(<<e>>, n) = <<>>
           /\ \A i \in 1..Len(NewTo(<<e>>, n)) :
                i = 1 /\ NewTo(<<e>>, n)[i] = e
  <1> DEFINE s == <<e>>
             r == Beyond(s, n)
             k == CountUpTo(s, n)
  <1>1. /\ s \in Seq(Events) /\ Len(s) = 1 /\ s[1] = e /\ DOMAIN s = {1}
        /\ e.seq \in Int /\ n \in Int
    BY EventTypes
  <1> HIDE DEF s
  <1>2. EndsAt(s, e.seq)
    BY <1>1 DEF EndsAt
  <1>3. /\ k \in 0..Len(s)
        /\ \A i \in 1..Len(s) : s[i].seq <= n <=> i <= k
    BY <1>1, <1>2, CountUpToFacts
  <1>4. /\ r \in Seq(Events) /\ Len(r) = Len(s) - k
        /\ \A i \in DOMAIN r : \E j \in 1..Len(s) : r[i] = s[j]
    BY <1>1, <1>2, BeyondFacts
  <1> HIDE DEF r, k
  <1>5. k \in 0..1 /\ (e.seq <= n <=> 1 <= k)
    <2>1. 1 \in 1..Len(s)
      BY <1>1
    <2> QED
      BY <1>1, <1>3, <2>1
  <1>6. Len(r) = 1 - k
    BY <1>1, <1>4
  <1>7. e.seq > n => Len(r) = 1
    BY <1>1, <1>5, <1>6
  <1>8. ~(e.seq > n) => r = <<>>
    <2> SUFFICES ASSUME ~(e.seq > n) PROVE r = <<>>
      OBVIOUS
    <2>1. Len(r) = 0
      BY <1>1, <1>5, <1>6
    <2> QED
      BY <1>4, <2>1
  <1>9. ASSUME NEW i \in 1..Len(r) PROVE i = 1 /\ r[i] = e
    <2>1. i = 1
      BY <1>5, <1>6
    <2>2. i \in DOMAIN r
      BY <1>4
    <2>3. PICK j \in 1..Len(s) : r[i] = s[j]
      BY <1>4, <2>2
    <2>4. j = 1
      BY <1>1
    <2> QED
      BY <1>1, <2>1, <2>3, <2>4
  <1>10. r = NewTo(<<e>>, n)
    BY DEF r, s, NewTo
  <1> QED
    BY <1>4, <1>7, <1>8, <1>9, <1>10

\* The cursor after some events in order has passed them all.
Rising(some) ==
    \A i, j \in 1..Len(some) : i < j => some[i].seq < some[j].seq

LEMMA AfterOrder ==
    ASSUME NEW c \in Cursors, NEW some \in Seq(Events), Rising(some)
    PROVE  /\ After(c, some) \in Cursors
           /\ After(c, some).seq \in Nat
           /\ After(c, some).generation = c.generation
           /\ some = <<>> => After(c, some) = c
           /\ \A i \in 1..Len(some) : some[i].seq <= After(c, some).seq
           /\ some # <<>> => /\ Len(some) \in 1..Len(some)
                             /\ After(c, some).seq = some[Len(some)].seq
  <1>1. CASE some = <<>>
    <2>1. After(c, some) = c /\ Len(some) = 0
      BY <1>1 DEF After
    <2>2. c.seq \in Nat
      BY CursorInts
    <2> QED
      BY <1>1, <2>1, <2>2
  <1>2. CASE some # <<>>
    <2>1. /\ Last(some) = some[Len(some)] /\ Len(some) \in 1..Len(some)
          /\ Len(some) \in Nat
      BY <1>2 DEF Last
    <2>2. After(c, some) = [c EXCEPT !.seq = some[Len(some)].seq]
      BY <1>2, <2>1 DEF After
    <2>3. some[Len(some)].seq \in Nat
      BY <2>1, EventTypes
    <2>4. /\ After(c, some) \in Cursors
          /\ After(c, some).seq = some[Len(some)].seq
          /\ After(c, some).generation = c.generation
      BY <2>2, <2>3 DEF Cursors
    <2>5. ASSUME NEW i \in 1..Len(some)
          PROVE  some[i].seq <= some[Len(some)].seq
      <3>1. some[i].seq \in Nat
        BY EventTypes
      <3>2. CASE i = Len(some)
        BY <2>3, <3>2
      <3>3. CASE i # Len(some)
        <4>1. i < Len(some)
          BY <2>1, <3>3
        <4>2. some[i].seq < some[Len(some)].seq
          BY <2>1, <4>1 DEF Rising
        <4> QED
          BY <2>3, <3>1, <4>2
      <3> QED
        BY <3>2, <3>3
    <2> QED
      BY <1>2, <2>1, <2>3, <2>4, <2>5
  <1> QED
    BY <1>1, <1>2

LEMMA PageRises ==
    ASSUME NEW p \in Seq(Events), NEW n, NEW g, NEW top, NEW floor,
           PageIs(p, n, g, top, floor)
    PROVE  Rising(p) /\ InOrder(p)
  BY DEF PageIs, Rising, InOrder

\* A page is new to whoever knows no more than the client.
LEMMA PageIsNew ==
    ASSUME NEW cur \in Cursors, NEW past \in SUBSET Cursors,
           NEW g \in Nat, NEW top \in Nat, NEW floor \in Nat,
           CursorKnows(cur, past, g, top, floor),
           NEW p \in Seq(Events), PageIs(p, cur.seq, g, top, floor)
    PROVE  NewFor(past, p)
  <1> SUFFICES ASSUME NEW c \in past, NEW i \in 1..Len(p),
                      c.generation = p[i].generation
               PROVE  c.seq < p[i].seq
    BY DEF NewFor
  <1>1. c.seq \in Nat /\ cur.seq \in Nat /\ p[i].seq \in Nat
    BY CursorInts, EventTypes
  <1>2. /\ p[i].generation = g /\ p[i].seq > cur.seq /\ floor <= p[i].seq
    BY DEF PageIs
  <1>3. c.seq <= cur.seq \/ c.seq < floor
    BY <1>2 DEF CursorKnows
  <1> QED
    BY <1>1, <1>2, <1>3

-----------------------------------------------------------------------------
(* The steps of the client. *)

LEMMA PastTypes ==
    /\ \A some \in Seq(Events) : CursorsOf(some) \in SUBSET Cursors
    /\ \A v \in Views : v.cursor \in Cursors
    /\ ClientTyped => Past \in SUBSET Cursors
  <1>1. ASSUME NEW some \in Seq(Events)
        PROVE  CursorsOf(some) \in SUBSET Cursors
    <2>1. \A i \in 1..Len(some) :
            Cursor(some[i].generation, some[i].seq) \in Cursors
      BY CursorInts
    <2> QED
      BY <2>1 DEF CursorsOf
  <1>2. \A v \in Views : v.cursor \in Cursors
    BY DEF Views
  <1>3. ClientTyped => Past \in SUBSET Cursors
    BY <1>1, <1>2 DEF ClientTyped, Past
  <1> QED
    BY <1>1, <1>2, <1>3

LEMMA StoreSame ==
    ASSUME UNCHANGED storeVars
    PROVE  Gen' = Gen /\ Top' = Top /\ Floor' = Floor /\ lost' = lost
  BY DEF storeVars, Gen, Top, Floor

\* A client that follows a stream and gets new events, while its cursor moves
\* past them.
LEMMA StreamDelivers ==
    ASSUME ClientTyped, ClientTyped', StampInv, NothingTwice,
           Gen' = Gen, Top' = Top, Floor' = Floor,
           client.at \in Streams, client'.at = "read", conn' = conn,
           ~Resetting(frames), ~Resetting(frames'), IsRest(frames', frames),
           client.cursor.generation <= client'.cursor.generation,
           client'.cursor.generation <= Gen,
           client.cursor.seq <= client'.cursor.seq,
           NEW some \in Seq(Events), Deliver(some),
           InOrder(some), NewFor(Past, some),
           \A i \in 1..Len(some) :
             /\ some[i].generation <= client'.cursor.generation
             /\ some[i].generation = Gen => some[i].seq <= Top
             /\ some[i].seq <= client'.cursor.seq
    PROVE  NothingTwice'
  <1> DEFINE cur == client.cursor
             cur2 == client'.cursor
  <1>1. /\ cur \in Cursors /\ cur2 \in Cursors
        /\ frames \in Seq(Frames) /\ frames' \in Seq(Frames)
    BY DEF ClientTyped, Clients
  <1>2. Past \in SUBSET Cursors /\ CursorsOf(some) \in SUBSET Cursors
    BY PastTypes
  <1>3. Gen \in Nat /\ Top \in Nat /\ Floor \in Nat
    BY StampNats
  <1>4. /\ CursorKnows(cur, Past, Gen, Top, Floor)
        /\ FramesFollow(frames, cur, Past, Gen, Top, Floor)
        /\ conn = "open" => OpenFollows(frames, cur, Gen)
        /\ InOrder(delivered) /\ saved = view.cursor
    BY DEF NothingTwice
  <1>5. /\ saved' = view'.cursor /\ InOrder(delivered')
        /\ \A c \in Past' : c \in Past \/ c \in CursorsOf(some)
    BY <1>4, DeliverOrder
  <1>6. Past' \in SUBSET Cursors
    BY <1>2, <1>5
  <1>7. /\ cur.generation <= cur2.generation /\ cur2.generation <= Gen
        /\ cur.seq <= cur2.seq
    OBVIOUS
  <1>8. ASSUME NEW c \in Past', c \notin Past
        PROVE  /\ c.generation <= cur2.generation
               /\ c.generation = Gen => c.seq <= Top
               /\ c.seq <= cur2.seq
    <2>1. PICK i \in 1..Len(some) :
                 c = Cursor(some[i].generation, some[i].seq)
      BY <1>5, <1>8 DEF CursorsOf
    <2>2. c.generation = some[i].generation /\ c.seq = some[i].seq
      BY <2>1, CursorInts
    <2> QED
      BY <2>2
  <1> HIDE DEF cur, cur2
  <1>9. CursorKnows(cur2, Past', Gen, Top, Floor)
    BY <1>1, <1>2, <1>3, <1>4, <1>6, <1>7, <1>8, KnowsMore
  <1>10. FramesFollow(frames', cur2, Past', Gen, Top, Floor)
    <2>1. \A c \in Past' : c \in Past \/ c.seq <= cur2.seq
      BY <1>8
    <2> QED
      BY <1>1, <1>2, <1>3, <1>4, <1>6, <1>7, <2>1, FollowMore
  <1>11. conn = "open" => OpenFollows(frames', cur2, Gen)
    <2> SUFFICES ASSUME conn = "open"
                 PROVE  OpenFollows(frames', cur2, Gen)
      OBVIOUS
    <2>1. OpenFollows(frames, cur, Gen)
      BY <1>4
    <2>2. cur.generation = Gen
      BY <2>1 DEF OpenFollows
    <2>3. cur2.generation \in Nat
      BY <1>1, CursorInts
    <2>4. cur2.generation = Gen
      BY <1>3, <1>7, <2>2, <2>3
    <2> QED
      BY <1>1, <2>1, <2>4, OpenMore
  <1> QED
    BY <1>5, <1>9, <1>10, <1>11 DEF NothingTwice, cur2

LEMMA ReadEventOrder ==
    ASSUME ClientTyped, ClientTyped', StampInv, PlacesFit, NothingTwice,
           ReadEvent
    PROVE  NothingTwice' /\ DeliversNew
  <1> DEFINE e == Head(frames).event
             some == NewTo(<<e>>, client.cursor.seq)
             cur == client.cursor
             cur2 == After(cur, some)
  <1>1. /\ client.at = "read" /\ frames # <<>> /\ ~Head(frames).reset
        /\ Deliver(some) /\ frames' = Tail(frames)
        /\ client' = [client EXCEPT !.cursor = cur2]
        /\ conn' = conn /\ UNCHANGED storeVars
    BY DEF ReadEvent
  <1>2. /\ cur \in Cursors /\ cur.seq \in Nat /\ client \in Clients
        /\ frames \in Seq(Frames)
    BY ClientFacts
  <1>3. /\ IsRest(frames', frames)
        /\ Head(frames) = frames[1] /\ 1 \in 1..Len(frames)
        /\ ~Resetting(frames')
    BY <1>1, <1>2, RestFacts DEF PlacesFit
  <1>4. ~Resetting(frames)
    BY <1>1, <1>3 DEF Resetting
  <1>5. e \in Events /\ e.seq \in Nat /\ e.generation \in Nat
    BY <1>1, <1>2, <1>3, CursorInts
  <1>6. EventFits(e, frames, cur, Past, Gen, Top)
    BY <1>1, <1>3 DEF NothingTwice, FramesFollow
  <1> HIDE DEF e
  <1>7. /\ some \in Seq(Events)
        /\ e.seq > cur.seq => Len(some) = 1
        /\ ~(e.seq > cur.seq) => some = <<>>
        /\ \A i \in 1..Len(some) : i = 1 /\ some[i] = e
    BY <1>2, <1>5, OneNewOrder
  <1> HIDE DEF some
  <1>8. Rising(some) /\ InOrder(some)
    BY <1>7 DEF Rising, InOrder
  <1>9. /\ cur2 \in Cursors /\ cur2.generation = cur.generation
        /\ cur2.seq \in Nat
        /\ some = <<>> => cur2 = cur
        /\ \A i \in 1..Len(some) : some[i].seq <= cur2.seq
    BY <1>2, <1>7, <1>8, AfterOrder
  <1> HIDE DEF cur2
  <1>10. client'.at = "read" /\ client'.cursor = cur2
    BY <1>1, <1>2, <1>9, ClientTypes DEF Clients
  <1>11. cur.seq <= cur2.seq
    <2>1. CASE e.seq > cur.seq
      <3>0. 1 \in 1..Len(some)
        <4>1. Len(some) = 1
          BY <1>7, <2>1
        <4> QED
          BY <4>1
      <3>1. 1 \in 1..Len(some) /\ some[1] = e
        BY <1>7, <3>0
      <3>2. e.seq <= cur2.seq
        BY <1>9, <3>1
      <3> QED
        BY <1>2, <1>5, <1>9, <2>1, <3>2
    <2>2. CASE ~(e.seq > cur.seq)
      BY <1>2, <1>7, <1>9, <2>2
    <2> QED
      BY <2>1, <2>2
  <1>12. client.at \in Streams
    BY <1>1 DEF Streams
  <1>13. CursorKnows(cur, Past, Gen, Top, Floor)
    BY <1>12 DEF NothingTwice
  <1>14. /\ cur.generation \in Nat /\ Gen \in Nat /\ Top \in Nat
         /\ cur.generation <= Gen
    BY <1>2, <1>13, CursorInts, StampNats DEF CursorKnows
  <1>15. NewFor(Past, some)
    <2> SUFFICES ASSUME NEW c \in Past, NEW i \in 1..Len(some),
                        c.generation = some[i].generation
                 PROVE  c.seq < some[i].seq
      BY DEF NewFor
    <2>1. some[i] = e /\ e.seq > cur.seq
      <3>1. Len(some) = 0 => FALSE
        OBVIOUS
      <3> QED
        BY <1>7, <3>1
    <2>2. c.seq < e.seq \/ e.seq <= cur.seq
      BY <1>4, <1>6, <2>1 DEF EventFits
    <2> QED
      BY <1>2, <1>5, <2>1, <2>2
  <1>16. ASSUME NEW i \in 1..Len(some)
         PROVE  /\ some[i].generation <= cur2.generation
                /\ some[i].generation = Gen => some[i].seq <= Top
                /\ some[i].seq <= cur2.seq
    <2>1. some[i] = e
      BY <1>7
    <2>2. /\ e.generation <= cur.generation
          /\ e.generation = Gen => e.seq <= Top
      BY <1>4, <1>6 DEF EventFits
    <2> QED
      BY <1>9, <2>1, <2>2
  <1> HIDE DEF cur
  <1>17. /\ cur.generation <= cur2.generation /\ cur2.generation <= Gen
    BY <1>9, <1>14
  <1>18. client.cursor = cur
    BY DEF cur
  <1>19. DeliversNew
    BY <1>1, <1>7, <1>8, <1>15 DEF DeliversNew
  <1>20. NothingTwice'
    BY <1>1, <1>3, <1>4, <1>7, <1>8, <1>10, <1>11, <1>12, <1>15, <1>16, <1>17,
       <1>18, StoreSame, StreamDelivers
  <1> QED
    BY <1>19, <1>20

LEMMA ResetPageOrder ==
    ASSUME ClientTyped, ClientTyped', StampInv, PlacesFit, NothingTwice,
           ResetPage, ~mixed'
    PROVE  NothingTwice' /\ DeliversNew
  <1> DEFINE cur == client.cursor
             some == NewTo(List(cur.seq), cur.seq)
             cur2 == After(cur, some)
  <1>1. /\ client.at = "reset" /\ up /\ Deliver(some)
        /\ client' = [at |-> "read", cursor |-> cur2]
        /\ frames' = frames /\ conn' = conn /\ UNCHANGED storeVars
        /\ generation = cur.generation
    BY DEF ResetPage
  <1>2. /\ cur \in Cursors /\ cur.seq \in Nat /\ client \in Clients
        /\ frames \in Seq(Frames)
    BY ClientFacts
  <1>3. ~Resetting(frames) /\ IsRest(frames, frames)
    BY <1>1, <1>2, RestFacts DEF PlacesFit
  <1>4. client.at \in Streams
    BY <1>1 DEF Streams
  <1>5. CursorKnows(cur, Past, Gen, Top, Floor)
    BY <1>4 DEF NothingTwice
  <1>6. /\ some \in Seq(Events)
        /\ PageIs(some, cur.seq, Gen, Top, Floor)
    <2>1. cur.seq <= cur.seq
      BY <1>2
    <2> QED
      BY <1>1, <1>2, <2>1, PageOrder
  <1>7. /\ Gen \in Nat /\ Top \in Nat /\ Floor \in Nat
        /\ Past \in SUBSET Cursors /\ cur.generation \in Nat
    BY <1>2, StampNats, PastTypes, CursorInts
  <1> HIDE DEF some, cur
  <1>8. Rising(some) /\ InOrder(some) /\ NewFor(Past, some)
    BY <1>2, <1>5, <1>6, <1>7, PageRises, PageIsNew
  <1>9. /\ cur2 \in Cursors /\ cur2.generation = cur.generation
        /\ cur2.seq \in Nat
        /\ some = <<>> => cur2 = cur
        /\ \A i \in 1..Len(some) : some[i].seq <= cur2.seq
        /\ some # <<>> => /\ Len(some) \in 1..Len(some)
                          /\ cur2.seq = some[Len(some)].seq
    BY <1>2, <1>6, <1>8, AfterOrder
  <1> HIDE DEF cur2
  <1>10. Gen = cur.generation
    BY <1>1, StampFacts
  <1>11. cur.seq <= cur2.seq
    <2>1. CASE some = <<>>
      BY <1>2, <1>9, <2>1
    <2>2. CASE some # <<>>
      <3>1. cur2.seq > cur.seq
        BY <1>6, <1>9, <2>2 DEF PageIs
      <3> QED
        BY <1>2, <1>9, <3>1
    <2> QED
      BY <2>1, <2>2
  <1>12. ASSUME NEW i \in 1..Len(some)
         PROVE  /\ some[i].generation <= cur2.generation
                /\ some[i].generation = Gen => some[i].seq <= Top
                /\ some[i].seq <= cur2.seq
    <2>1. some[i].generation = Gen /\ some[i].seq <= Top
      BY <1>6 DEF PageIs
    <2> QED
      BY <1>7, <1>9, <1>10, <2>1
  <1>13. /\ cur.generation <= cur2.generation /\ cur2.generation <= Gen
    BY <1>7, <1>9, <1>10
  <1>14. /\ client.cursor = cur /\ client'.cursor = cur2
         /\ client'.at = "read"
    BY <1>1 DEF cur
  <1>15. DeliversNew
    BY <1>1, <1>6, <1>8 DEF DeliversNew
  <1>16. NothingTwice'
    BY <1>1, <1>3, <1>4, <1>6, <1>8, <1>11, <1>12, <1>13, <1>14, StoreSame,
       StreamDelivers
  <1> QED
    BY <1>15, <1>16

AllBefore(s, t) ==
    \A i \in 1..Len(s), j \in 1..Len(t) : s[i].seq < t[j].seq

LEMMA ConcatElements ==
    ASSUME NEW s \in Seq(Events), NEW t \in Seq(Events)
    PROVE  /\ s \o t \in Seq(Events)
           /\ \A i \in 1..Len(s \o t) :
                \/ \E j \in 1..Len(s) : (s \o t)[i] = s[j]
                \/ \E j \in 1..Len(t) : (s \o t)[i] = t[j]
           /\ \A j \in 1..Len(s) :
                j \in 1..Len(s \o t) /\ (s \o t)[j] = s[j]
           /\ \A j \in 1..Len(t) :
                /\ Len(s) + j \in 1..Len(s \o t)
                /\ (s \o t)[Len(s) + j] = t[j]
           /\ Rising(s) /\ Rising(t) /\ AllBefore(s, t) => Rising(s \o t)
  <1> DEFINE u == s \o t
  <1>1. /\ Len(s) \in Nat /\ Len(t) \in Nat /\ Len(u) = Len(s) + Len(t)
        /\ u \in Seq(Events)
        /\ \A i \in 1..(Len(s) + Len(t)) :
             u[i] = IF i <= Len(s) THEN s[i] ELSE t[i - Len(s)]
    BY ConcatProperties
  <1> HIDE DEF u
  <1>2. ASSUME NEW i \in 1..Len(u)
        PROVE  \/ i \in 1..Len(s) /\ u[i] = s[i]
               \/ /\ ~(i <= Len(s))
                  /\ i - Len(s) \in 1..Len(t) /\ u[i] = t[i - Len(s)]
    <2>1. CASE i <= Len(s)
      <3>1. i \in 1..Len(s)
        BY <1>1, <2>1
      <3> QED
        BY <1>1, <2>1, <3>1
    <2>2. CASE ~(i <= Len(s))
      <3>1. i - Len(s) \in 1..Len(t)
        BY <1>1, <2>2
      <3> QED
        BY <1>1, <2>2, <3>1
    <2> QED
      BY <2>1, <2>2
  <1>3. ASSUME NEW j \in 1..Len(s) PROVE j \in 1..Len(u) /\ u[j] = s[j]
    BY <1>1
  <1>4. ASSUME NEW j \in 1..Len(t)
        PROVE  Len(s) + j \in 1..Len(u) /\ u[Len(s) + j] = t[j]
    <2>1. /\ Len(s) + j \in 1..Len(u) /\ ~(Len(s) + j <= Len(s))
          /\ (Len(s) + j) - Len(s) = j
      BY <1>1
    <2> QED
      BY <1>1, <2>1
  <1>5. ASSUME Rising(s), Rising(t), AllBefore(s, t)
        PROVE  Rising(u)
    <2> SUFFICES ASSUME NEW i \in 1..Len(u), NEW j \in 1..Len(u), i < j
                 PROVE  u[i].seq < u[j].seq
      BY DEF Rising
    <2>1. CASE i \in 1..Len(s) /\ u[i] = s[i] /\ j \in 1..Len(s)
      <3>1. u[j] = s[j]
        BY <1>3, <2>1
      <3> QED
        BY <1>5, <2>1, <3>1 DEF Rising
    <2>2. CASE /\ i \in 1..Len(s) /\ u[i] = s[i]
               /\ j - Len(s) \in 1..Len(t) /\ u[j] = t[j - Len(s)]
      BY <1>5, <2>2 DEF AllBefore
    <2>3. CASE /\ ~(i <= Len(s))
               /\ i - Len(s) \in 1..Len(t) /\ u[i] = t[i - Len(s)]
      <3>1. j - Len(s) \in 1..Len(t) /\ u[j] = t[j - Len(s)]
        <4>1. ~(j <= Len(s))
          BY <1>1, <2>3
        <4> QED
          BY <1>2, <4>1
      <3>2. i - Len(s) < j - Len(s)
        BY <1>1
      <3> QED
        BY <1>5, <2>3, <3>1, <3>2 DEF Rising
    <2> QED
      BY <1>2, <2>1, <2>2, <2>3
  <1>6. \A i \in 1..Len(u) : \/ \E j \in 1..Len(s) : u[i] = s[j]
                            \/ \E j \in 1..Len(t) : u[i] = t[j]
    BY <1>2
  <1> QED
    BY <1>1, <1>3, <1>4, <1>5, <1>6 DEF u

LEMMA CatchUpOrder ==
    ASSUME ClientTyped, ClientTyped', CatchesUp, StoreInv, StampInv,
           PlacesFit, NothingTwice, CatchUp
    PROVE  NothingTwice' /\ DeliversNew
  <1> DEFINE cur == client.cursor
             e == Head(frames).event
             from == IF ResetRequired(cur.seq, cur.generation)
                     THEN Cursor(generation, 0) ELSE cur
             missed == NewTo(List(cur.seq), from.seq)
             mid == After(from, missed)
             rest == NewTo(<<e>>, mid.seq)
             all == missed \o rest
             cur2 == After(from, all)
  <1>1. /\ client.at = "catchUp" /\ up /\ Deliver(all)
        /\ client' = [at |-> "read", cursor |-> cur2]
        /\ frames' = Tail(frames) /\ conn' = conn /\ UNCHANGED storeVars
    BY DEF CatchUp
  <1>2. /\ cur \in Cursors /\ cur.seq \in Nat /\ client \in Clients
        /\ frames \in Seq(Frames) /\ cur.generation \in Nat
    BY ClientFacts, CursorInts
  <1>3. frames # <<>> /\ ~Head(frames).reset
    BY <1>1 DEF CatchesUp
  <1>4. /\ IsRest(frames', frames)
        /\ Head(frames) = frames[1] /\ 1 \in 1..Len(frames)
        /\ ~Resetting(frames')
    BY <1>1, <1>2, <1>3, RestFacts DEF PlacesFit
  <1>5. ~Resetting(frames)
    BY <1>3, <1>4 DEF Resetting
  <1>6. e \in Events /\ e.seq \in Nat /\ e.generation \in Nat
    BY <1>2, <1>3, <1>4, CursorInts
  <1>7. EventFits(e, frames, cur, Past, Gen, Top) /\ e.seq > cur.seq + 1
    BY <1>1, <1>3, <1>4 DEF NothingTwice, FramesFollow, PlacesFit
  <1> HIDE DEF e
  <1>8. client.at \in Streams
    BY <1>1 DEF Streams
  <1>9. CursorKnows(cur, Past, Gen, Top, Floor)
    BY <1>8 DEF NothingTwice
  <1>10. /\ Gen \in Nat /\ Top \in Nat /\ Floor \in Nat
         /\ Past \in SUBSET Cursors
         /\ Gen = generation /\ generation \in Generations
    BY <1>1, StampNats, StampFacts, PastTypes
  <1>11. /\ from \in Cursors /\ from.seq \in Nat /\ from.seq <= cur.seq
         /\ from.generation = Gen
    <2>1. CASE ResetRequired(cur.seq, cur.generation)
      <3>1. from = Cursor(generation, 0)
        BY <2>1
      <3>2. from \in Cursors
        BY <1>10, <3>1, CursorTypes
      <3>3. from.seq = 0 /\ from.generation = generation
        BY <3>1 DEF Cursor
      <3> HIDE DEF from
      <3> QED
        BY <1>2, <1>10, <3>2, <3>3
    <2>2. CASE ~ResetRequired(cur.seq, cur.generation)
      <3>1. from = cur
        BY <2>2
      <3>2. 1 <= cur.generation
        BY <1>9 DEF CursorKnows
      <3>3. cur.generation # NoGeneration
        BY <1>2, <3>2 DEF NoGeneration
      <3>4. cur.generation = generation
        BY <2>2, <3>3 DEF ResetRequired
      <3> HIDE DEF from
      <3> QED
        BY <1>2, <1>10, <3>1, <3>4
    <2> QED
      BY <2>1, <2>2
  <1> HIDE DEF from
  <1>12. /\ missed \in Seq(Events)
         /\ PageIs(missed, cur.seq, Gen, Top, Floor)
    BY <1>1, <1>2, <1>11, PageOrder
  <1> HIDE DEF missed, cur
  <1>13. Rising(missed) /\ InOrder(missed) /\ NewFor(Past, missed)
    BY <1>2, <1>9, <1>10, <1>12, PageRises, PageIsNew
  <1>14. /\ mid \in Cursors /\ mid.seq \in Nat
         /\ missed = <<>> => mid = from
         /\ \A i \in 1..Len(missed) : missed[i].seq <= mid.seq
         /\ missed # <<>> => /\ Len(missed) \in 1..Len(missed)
                             /\ mid.seq = missed[Len(missed)].seq
    BY <1>11, <1>12, <1>13, AfterOrder
  <1> HIDE DEF mid
  <1>15. /\ rest \in Seq(Events)
         /\ e.seq > mid.seq => Len(rest) = 1
         /\ ~(e.seq > mid.seq) => rest = <<>>
         /\ \A i \in 1..Len(rest) : i = 1 /\ rest[i] = e
    BY <1>6, <1>14, OneNewOrder
  <1> HIDE DEF rest
  <1>16. Rising(rest) /\ InOrder(rest)
    BY <1>15 DEF Rising, InOrder
  <1>17. ASSUME NEW i \in 1..Len(rest) PROVE rest[i] = e /\ e.seq > mid.seq
    <2>1. Len(rest) = 0 => FALSE
      OBVIOUS
    <2> QED
      BY <1>15, <2>1
  <1>18. ASSUME NEW i \in 1..Len(missed), NEW j \in 1..Len(rest)
         PROVE  missed[i].seq < rest[j].seq
    <2>1. missed[i].seq \in Nat
      BY <1>12, EventTypes
    <2> QED
      BY <1>6, <1>14, <1>17, <2>1
  <1>19. NewFor(CursorsOf(missed), rest)
    <2> SUFFICES ASSUME NEW c \in CursorsOf(missed), NEW j \in 1..Len(rest)
                 PROVE  c.seq < rest[j].seq
      BY DEF NewFor
    <2>1. PICK i \in 1..Len(missed) :
                 c = Cursor(missed[i].generation, missed[i].seq)
      BY DEF CursorsOf
    <2>2. c.seq = missed[i].seq
      BY <2>1 DEF Cursor
    <2> QED
      BY <1>18, <2>2
  <1>20. NewFor(Past, rest)
    <2> SUFFICES ASSUME NEW c \in Past, NEW j \in 1..Len(rest),
                        c.generation = e.generation
                 PROVE  c.seq < e.seq
      BY <1>17 DEF NewFor
    <2>1. c.seq < e.seq \/ e.seq <= cur.seq
      BY <1>5, <1>7 DEF EventFits
    <2> QED
      BY <1>2, <1>6, <1>7, <2>1
  <1>21. /\ all \in Seq(Events) /\ InOrder(all) /\ NewFor(Past, all)
         /\ Rising(all)
    <2>1. AllBefore(missed, rest)
      BY <1>18 DEF AllBefore
    <2> QED
      BY <1>12, <1>13, <1>15, <1>16, <1>19, <1>20, <2>1, InOrderConcat,
         ConcatElements
  <1>22. /\ \A i \in 1..Len(all) :
              \/ \E j \in 1..Len(missed) : all[i] = missed[j]
              \/ \E j \in 1..Len(rest) : all[i] = rest[j]
         /\ \A j \in 1..Len(missed) :
              j \in 1..Len(all) /\ all[j] = missed[j]
         /\ \A j \in 1..Len(rest) : /\ Len(missed) + j \in 1..Len(all)
                                    /\ all[Len(missed) + j] = rest[j]
    BY <1>12, <1>15, ConcatElements
  <1> HIDE DEF all
  <1>23. /\ cur2 \in Cursors /\ cur2.generation = Gen /\ cur2.seq \in Nat
         /\ \A i \in 1..Len(all) : all[i].seq <= cur2.seq
    BY <1>11, <1>21, AfterOrder
  <1> HIDE DEF cur2
  <1>24. e.seq <= cur2.seq
    <2>1. CASE e.seq > mid.seq
      <3>0. Len(rest) = 1
        BY <1>15, <2>1
      <3>1. 1 \in 1..Len(rest)
        BY <3>0
      <3>2. PICK i \in 1..Len(all) : all[i] = rest[1]
        <4>1. /\ Len(missed) + 1 \in 1..Len(all)
              /\ all[Len(missed) + 1] = rest[1]
          BY <1>22, <3>1
        <4> QED
          BY <4>1
      <3> QED
        BY <1>17, <1>23, <3>1, <3>2
    <2>2. CASE ~(e.seq > mid.seq)
      <3>1. missed # <<>>
        <4> SUFFICES ASSUME missed = <<>> PROVE FALSE
          OBVIOUS
        <4>1. mid.seq = from.seq
          BY <1>14
        <4> QED
          BY <1>2, <1>6, <1>7, <1>11, <2>2, <4>1
      <3>2. /\ Len(missed) \in 1..Len(missed)
            /\ mid.seq = missed[Len(missed)].seq
        BY <1>14, <3>1
      <3>3. mid.seq <= cur2.seq
        BY <1>22, <1>23, <3>2
      <3> QED
        BY <1>6, <1>14, <1>23, <2>2, <3>3
    <2> QED
      BY <2>1, <2>2
  <1>25. cur.seq <= cur2.seq
    BY <1>2, <1>6, <1>7, <1>23, <1>24
  <1>26. cur.generation <= Gen
    BY <1>9 DEF CursorKnows
  <1>27. ASSUME NEW i \in 1..Len(all)
         PROVE  /\ all[i].generation <= cur2.generation
                /\ all[i].generation = Gen => all[i].seq <= Top
                /\ all[i].seq <= cur2.seq
    <2>1. CASE \E j \in 1..Len(missed) : all[i] = missed[j]
      <3>1. all[i].generation = Gen /\ all[i].seq <= Top
        BY <1>12, <2>1 DEF PageIs
      <3> QED
        BY <1>10, <1>23, <3>1
    <2>2. CASE \E j \in 1..Len(rest) : all[i] = rest[j]
      <3>1. all[i] = e
        BY <1>17, <2>2
      <3>2. e.generation <= Gen /\ (e.generation = Gen => e.seq <= Top)
        BY <1>7 DEF EventFits
      <3> QED
        BY <1>23, <3>1, <3>2
    <2> QED
      BY <1>22, <2>1, <2>2
  <1>28. cur.generation <= cur2.generation /\ cur2.generation <= Gen
    BY <1>10, <1>23, <1>26
  <1>29. /\ client.cursor = cur /\ client'.cursor = cur2
         /\ client'.at = "read"
    BY <1>1 DEF cur
  <1>30. DeliversNew
    BY <1>1, <1>21 DEF DeliversNew
  <1>31. NothingTwice'
    BY <1>1, <1>4, <1>5, <1>8, <1>21, <1>25, <1>27, <1>28, <1>29, StoreSame,
       StreamDelivers
  <1> QED
    BY <1>30, <1>31

LEMMA NoFrames ==
    /\ ~Resetting(<<>>) /\ ResetFirst(<<>>)
    /\ \A cur, past, g, top, floor :
         FramesFollow(<<>>, cur, past, g, top, floor)
  BY DEF Resetting, ResetFirst, FramesFollow, FramesInOrder

LEMMA PollOrder ==
    ASSUME ClientTyped, ClientTyped', StampInv, PlacesFit, NothingTwice, Poll
    PROVE  NothingTwice' /\ DeliversNew
  <1> DEFINE cur == client.cursor
             some == NewTo(List(cur.seq), cur.seq)
             from == Cursor(generation, cur.seq)
             cur2 == After(from, some)
  <1>1. /\ client.at = "poll" /\ up /\ Deliver(some)
        /\ client' = [client EXCEPT !.cursor = cur2]
        /\ frames' = frames /\ conn' = conn /\ UNCHANGED storeVars
    BY DEF Poll
  <1>2. /\ cur \in Cursors /\ cur.seq \in Nat /\ client \in Clients
    BY ClientFacts
  <1>3. conn = "none" /\ frames = <<>>
    BY <1>1 DEF PlacesFit
  <1>4. /\ InOrder(delivered) /\ saved = view.cursor
        /\ \A c \in Past : c.seq <= cur.seq
    BY <1>1 DEF NothingTwice
  <1>5. /\ some \in Seq(Events)
        /\ PageIs(some, cur.seq, Gen, Top, Floor)
    <2>1. cur.seq <= cur.seq
      BY <1>2
    <2> QED
      BY <1>1, <1>2, <2>1, PageOrder
  <1>6. from \in Cursors /\ from.seq = cur.seq
    <2>1. generation \in Generations
      BY <1>1, StampFacts
    <2> QED
      BY <1>2, <2>1, CursorTypes DEF Cursor
  <1>7. Past \in SUBSET Cursors
    BY PastTypes
  <1> HIDE DEF some, cur, from
  <1>8. Rising(some) /\ InOrder(some)
    BY <1>5, PageRises
  <1>9. NewFor(Past, some)
    <2> SUFFICES ASSUME NEW c \in Past, NEW i \in 1..Len(some)
                 PROVE  c.seq < some[i].seq
      BY DEF NewFor
    <2>1. c.seq \in Nat /\ some[i].seq \in Nat
      BY <1>5, <1>7, CursorInts, EventTypes
    <2>2. some[i].seq > cur.seq
      BY <1>5 DEF PageIs
    <2> QED
      BY <1>2, <1>4, <2>1, <2>2
  <1>10. /\ cur2 \in Cursors /\ cur2.seq \in Nat
         /\ some = <<>> => cur2 = from
         /\ \A i \in 1..Len(some) : some[i].seq <= cur2.seq
         /\ some # <<>> => /\ Len(some) \in 1..Len(some)
                           /\ cur2.seq = some[Len(some)].seq
    BY <1>5, <1>6, <1>8, AfterOrder
  <1> HIDE DEF cur2
  <1>11. cur.seq <= cur2.seq
    <2>1. CASE some = <<>>
      BY <1>2, <1>6, <1>10, <2>1
    <2>2. CASE some # <<>>
      <3>1. cur2.seq > cur.seq
        BY <1>5, <1>10, <2>2 DEF PageIs
      <3> QED
        BY <1>2, <1>10, <3>1
    <2> QED
      BY <2>1, <2>2
  <1>12. /\ saved' = view'.cursor /\ InOrder(delivered')
         /\ \A c \in Past' : c \in Past \/ c \in CursorsOf(some)
    BY <1>1, <1>4, <1>5, <1>8, <1>9, DeliverOrder
  <1>13. ASSUME NEW c \in Past' PROVE c.seq <= cur2.seq
    <2>1. CASE c \in Past
      <3>1. c.seq \in Nat /\ c.seq <= cur.seq
        BY <1>4, <1>7, <2>1, CursorInts
      <3> QED
        BY <1>2, <1>10, <1>11, <3>1
    <2>2. CASE c \in CursorsOf(some)
      <3>1. PICK i \in 1..Len(some) :
                   c = Cursor(some[i].generation, some[i].seq)
        BY <2>2 DEF CursorsOf
      <3>2. c.seq = some[i].seq
        BY <3>1 DEF Cursor
      <3> QED
        BY <1>10, <3>2
    <2> QED
      BY <1>12, <2>1, <2>2
  <1>14. client'.at = "poll" /\ client'.cursor = cur2
    BY <1>1, <1>2, <1>10, ClientTypes DEF Clients
  <1>15. client'.at \notin Streams
    BY <1>14 DEF Streams
  <1>16. FramesFollow(frames', client'.cursor, Past', Gen', Top', Floor')
         /\ conn' # "open"
    BY <1>1, <1>3, NoFrames
  <1>17. DeliversNew
    BY <1>1, <1>5, <1>8, <1>9 DEF DeliversNew
  <1>18. NothingTwice'
    BY <1>12, <1>13, <1>14, <1>15, <1>16 DEF NothingTwice
  <1> QED
    BY <1>17, <1>18

LEMMA DialOrder ==
    ASSUME ClientTyped, ClientTyped', StampInv, PlacesFit, NothingTwice, Dial
    PROVE  NothingTwice'
  <1> DEFINE cur == client.cursor
             reset == ResetRequired(cur.seq, cur.generation)
             p == List(cur.seq)
             ft == (IF reset THEN <<Reset(generation)>> ELSE <<>>)
                     \o EventFrames(p)
  <1>1. /\ client.at = "dial" /\ up /\ conn' = "open" /\ frames' = ft
        /\ client' = [client EXCEPT !.at = "read"]
        /\ UNCHANGED <<storeVars, page>>
    BY DEF Dial
  <1>2. /\ cur \in Cursors /\ cur.seq \in Nat /\ client \in Clients
        /\ cur.generation \in Nat
    BY ClientFacts, CursorInts
  <1>3. /\ CursorKnows(cur, Past, Gen, Top, Floor)
        /\ InOrder(delivered) /\ saved = view.cursor
    BY <1>1 DEF NothingTwice, Streams
  <1>4. /\ Gen \in Generations /\ Top \in Nat /\ Floor \in Nat
        /\ Past \in SUBSET Cursors /\ generation = Gen
    BY <1>1, StampNats, StampFacts, PastTypes
  <1>5. p \in Seq(Events) /\ PageIs(p, cur.seq, Gen, Top, Floor)
    <2>1. cur.seq <= cur.seq
      BY <1>2
    <2> QED
      BY <1>1, <1>2, <2>1, PageOrder
  <1>6. reset \in BOOLEAN
    BY DEF ResetRequired
  <1>7. cur.generation # NoGeneration
    <2>1. 1 <= cur.generation
      BY <1>3 DEF CursorKnows
    <2> QED
      BY <1>2, <2>1 DEF NoGeneration
  <1>8. IF reset THEN cur.generation = Gen => cur.seq < Floor
        ELSE cur.generation = Gen
    <2>1. OldestSeq = Floor
      <3>1. events # <<>>
        BY <1>1, StampFacts
      <3> QED
        BY <1>1, <3>1 DEF OldestSeq, Floor
    <2>2. CASE reset
      <3>1. cur.generation = Gen => cur.seq + 1 < Floor
        BY <1>4, <2>1, <2>2 DEF ResetRequired
      <3> QED
        BY <1>2, <1>4, <2>2, <3>1
    <2>3. CASE ~reset
      BY <1>4, <1>7, <2>3 DEF ResetRequired
    <2> QED
      BY <2>2, <2>3
  <1> HIDE DEF cur, reset, p
  <1>9. /\ FramesFollow(ft, cur, Past, Gen, Top, Floor)
        /\ OpenFollows(ft, cur, Gen)
    BY <1>2, <1>3, <1>4, <1>5, <1>6, <1>8, FollowDial
  <1> HIDE DEF ft
  <1>10. /\ Past' = Past /\ delivered' = delivered
         /\ saved' = view'.cursor
    BY <1>1, <1>3 DEF page, Past
  <1>11. client'.at = "read" /\ client'.cursor = cur
    BY <1>1, <1>2 DEF Clients, cur
  <1> QED
    BY <1>1, <1>3, <1>9, <1>10, <1>11, StoreSame DEF NothingTwice

LEMMA ReadResetOrder ==
    ASSUME ClientTyped, ClientTyped', StampInv, PlacesFit, NothingTwice,
           ReadReset
    PROVE  NothingTwice'
  <1> DEFINE cur == client.cursor
             cur2 == client'.cursor
  <1>1. /\ client.at = "read" /\ frames # <<>> /\ Head(frames).reset
        /\ client' = [at |-> "reset",
                      cursor |-> Cursor(Head(frames).generation, 0)]
        /\ frames' = Tail(frames) /\ conn' = conn
        /\ UNCHANGED <<storeVars, page>>
    BY DEF ReadReset
  <1>2. /\ cur \in Cursors /\ cur2 \in Cursors
        /\ frames \in Seq(Frames) /\ frames' \in Seq(Frames)
    BY DEF ClientTyped, Clients
  <1>3. /\ IsRest(frames', frames)
        /\ Head(frames) = frames[1] /\ 1 \in 1..Len(frames)
        /\ ~Resetting(frames')
    BY <1>1, <1>2, RestFacts DEF PlacesFit
  <1>4. Resetting(frames)
    BY <1>1, <1>3 DEF Resetting
  <1>5. /\ CursorKnows(cur, Past, Gen, Top, Floor)
        /\ FramesFollow(frames, cur, Past, Gen, Top, Floor)
        /\ conn = "open" => OpenFollows(frames, cur, Gen)
        /\ InOrder(delivered) /\ saved = view.cursor
    BY <1>1 DEF NothingTwice, Streams
  <1>6. /\ Gen \in Nat /\ Top \in Nat /\ Floor \in Nat
        /\ Past \in SUBSET Cursors
    BY StampNats, PastTypes
  <1>7. cur2.generation = frames[1].generation
    BY <1>1, <1>3 DEF Cursor
  <1>8. /\ Past' = Past /\ delivered' = delivered
        /\ saved' = view'.cursor
    BY <1>1, <1>5 DEF page, Past
  <1>9. client'.at = "reset"
    BY <1>1
  <1> HIDE DEF cur, cur2
  <1>10. /\ CursorKnows(cur2, Past, Gen, Top, Floor)
         /\ FramesFollow(frames', cur2, Past, Gen, Top, Floor)
         /\ conn = "open" => OpenFollows(frames', cur2, Gen)
    BY <1>2, <1>3, <1>4, <1>5, <1>6, <1>7, FollowReset
  <1> QED
    BY <1>1, <1>5, <1>8, <1>9, <1>10, StoreSame DEF NothingTwice, cur2

\* Steps that leave the page as it is, and the cursor.
LEMMA StillOrder ==
    ASSUME ClientTyped, NothingTwice, ReadGap \/ Redial
    PROVE  NothingTwice'
  <1>1. UNCHANGED <<storeVars, page>> /\ client \in Clients
    BY DEF ReadGap, Redial, ClientTyped
  <1>2. /\ Past' = Past /\ delivered' = delivered /\ saved' = saved
        /\ view' = view
    BY <1>1 DEF page, Past
  <1>3. client.at \in Streams
    BY DEF ReadGap, Redial, Streams
  <1>4. CASE ReadGap
    <2>1. /\ UNCHANGED <<conn, frames>>
          /\ client'.cursor = client.cursor /\ client'.at = "catchUp"
      BY <1>1, <1>4 DEF ReadGap, Clients
    <2> QED
      BY <1>1, <1>2, <1>3, <2>1, StoreSame DEF NothingTwice
  <1>5. CASE Redial
    <2>1. /\ conn' = "none" /\ frames' = <<>>
          /\ client'.cursor = client.cursor /\ client'.at = "dial"
      BY <1>1, <1>5 DEF Redial, Clients
    <2> QED
      BY <1>1, <1>2, <1>3, <2>1, StoreSame, NoFrames DEF NothingTwice
  <1> QED
    BY <1>4, <1>5

LEMMA PageStepsOrder ==
    ASSUME ClientTyped, StampInv, PlacesFit, NothingTwice,
           Connect \/ Snapshot \/ ConnectFails \/ Reload
    PROVE  NothingTwice'
  <1>1. frames' = <<>> /\ conn' = "none"
    <2>1. client.at \in {"off", "asking"} => conn = "none" /\ frames = <<>>
      BY DEF PlacesFit
    <2> QED
      BY <2>1 DEF Connect, Snapshot, ConnectFails, Reload
  <1>2. FramesFollow(frames', client'.cursor, Past', Gen', Top', Floor')
    BY <1>1, NoFrames
  <1>3. InOrder(delivered) /\ saved = view.cursor
    BY DEF NothingTwice
  <1>4. client \in Clients /\ view \in Views
    BY DEF ClientTyped
  <1>5. InOrder(<<>>) /\ CursorsOf(<<>>) = {}
    BY DEF InOrder, CursorsOf
  <1>6. CASE Connect \/ ConnectFails
    <2>1. client'.at \in {"off", "asking"} /\ view'.cursor = view.cursor
      BY <1>4, <1>6 DEF Connect, ConnectFails, Connecting, Clients, Views
    <2>2. client'.at \notin Streams /\ client'.at # "poll"
      BY <2>1 DEF Streams
    <2>3. UNCHANGED <<saved, delivered>>
      BY <1>6 DEF Connect, ConnectFails
    <2> QED
      BY <1>1, <1>2, <1>3, <2>1, <2>2, <2>3 DEF NothingTwice
  <1>7. CASE Reload
    <2>1. client'.at = "off" /\ view'.cursor = saved
      BY <1>7 DEF Reload
    <2>2. client'.at \notin Streams /\ client'.at # "poll"
      BY <2>1 DEF Streams
    <2>3. saved' = saved /\ delivered' = <<>>
      BY <1>7 DEF Reload
    <2> QED
      BY <1>1, <1>2, <1>5, <2>1, <2>2, <2>3 DEF NothingTwice
  <1>8. CASE Snapshot
    <2> DEFINE c == Cursor(generation, sequence)
    <2>1. /\ up /\ view'.cursor = c /\ saved' = c /\ delivered' = <<>>
          /\ client'.cursor = c /\ UNCHANGED storeVars
      BY <1>8 DEF Snapshot, OnSnapshot
    <2>2. /\ generation \in Generations /\ generation # 0
          /\ generation \in Nat /\ sequence \in Nat
          /\ Gen = generation /\ Top = sequence
      BY <2>1, StampFacts
    <2>3. c.generation = generation /\ c.seq = sequence
      BY DEF Cursor
    <2> HIDE DEF c
    <2>4. Past' = {c}
      BY <1>5, <2>1 DEF Past
    <2>5. CursorKnows(c, {c}, Gen, Top, Floor)
      <3>1. /\ 1 <= c.generation /\ c.generation <= Gen
            /\ c.seq <= Top /\ c.seq <= c.seq
            /\ c.generation <= c.generation
        BY <2>2, <2>3
      <3> QED
        BY <3>1 DEF CursorKnows
    <2>6. \A d \in Past' : d.seq <= client'.cursor.seq
      BY <2>1, <2>2, <2>3, <2>4
    <2>7. CursorKnows(client'.cursor, Past', Gen', Top', Floor')
      BY <2>1, <2>4, <2>5, StoreSame
    <2> QED
      BY <1>1, <1>2, <1>5, <2>1, <2>6, <2>7 DEF NothingTwice
  <1> QED
    BY <1>6, <1>7, <1>8

-----------------------------------------------------------------------------
(* The steps together, and the order of what reaches the page. *)

\* What is on the wire fits where the client is.
LEMMA PlacesStep ==
    ASSUME StreamInv, StoreInv', PlacesFit, [Next]_vars
    PROVE  PlacesFit'
  <1>1. /\ client \in Clients /\ frames \in Seq(Frames)
        /\ client.cursor.seq \in Nat
        /\ StoreInv /\ CatchesUp
    BY ClientFacts DEF StreamInv
  <1>2. ASSUME frames # <<>>
        PROVE  /\ Head(frames) = frames[1]
               /\ ResetFirst(Tail(frames)) /\ ~Resetting(Tail(frames))
    BY <1>1, <1>2, RestFacts DEF PlacesFit
  <1>3. CASE Connect \/ Snapshot \/ ConnectFails \/ Reload \/ Redial
    <2>1. frames' = <<>> /\ conn' = "none"
      <3>1. client.at \in {"off", "asking"} => conn = "none" /\ frames = <<>>
        BY DEF PlacesFit
      <3> QED
        BY <1>3, <3>1
        DEF Connect, Snapshot, ConnectFails, Reload, Redial
    <2>2. client'.at # "catchUp"
      BY <1>1, <1>3
      DEF Connect, Snapshot, ConnectFails, Reload, Redial, Clients
    <2> QED
      BY <2>1, <2>2, NoFrames DEF PlacesFit
  <1>4. CASE Dial
    <2> DEFINE reset == ResetRequired(client.cursor.seq,
                                      client.cursor.generation)
               p == List(client.cursor.seq)
               ft == (IF reset THEN <<Reset(generation)>> ELSE <<>>)
                       \o EventFrames(p)
    <2>1. up /\ frames' = ft /\ client' = [client EXCEPT !.at = "read"]
      BY <1>4 DEF Dial
    <2>2. generation \in Generations /\ reset \in BOOLEAN
      BY <1>1, <2>1, RunningTypes DEF ResetRequired
    <2>3. p \in Seq(Events)
      BY <1>1, PageFacts
    <2> HIDE DEF reset, p
    <2>4. ResetFirst(ft)
      BY <2>2, <2>3, DialFrames
    <2>5. client'.at = "read"
      BY <1>1, <2>1 DEF Clients
    <2> QED
      BY <2>1, <2>4, <2>5 DEF PlacesFit
  <1>5. CASE ReadReset
    <2>1. /\ frames # <<>> /\ frames' = Tail(frames)
          /\ client'.at = "reset"
      BY <1>5 DEF ReadReset
    <2> QED
      BY <1>2, <2>1 DEF PlacesFit
  <1>6. CASE ReadEvent \/ CatchUp
    <2>1. frames # <<>>
      BY <1>1, <1>6 DEF ReadEvent, CatchUp, CatchesUp
    <2>2. frames' = Tail(frames) /\ client'.at = "read"
      BY <1>1, <1>6 DEF ReadEvent, CatchUp, Clients
    <2> QED
      BY <1>2, <2>1, <2>2 DEF PlacesFit
  <1>7. CASE ReadGap
    <2>1. /\ frames # <<>> /\ frames' = frames /\ ~Head(frames).reset
          /\ Head(frames).event.seq > client.cursor.seq + 1
          /\ client'.at = "catchUp" /\ client'.cursor = client.cursor
      BY <1>1, <1>7 DEF ReadGap, Clients
    <2>2. ~Resetting(frames)
      BY <1>2, <2>1 DEF Resetting
    <2>3. frames'[1].event.seq > client'.cursor.seq + 1
      BY <1>2, <2>1
    <2> QED
      BY <2>1, <2>2, <2>3 DEF PlacesFit
  <1>8. CASE ResetPage
    <2>1. frames' = frames /\ client'.at = "read"
      BY <1>8 DEF ResetPage
    <2> QED
      BY <2>1 DEF PlacesFit
  <1>9. CASE Poll
    <2>1. /\ client.at = "poll" /\ client'.at = "poll"
          /\ UNCHANGED <<frames, conn>>
      BY <1>1, <1>9 DEF Poll, Clients
    <2> QED
      BY <2>1 DEF PlacesFit
  <1>10. ASSUME events' # <<>>, UNCHANGED <<conn, client>>,
                frames' = IF conn = "open"
                          THEN Append(frames, EventFrame(Last(events')))
                          ELSE frames
         PROVE  PlacesFit'
    <2>1. CASE conn = "open"
      <3>1. PICK e \in Events : e = Last(events')
        <4>1. events' \in Seq(Events)
          BY DEF StoreInv, StoreTypeOK
        <4>2. Len(events') \in 1..Len(events')
              /\ Last(events') = events'[Len(events')]
          BY <1>10, <4>1 DEF Last
        <4> QED
          BY <4>1, <4>2, EventTypes
      <3>2. /\ frames' # <<>>
            /\ frames # <<>> => frames'[1] = frames[1]
            /\ Resetting(frames') <=> Resetting(frames)
            /\ ResetFirst(frames) => ResetFirst(frames')
        BY <1>1, <1>10, <2>1, <3>1, AppendFrames
      <3>3. client.at \notin {"off", "asking", "dial", "poll"}
        BY <2>1 DEF PlacesFit
      <3>4. client.at = "catchUp" => frames'[1] = frames[1]
        BY <1>1, <3>2 DEF CatchesUp
      <3> QED
        BY <1>10, <3>2, <3>3, <3>4 DEF PlacesFit
    <2>2. CASE conn # "open"
      <3>1. frames' = frames
        BY <1>10, <2>2
      <3> QED
        BY <1>10, <3>1 DEF PlacesFit
    <2> QED
      BY <2>1, <2>2
  <1>11. CASE Published(PublishOther)
    <2>1. events' # <<>>
      BY <1>1, <1>11, PublishOtherInv DEF Published
    <2> QED
      BY <1>10, <1>11, <2>1 DEF Published
  <1>12. ASSUME NEW j \in Jobs, Published(JobStep(j))
         PROVE  PlacesFit'
    <2>1. events' # <<>>
      BY <1>1, <1>12, JobStepInv DEF Published
    <2> QED
      BY <1>10, <1>12, <2>1 DEF Published
  <1>13. CASE ServerEnds \/ Drop
    <2>1. /\ UNCHANGED <<frames, client>>
          /\ conn = "none" => conn' = "none"
      BY <1>13 DEF ServerEnds, Drop
    <2> QED
      BY <2>1 DEF PlacesFit
  <1>14. CASE UNCHANGED clientVars \/ UNCHANGED vars
    <2>1. UNCHANGED <<frames, client, conn>>
      BY <1>14 DEF clientVars, vars
    <2> QED
      BY <2>1 DEF PlacesFit
  <1> QED
    BY <1>3, <1>4, <1>5, <1>6, <1>7, <1>8, <1>9, <1>11, <1>12, <1>13, <1>14
    DEF Next

LEMMA LaterServer ==
    ASSUME StampInv, StampInv', Advances
    PROVE  /\ Gen \in Nat /\ Top \in Nat /\ Floor \in Nat
           /\ Gen' \in Nat /\ Top' \in Nat /\ Floor' \in Nat
           /\ Later(Gen, Top, Floor, Gen', Top', Floor')
  <1>1. Gen \in Nat /\ Top \in Nat /\ Floor \in Nat
    BY StampNats
  <1>2. (StampInv => Gen \in Nat /\ Top \in Nat /\ Floor \in Nat)'
    BY StampNats, PTL
  <1> QED
    BY <1>1, <1>2 DEF Advances, Later

\* Steps of the server that write nothing to the client, and of the network.
LEMMA ServerOrder ==
    ASSUME ClientTyped, StampInv, StampInv', NothingTwice, Advances,
           UNCHANGED <<frames, client, page>>,
           conn' # "open" \/ (conn' = conn /\ Gen' = Gen)
    PROVE  NothingTwice'
  <1> DEFINE cur == client.cursor
  <1>1. /\ cur \in Cursors /\ frames \in Seq(Frames)
        /\ Past \in SUBSET Cursors
    BY ClientFacts, PastTypes
  <1>2. /\ Past' = Past /\ delivered' = delivered /\ saved' = saved
        /\ view' = view
    BY DEF page, Past
  <1>3. client.at \in Streams =>
          CursorKnows(client.cursor, Past, Gen', Top', Floor')
    <2> SUFFICES ASSUME client.at \in Streams
                 PROVE  CursorKnows(cur, Past, Gen', Top', Floor')
      OBVIOUS
    <2>1. CursorKnows(cur, Past, Gen, Top, Floor)
      BY DEF NothingTwice
    <2> HIDE DEF cur
    <2> QED
      BY <1>1, <2>1, LaterServer, KnowsLater
  <1>4. FramesFollow(frames, cur, Past, Gen', Top', Floor')
    <2>1. FramesFollow(frames, cur, Past, Gen, Top, Floor)
      BY DEF NothingTwice
    <2> HIDE DEF cur
    <2> QED
      BY <1>1, <2>1, LaterServer, FollowLater
  <1>5. conn' = "open" => OpenFollows(frames, cur, Gen')
    BY DEF NothingTwice
  <1> QED
    BY <1>2, <1>3, <1>4, <1>5 DEF NothingTwice

LEMMA PublishedOrder ==
    ASSUME ClientTyped, StampInv, PlacesFit, NothingTwice, StoreInv',
           NEW report \in Reports, Publish(report),
           UNCHANGED <<conn, client, page>>,
           frames' = IF conn = "open"
                     THEN Append(frames, EventFrame(Last(events')))
                     ELSE frames
    PROVE  NothingTwice'
  <1> DEFINE cur == client.cursor
  <1>1. /\ StampInv' /\ Gen' = Gen /\ Top' = Top + 1 /\ Floor' >= Floor
        /\ Len(events') \in 1..Len(events')
        /\ events'[Len(events')] \in Events
        /\ events'[Len(events')].seq = Top + 1
        /\ events'[Len(events')].generation = Gen
    BY PublishStamps
  <1>2. Gen \in Nat /\ Top \in Nat /\ Floor \in Nat
    BY StampNats
  <1>3. Advances
    BY <1>1, <1>2 DEF Advances
  <1>4. CASE conn # "open"
    <2>1. frames' = frames /\ conn' # "open"
      BY <1>4
    <2> QED
      BY <1>1, <1>3, <2>1, ServerOrder
  <1>5. CASE conn = "open"
    <2>1. /\ cur \in Cursors /\ frames \in Seq(Frames)
          /\ Past \in SUBSET Cursors /\ client \in Clients
      BY ClientFacts, PastTypes
    <2>2. PICK e \in Events :
            e = Last(events') /\ e.seq = Top' /\ e.generation = Gen
      BY <1>1 DEF Last
    <2>3. client.at \in Streams
      BY <1>5, <2>1 DEF PlacesFit, Clients, Places, Streams
    <2>4. /\ CursorKnows(cur, Past, Gen, Top, Floor)
          /\ FramesFollow(frames, cur, Past, Gen, Top, Floor)
          /\ OpenFollows(frames, cur, Gen)
      BY <1>5, <2>3 DEF NothingTwice
    <2>5. /\ Past' = Past /\ delivered' = delivered /\ saved' = saved
          /\ view' = view
      BY DEF page, Past
    <2>6. /\ Top' \in Nat /\ Floor' \in Nat /\ Top' = Top + 1
          /\ Floor' >= Floor
          /\ Later(Gen, Top, Floor, Gen, Top', Floor')
      BY <1>1, <1>3, LaterServer
    <2> HIDE DEF cur
    <2>7. /\ FramesFollow(frames', cur, Past, Gen, Top', Floor')
          /\ OpenFollows(frames', cur, Gen)
      <3>1. frames' = Append(frames, EventFrame(e))
        BY <1>5, <2>2
      <3> QED
        BY <1>2, <2>1, <2>2, <2>4, <2>6, <3>1, FollowAppend
    <2>8. CursorKnows(cur, Past, Gen, Top', Floor')
      BY <1>2, <2>1, <2>4, <2>6, KnowsLater
    <2>9. client' = client
      OBVIOUS
    <2>10. /\ client.at = "poll" => \A c \in Past : c.seq <= cur.seq
           /\ InOrder(delivered) /\ saved = view.cursor
      BY DEF NothingTwice, cur
    <2> QED
      BY <1>1, <2>5, <2>7, <2>8, <2>9, <2>10 DEF NothingTwice, cur
  <1> QED
    BY <1>4, <1>5

LEMMA MixedStays == [Next]_vars /\ mixed => mixed'
  BY DEF Next, vars, clientVars, others, Connect, Snapshot, ConnectFails,
     Reload, Dial, ReadReset, ReadEvent, ReadGap, ResetPage, CatchUp, Redial,
     Poll, Published, ServerEnds, Drop

LEMMA OrderInitInv == Init => OrderInv
  <1> SUFFICES ASSUME Init PROVE OrderInv
    OBVIOUS
  <1>1. StreamInv /\ StampInv
    BY StreamInitInv, StampInitInv DEF Init
  <1>2. /\ conn = "none" /\ frames = <<>> /\ delivered = <<>>
        /\ client.at = "off" /\ saved = view.cursor
    BY DEF Init
  <1>3. PlacesFit
    BY <1>2, NoFrames DEF PlacesFit
  <1>4. InOrder(<<>>)
    BY DEF InOrder
  <1>5. NothingTwice
    BY <1>2, <1>4, NoFrames DEF NothingTwice, Streams
  <1> QED
    BY <1>1, <1>3, <1>5 DEF OrderInv

LEMMA OrderNextInv == OrderInv /\ [Next]_vars => OrderInv'
  <1> SUFFICES ASSUME OrderInv, [Next]_vars PROVE OrderInv'
    OBVIOUS
  <1>1. /\ StreamInv /\ StampInv /\ PlacesFit
        /\ ClientTyped /\ CatchesUp /\ StoreInv
    BY DEF OrderInv, StreamInv
  <1>2. StreamInv' /\ ClientTyped' /\ StoreInv'
    BY <1>1, StreamNextInv DEF StreamInv
  <1>3. PlacesFit'
    BY <1>1, <1>2, PlacesStep
  <1>4. /\ StampInv' /\ (~lost' => Advances) /\ (lost => lost')
        /\ Gen' = Gen \/ ProcessEnds
    BY <1>1, <1>2, StoreOfNext, StoreStamps
  <1>5. ASSUME ~lost', ~mixed' PROVE NothingTwice'
    <2>1. NothingTwice /\ Advances
      BY <1>4, <1>5, MixedStays DEF OrderInv
    <2>2. CASE UNCHANGED vars
      <3>1. /\ UNCHANGED <<frames, client, page, conn>>
            /\ UNCHANGED storeVars
        BY <2>2 DEF vars, clientVars
      <3>2. Gen' = Gen
        BY <3>1, StoreSame
      <3> QED
        BY <1>1, <1>4, <2>1, <3>1, <3>2, ServerOrder
    <2>3. CASE Connect \/ Snapshot \/ ConnectFails \/ Reload
      BY <1>1, <2>1, <2>3, PageStepsOrder
    <2>4. CASE Dial
      BY <1>1, <1>2, <2>1, <2>4, DialOrder
    <2>5. CASE ReadReset
      BY <1>1, <1>2, <2>1, <2>5, ReadResetOrder
    <2>6. CASE ReadEvent
      BY <1>1, <1>2, <2>1, <2>6, ReadEventOrder
    <2>7. CASE ReadGap \/ Redial
      BY <1>1, <2>1, <2>7, StillOrder
    <2>8. CASE ResetPage
      BY <1>1, <1>2, <1>5, <2>1, <2>8, ResetPageOrder
    <2>9. CASE CatchUp
      BY <1>1, <1>2, <2>1, <2>9, CatchUpOrder
    <2>10. CASE Poll
      BY <1>1, <1>2, <2>1, <2>10, PollOrder
    <2>11. CASE Published(PublishOther)
      <3>1. Publish(NoReport)
        BY <2>11 DEF Published, PublishOther
      <3> QED
        BY <1>1, <1>2, <2>1, <2>11, <3>1, EmptyReport, PublishedOrder
        DEF Published
    <2>12. ASSUME NEW j \in Jobs, Published(JobStep(j))
           PROVE  NothingTwice'
      <3>1. Publish(JobReport(job'))
        BY <2>12 DEF Published, JobStep
      <3> QED
        BY <1>1, <1>2, <2>1, <2>12, <3>1, JobReportType, PublishedOrder
        DEF Published
    <2>13. CASE ServerEnds
      <3>1. /\ UNCHANGED <<frames, client, page>>
            /\ conn' # "open"
        BY <2>13 DEF ServerEnds
      <3> QED
        BY <1>1, <1>4, <2>1, <3>1, ServerOrder
    <2>14. CASE Drop
      <3>1. UNCHANGED <<frames, client, page>> /\ conn' # "open"
        BY <2>14 DEF Drop
      <3> QED
        BY <1>1, <1>4, <2>1, <3>1, ServerOrder
    <2>15. CASE (Start \/ Background) /\ UNCHANGED clientVars
      <3>1. UNCHANGED <<frames, client, page, conn>>
        BY <2>15 DEF clientVars
      <3>2. Gen' = Gen
        <4>1. ~ProcessEnds
          BY <2>15
          DEF Start, Background, WriteLine, WriteGeneration, Compact,
              WriteFails, ProcessEnds
        <4> QED
          BY <1>4, <4>1
      <3> QED
        BY <1>1, <1>4, <2>1, <3>1, <3>2, ServerOrder
    <2> QED
      BY <2>2, <2>3, <2>4, <2>5, <2>6, <2>7, <2>8, <2>9, <2>10, <2>11,
         <2>12, <2>13, <2>14, <2>15
      DEF Next
  <1> QED
    BY <1>2, <1>3, <1>4, <1>5 DEF OrderInv

\* No event reaches the page twice, and those of a generation reach it in
\* order, however the stream, the page after a reset and the events caught up
\* with overlap, as long as no process ended with events that it had not
\* written and no page after a reset came from yet another generation
\* (streamEvents and sse).
THEOREM DeliveredOnceInOrder == Spec => []DeliveredInOrder
  <1>1. OrderInv => DeliveredInOrder
    <2> SUFFICES ASSUME OrderInv, ~lost, ~mixed
                 PROVE  \A i, j \in DOMAIN delivered :
                          (/\ i < j
                           /\ delivered[i].generation
                                = delivered[j].generation)
                            => delivered[i].seq < delivered[j].seq
      BY DEF DeliveredInOrder
    <2>1. InOrder(delivered) /\ delivered \in Seq(Events)
      BY DEF OrderInv, NothingTwice, StreamInv, ClientTyped
    <2>2. DOMAIN delivered = 1..Len(delivered)
      BY <2>1
    <2> QED
      BY <2>1, <2>2 DEF InOrder
  <1> QED
    BY <1>1, OrderInitInv, OrderNextInv, PTL DEF Spec

\* Under the same conditions the cursor in the browser's storage is the one
\* that the page has folded from the events, so that a reload resumes where
\* the page was (reduceSync and the onEvent of connectClient).
THEOREM SavedCursorIsShown == Spec => []SavedIsShown
  <1>1. OrderInv => SavedIsShown
    BY DEF OrderInv, NothingTwice, SavedIsShown
  <1> QED
    BY <1>1, OrderInitInv, OrderNextInv, PTL DEF Spec

-----------------------------------------------------------------------------
(* The feed: what EventFeed promises to the page. *)

LEMMA OnNewTells ==
    ASSUME NEW w, NEW e \in Events,
           w.cursor.seq \in Nat, w.told \in BOOLEAN,
           w.cursor.generation = e.generation => w.cursor.seq < e.seq
    PROVE  /\ OnEvent(w, e).told \in BOOLEAN
           /\ OnEvent(w, e).told
                <=> \/ w.told
                    \/ ~(/\ e.generation = w.cursor.generation
                         /\ e.seq = w.cursor.seq + 1)
  <1> DEFINE c == Cursor(e.generation, e.seq)
  <1>1. CASE e.generation # w.cursor.generation
    <2>1. OnEvent(w, e) = [sse |-> "reset", cursor |-> c, told |-> TRUE]
      BY <1>1 DEF OnEvent
    <2>2. OnEvent(w, e).told = TRUE
      BY <2>1
    <2> QED
      BY <1>1, <2>2
  <1>2. CASE e.generation = w.cursor.generation
    <2>1. e.seq \in Nat /\ ~(e.seq <= w.cursor.seq)
      BY <1>2, CursorInts
    <2>2. OnEvent(w, e) = [sse |-> "live", cursor |-> c,
                           told |-> w.told \/ Skips(w, e)]
      BY <1>2, <2>1 DEF OnEvent
    <2>3. OnEvent(w, e).told = (w.told \/ Skips(w, e))
      BY <2>2
    <2>4. Skips(w, e) <=> e.seq # w.cursor.seq + 1
      BY <2>1 DEF Skips
    <2>5. Skips(w, e) \in BOOLEAN
      BY DEF Skips
    <2> QED
      BY <1>2, <2>3, <2>4, <2>5
  <1> QED
    BY <1>1, <1>2

\* The numbers of some events, each of them one more than the last.
FollowUpTo(from, some, k) ==
    \A i \in 1..k : /\ some[i].generation = from.generation
                    /\ some[i].seq = from.seq + i

LEMMA FollowMeans ==
    ASSUME NEW c \in Cursors, NEW some \in Seq(Events)
    PROVE  Feed!Follow(c, some) <=> FollowUpTo(c, some, Len(some))
  <1>1. DOMAIN some = 1..Len(some)
    OBVIOUS
  <1>2. \A i \in 1..Len(some) :
          Feed!PlaceOf(some[i])
            = [generation |-> c.generation, seq |-> c.seq + i]
          <=> /\ some[i].generation = c.generation
              /\ some[i].seq = c.seq + i
    BY DEF Feed!PlaceOf
  <1> QED
    BY <1>1, <1>2 DEF Feed!Follow, FollowUpTo

\* The page tells of a loss, among some new events in order, if and only if
\* they do not follow its cursor one by one.
LEMMA FoldTells ==
    ASSUME NEW v \in Views, NEW some \in Seq(Events),
           InOrder(some), NewFor({v.cursor}, some)
    PROVE  FoldLeft(OnEvent, v, some).told
             = (v.told \/ ~Feed!Follow(v.cursor, some))
  <1>0. /\ Len(some) \in Nat /\ v.cursor \in Cursors /\ v.told \in BOOLEAN
        /\ v.cursor.seq \in Nat
    BY CursorInts DEF Views
  <1>1. PICK f : /\ f[0] = v
                 /\ \A i \in 1..Len(some) :
                      /\ f[i] = OnEvent(f[i - 1], some[i])
                      /\ f[i].cursor
                           = Cursor(some[i].generation, some[i].seq)
                 /\ FoldLeft(OnEvent, v, some) = f[Len(some)]
    BY FoldPlaces
  <1> DEFINE Fol(i) == FollowUpTo(v.cursor, some, i)
             S == {i \in Nat : i <= Len(some) =>
                     /\ f[i].told \in BOOLEAN
                     /\ f[i].told <=> v.told \/ ~Fol(i)}
  <1>2. 0 \in S
    <2>1. Fol(0)
      BY DEF FollowUpTo
    <2> QED
      BY <1>0, <1>1, <2>1
  <1>3. ASSUME NEW i \in Nat, i \in S PROVE i + 1 \in S
    <2> SUFFICES ASSUME i + 1 <= Len(some)
                 PROVE  /\ f[i + 1].told \in BOOLEAN
                        /\ f[i + 1].told <=> v.told \/ ~Fol(i + 1)
      OBVIOUS
    <2>1. /\ i + 1 \in 1..Len(some) /\ (i + 1) - 1 = i /\ i <= Len(some)
      BY <1>0
    <2>2. PICK e \in Events : e = some[i + 1]
      BY <2>1
    <2>3. e.seq \in Nat /\ e.generation \in Nat
      BY CursorInts
    <2>4. PICK w : w = f[i]
      OBVIOUS
    <2>5. f[i + 1] = OnEvent(w, e)
      BY <1>1, <2>1, <2>2, <2>4
    <2>6. w.told \in BOOLEAN /\ (w.told <=> v.told \/ ~Fol(i))
      BY <1>3, <2>1, <2>4
    <2>7. /\ w.cursor.seq \in Nat
          /\ w.cursor.generation = e.generation => w.cursor.seq < e.seq
          /\ Fol(i) => /\ w.cursor.generation = v.cursor.generation
                       /\ w.cursor.seq = v.cursor.seq + i
      <3>1. CASE i = 0
        <4>1. w = v /\ v.cursor.seq + i = v.cursor.seq
          BY <1>0, <1>1, <2>4, <3>1
        <4>2. v.cursor.generation = e.generation => v.cursor.seq < e.seq
          BY <2>1, <2>2 DEF NewFor
        <4> QED
          BY <1>0, <4>1, <4>2
      <3>2. CASE i # 0
        <4>1. i \in 1..Len(some) /\ i < i + 1 /\ i \in 1..i
          BY <1>0, <2>1, <3>2
        <4>2. w.cursor = Cursor(some[i].generation, some[i].seq)
          BY <1>1, <2>4, <4>1
        <4>3. some[i] \in Events
          BY <4>1
        <4>4. /\ w.cursor.seq = some[i].seq /\ some[i].seq \in Nat
              /\ w.cursor.generation = some[i].generation
          BY <4>2, <4>3, CursorInts
        <4>5. some[i].generation = e.generation => some[i].seq < e.seq
          BY <2>1, <2>2, <4>1 DEF InOrder
        <4>6. Fol(i) => /\ some[i].generation = v.cursor.generation
                        /\ some[i].seq = v.cursor.seq + i
          BY <4>1 DEF FollowUpTo
        <4> QED
          BY <4>4, <4>5, <4>6
      <3> QED
        BY <3>1, <3>2
    <2>8. /\ f[i + 1].told \in BOOLEAN
          /\ f[i + 1].told
               <=> \/ w.told
                   \/ ~(/\ e.generation = w.cursor.generation
                        /\ e.seq = w.cursor.seq + 1)
      BY <2>5, <2>6, <2>7, OnNewTells
    <2>9. Fol(i + 1) <=> /\ Fol(i) /\ e.generation = v.cursor.generation
                         /\ e.seq = v.cursor.seq + (i + 1)
      <3>1. i + 1 \in 1..i + 1 /\ \A k \in 1..i + 1 : k \in 1..i \/ k = i + 1
        OBVIOUS
      <3>2. \A k \in 1..i : k \in 1..i + 1
        OBVIOUS
      <3> QED
        BY <2>2, <3>1, <3>2 DEF FollowUpTo
    <2> HIDE DEF Fol
    <2>10. (v.cursor.seq + i) + 1 = v.cursor.seq + (i + 1)
      BY <1>0
    <2> QED
      BY <2>6, <2>7, <2>8, <2>9, <2>10
  <1> HIDE DEF S
  <1>4. Nat \subseteq S
    BY <1>2, <1>3, SetInduction
  <1>5. /\ f[Len(some)].told \in BOOLEAN
        /\ f[Len(some)].told
             <=> v.told \/ ~FollowUpTo(v.cursor, some, Len(some))
    <2>1. Len(some) \in S
      BY <1>0, <1>4
    <2> QED
      BY <1>0, <2>1 DEF S
  <1> QED
    BY <1>0, <1>1, <1>5, FollowMeans

LEMMA SecondPart ==
    ASSUME NEW s \in Seq(Events), NEW t \in Seq(Events), t # <<>>
    PROVE  SubSeq(s \o t, Len(s) + 1, Len(s \o t)) = t
  <1>1. /\ Len(s) \in Nat /\ Len(t) \in Nat /\ Len(t) # 0
        /\ Len(s \o t) = Len(s) + Len(t)
    OBVIOUS
  <1>2. /\ Len(s) + 1 \in Len(s) + 1..Len(s) + Len(t)
        /\ Len(s) + Len(t) \in Len(s) + 1..Len(s) + Len(t)
        /\ (Len(s) + 1) - Len(s) = 1
        /\ (Len(s) + Len(t)) - Len(s) = Len(t)
    BY <1>1
  <1>3. SubSeq(s \o t, Len(s) + 1, Len(s) + Len(t)) = SubSeq(t, 1, Len(t))
    BY <1>2, SubSeqOfConcat2
  <1>4. SubSeq(t, 1, Len(t)) = t
    BY SubSeqFull
  <1> QED
    BY <1>1, <1>3, <1>4

LEMMA InOrderMeans ==
    ASSUME NEW s \in Seq(Events), InOrder(s) PROVE Feed!InOrder(s)
  <1>1. DOMAIN s = 1..Len(s)
    OBVIOUS
  <1> QED
    BY <1>1 DEF InOrder, Feed!InOrder

\* What a step delivers is given to the page as EventFeed promises.
LEMMA DeliverGives ==
    ASSUME ClientTyped, InOrder(delivered), saved = view.cursor,
           DeliversNew, base' = base, (lost \/ mixed)' = (lost \/ mixed)
    PROVE  [Feed!Next]_(Feed!vars)
  <1>1. PICK some \in Seq(Events) :
               Deliver(some) /\ InOrder(some) /\ NewFor(Past, some)
    BY DEF DeliversNew
  <1>2. /\ view' = FoldLeft(OnEvent, view, some)
        /\ delivered' = delivered \o some
    BY <1>1 DEF Deliver
  <1>3. /\ view \in Views /\ delivered \in Seq(Events)
        /\ {view.cursor} \subseteq Past
    BY DEF ClientTyped, Past
  <1>4. CASE some = <<>>
    <2>1. view' = view
      BY <1>2, <1>4, FoldNothing
    <2>2. delivered' = delivered
      BY <1>2, <1>3, <1>4
    <2> QED
      BY <2>1, <2>2 DEF Feed!vars
  <1>5. CASE some # <<>>
    <2>1. SubSeq(delivered', Len(delivered) + 1, Len(delivered')) = some
      BY <1>2, <1>3, <1>5, SecondPart
    <2>2. Feed!InOrder(delivered')
      <3>1. InOrder(delivered')
        BY <1>1, DeliverOrder
      <3>2. delivered' \in Seq(Events)
        BY <1>2, <1>3, ConcatProperties
      <3> QED
        BY <3>1, <3>2, InOrderMeans
    <2>3. NewFor({view.cursor}, some)
      BY <1>1, <1>3 DEF NewFor
    <2>4. view'.told = (view.told \/ ~Feed!Follow(view.cursor, some))
      BY <1>1, <1>2, <1>3, <2>3, FoldTells
    <2>5. view'.cursor = Feed!PlaceOf(some[Len(some)])
      BY <1>1, <1>2, <1>3, <1>5, <2>3, FoldCursor DEF Feed!PlaceOf, Cursor
    <2>6. ASSUME NEW i \in DOMAIN some,
                 some[i].generation = view.cursor.generation
          PROVE  some[i].seq > view.cursor.seq
      <3>1. i \in 1..Len(some) /\ some[i].seq \in Nat
        BY EventTypes
      <3>2. view.cursor.seq < some[i].seq
        BY <2>3, <2>6, <3>1 DEF NewFor
      <3>3. view.cursor.seq \in Nat
        BY <1>3, CursorInts DEF Views
      <3> QED
        BY <3>1, <3>2, <3>3
    <2>7. Feed!Give
      BY <1>2, <1>5, <2>1, <2>2, <2>4, <2>5, <2>6 DEF Feed!Give
    <2> QED
      BY <2>7 DEF Feed!Next
  <1> QED
    BY <1>4, <1>5

\* A page that begins or stays as it is.
LEMMA PageFeed ==
    ASSUME ClientTyped, ClientTyped', StampInv,
           (lost \/ mixed)' = (lost \/ mixed),
           \/ Connect \/ Snapshot \/ ConnectFails \/ Reload
           \/ UNCHANGED page
    PROVE  [Feed!Next]_(Feed!vars)
  <1>1. view \in Views /\ view'.cursor \in Cursors
    BY DEF ClientTyped, Views
  <1>2. CASE UNCHANGED page \/ Connect \/ ConnectFails
    <2>1. /\ view'.cursor = view.cursor /\ view'.told = view.told
          /\ delivered' = delivered /\ base' = base
      BY <1>1, <1>2 DEF page, Connect, ConnectFails, Connecting, Views
    <2> QED
      BY <2>1 DEF Feed!vars
  <1>3. CASE Snapshot \/ Reload
    <2>1. /\ base' = view'.cursor /\ delivered' = <<>> /\ view'.told = FALSE
      BY <1>3 DEF Snapshot, OnSnapshot, Reload
    <2>2. Feed!Begin
      BY <1>1, <2>1 DEF Feed!Begin
    <2> QED
      BY <2>2 DEF Feed!Next
  <1> QED
    BY <1>2, <1>3

LEMMA FeedInit == Init => Feed!Init
  <1> SUFFICES ASSUME Init PROVE Feed!Init
    OBVIOUS
  <1>1. NoCursor \in Cursors
    BY DEF NoCursor, Cursor, Cursors
  <1> QED
    BY <1>1 DEF Init, StoreInit, Feed!Init

LEMMA FeedNext == OrderInv /\ OrderInv' /\ [Next]_vars
                    => [Feed!Next]_(Feed!vars)
  <1> SUFFICES ASSUME OrderInv, OrderInv', [Next]_vars
               PROVE  [Feed!Next]_(Feed!vars)
    OBVIOUS
  <1>1. /\ StampInv /\ PlacesFit /\ ClientTyped /\ CatchesUp /\ StoreInv
        /\ ClientTyped' /\ StoreInv'
    BY DEF OrderInv, StreamInv
  <1>2. CASE lost' \/ mixed'
    <2>1. /\ base' \in Cursors /\ view'.cursor \in Cursors
          /\ delivered' \in Seq(Events) /\ view'.told \in BOOLEAN
      BY <1>1 DEF ClientTyped, Views
    <2>2. Feed!Excuse
      BY <1>2, <2>1 DEF Feed!Excuse
    <2> QED
      BY <2>2 DEF Feed!Next
  <1>3. CASE ~lost' /\ ~mixed'
    <2>1. ~lost /\ ~mixed /\ NothingTwice
      BY <1>1, <1>3, MixedStays, StoreOfNext, StoreStamps DEF OrderInv
    <2>2. (lost \/ mixed)' = (lost \/ mixed)
      BY <1>3, <2>1
    <2>3. CASE ReadEvent \/ ResetPage \/ CatchUp \/ Poll
      <3>1. DeliversNew
        BY <1>1, <1>3, <2>1, <2>3, ReadEventOrder, ResetPageOrder,
           CatchUpOrder, PollOrder
      <3>2. base' = base
        BY <2>3 DEF ReadEvent, ResetPage, CatchUp, Poll
      <3>3. InOrder(delivered) /\ saved = view.cursor
        BY <2>1 DEF NothingTwice
      <3> QED
        BY <1>1, <2>2, <3>1, <3>2, <3>3, DeliverGives
    <2>4. CASE Connect \/ Snapshot \/ ConnectFails \/ Reload
      BY <1>1, <2>2, <2>4, PageFeed
    <2>5. CASE UNCHANGED page
      BY <1>1, <2>2, <2>5, PageFeed
    <2>6. CASE Dial \/ ReadReset \/ ReadGap \/ Redial
      <3>1. UNCHANGED page
        BY <2>6 DEF Dial, ReadReset, ReadGap, Redial
      <3> QED
        BY <2>5, <3>1
    <2>7. CASE \/ Published(PublishOther)
               \/ \E j \in Jobs : Published(JobStep(j))
               \/ ServerEnds \/ Drop
               \/ (Start \/ Background) /\ UNCHANGED clientVars
               \/ UNCHANGED vars
      <3>1. UNCHANGED page
        BY <2>7 DEF Published, ServerEnds, Drop, clientVars, vars
      <3> QED
        BY <2>5, <3>1
    <2> QED
      BY <2>3, <2>4, <2>6, <2>7 DEF Next
  <1> QED
    BY <1>2, <1>3

\* The page is given each event of a generation once and in order, from where
\* it began, or it is told of a loss, whatever way snapshot, stream,
\* catch-up, resets and reloads take: every step of the event stream is one of
\* EventFeed, or none (sse, streamEvents, reduceSync and connectClient).
THEOREM StreamKeepsFeed == Spec => FeedIsKept
  <1>1. Init => OrderInv /\ Feed!Init
    BY OrderInitInv, FeedInit
  <1>2. OrderInv /\ [Next]_vars => OrderInv'
    BY OrderNextInv
  <1>3. OrderInv /\ OrderInv' /\ [Next]_vars => [Feed!Next]_(Feed!vars)
    BY FeedNext
  <1>4. Spec => Feed!Init /\ [][Feed!Next]_(Feed!vars)
    BY <1>1, <1>2, <1>3, PTL DEF Spec
  <1> QED
    BY <1>4 DEF FeedIsKept, Feed!Spec

\* Events that follow those before them follow the place these began at.
LEMMA FollowOn ==
    ASSUME NEW c \in Cursors, NEW d \in Cursors,
           NEW s \in Seq(Events), NEW t \in Seq(Events),
           Feed!Follow(c, s), Feed!Follow(d, t),
           d = [generation |-> c.generation, seq |-> c.seq + Len(s)]
    PROVE  Feed!Follow(c, s \o t)
  <1> DEFINE u == s \o t
  <1>1. /\ Len(s) \in Nat /\ Len(t) \in Nat /\ Len(u) = Len(s) + Len(t)
        /\ u \in Seq(Events)
        /\ \A i \in 1..Len(s) + Len(t) :
             u[i] = IF i <= Len(s) THEN s[i] ELSE t[i - Len(s)]
    BY ConcatProperties
  <1>2. FollowUpTo(c, s, Len(s)) /\ FollowUpTo(d, t, Len(t))
    BY FollowMeans
  <1>3. c.seq \in Nat /\ d.generation = c.generation /\ d.seq = c.seq + Len(s)
    BY CursorInts
  <1> HIDE DEF u
  <1>4. ASSUME NEW i \in 1..Len(u)
        PROVE  u[i].generation = c.generation /\ u[i].seq = c.seq + i
    <2>1. CASE i <= Len(s)
      <3>1. i \in 1..Len(s) /\ u[i] = s[i]
        BY <1>1, <2>1
      <3> QED
        BY <1>2, <3>1 DEF FollowUpTo
    <2>2. CASE ~(i <= Len(s))
      <3>1. i - Len(s) \in 1..Len(t) /\ u[i] = t[i - Len(s)]
        BY <1>1, <2>2
      <3>2. /\ u[i].generation = d.generation
            /\ u[i].seq = d.seq + (i - Len(s))
        BY <1>2, <3>1 DEF FollowUpTo
      <3>3. (c.seq + Len(s)) + (i - Len(s)) = c.seq + i
        BY <1>1, <1>3
      <3> QED
        BY <1>3, <3>2, <3>3
    <2> QED
      BY <2>1, <2>2
  <1>5. FollowUpTo(c, u, Len(u))
    BY <1>4 DEF FollowUpTo
  <1> QED
    BY <1>1, <1>5, FollowMeans DEF u

\* What EventFeed promises comes to this.
LEMMA FeedGivesOnce ==
    ASSUME ClientTyped, Feed!EachOnce, [Feed!Next]_(Feed!vars)
    PROVE  Feed!EachOnce'
  <1>1. /\ delivered \in Seq(Events)
        /\ base \in Cursors /\ view.cursor \in Cursors
    BY DEF ClientTyped, Views
  <1>2. CASE UNCHANGED Feed!vars
    BY <1>2 DEF Feed!vars, Feed!EachOnce, Feed!Follow
  <1>3. CASE Feed!Excuse
    BY <1>3 DEF Feed!Excuse, Feed!EachOnce
  <1>4. CASE Feed!Begin
    <2>1. /\ base' \in Cursors /\ view'.cursor = base' /\ delivered' = <<>>
      BY <1>4 DEF Feed!Begin
    <2>2. Feed!Follow(base', <<>>)
      BY DEF Feed!Follow
    <2>3. base' = [generation |-> base'.generation,
                   seq |-> base'.seq + Len(<<>>)]
      BY <2>1 DEF Cursors
    <2> QED
      BY <2>1, <2>2, <2>3 DEF Feed!EachOnce
  <1>5. CASE Feed!Give
    <2> SUFFICES ASSUME ~(lost \/ mixed)', ~view'.told
                 PROVE  /\ Feed!Follow(base', delivered')
                        /\ view'.cursor = [generation |-> base'.generation,
                                           seq |-> base'.seq + Len(delivered')]
      BY DEF Feed!EachOnce
    <2> DEFINE some == SubSeq(delivered', Len(delivered) + 1, Len(delivered'))
    <2>1. /\ some \in Seq(Events) /\ some # <<>>
          /\ delivered' = delivered \o some
          /\ view'.cursor = Feed!PlaceOf(some[Len(some)])
          /\ view'.told = (view.told \/ ~Feed!Follow(view.cursor, some))
          /\ base' = base /\ (lost \/ mixed)' = (lost \/ mixed)
      BY <1>5 DEF Feed!Give
    <2> HIDE DEF some
    <2>2. ~view.told /\ Feed!Follow(view.cursor, some)
      BY <2>1
    <2>3. /\ Feed!Follow(base, delivered)
          /\ view.cursor = [generation |-> base.generation,
                            seq |-> base.seq + Len(delivered)]
      BY <2>1, <2>2 DEF Feed!EachOnce
    <2>4. Feed!Follow(base', delivered')
      BY <1>1, <2>1, <2>2, <2>3, FollowOn
    <2>5. /\ Len(some) \in 1..Len(some)
          /\ Len(delivered') = Len(delivered) + Len(some)
          /\ Len(some) \in Nat /\ Len(delivered) \in Nat
      BY <1>1, <2>1
    <2>6. FollowUpTo(view.cursor, some, Len(some))
      BY <1>1, <2>1, <2>2, FollowMeans
    <2>7. /\ some[Len(some)].generation = base.generation
          /\ some[Len(some)].seq = (base.seq + Len(delivered)) + Len(some)
      BY <2>3, <2>5, <2>6 DEF FollowUpTo
    <2>8. base.seq \in Nat
      BY <1>1, CursorInts
    <2>9. some[Len(some)].seq = base.seq + Len(delivered')
      BY <2>5, <2>7, <2>8
    <2> QED
      BY <2>1, <2>4, <2>7, <2>9 DEF Feed!PlaceOf
  <1> QED
    BY <1>2, <1>3, <1>4, <1>5 DEF Feed!Next

\* Unless the page was told of a loss, it has exactly the events between where
\* it began and where it is, each once and none else, as long as no process
\* ended with unwritten events and no page after a reset came from yet another
\* generation (reduceSync over streamEvents).
THEOREM EachEventOnce == Spec => []Feed!EachOnce
  <1>1. Init => OrderInv /\ Feed!EachOnce
    <2>1. ASSUME Init PROVE Feed!EachOnce
      <3>1. /\ delivered = <<>> /\ base = [generation |-> 0, seq |-> 0]
            /\ view.cursor = [generation |-> 0, seq |-> 0]
        BY <2>1 DEF Init, NoCursor, Cursor, NoGeneration
      <3> QED
        BY <3>1 DEF Feed!EachOnce, Feed!Follow
    <2> QED
      BY <2>1, OrderInitInv
  <1>2. OrderInv /\ [Next]_vars => OrderInv'
    BY OrderNextInv
  <1>3. OrderInv /\ OrderInv' /\ Feed!EachOnce /\ [Next]_vars
          => Feed!EachOnce'
    BY FeedNext, FeedGivesOnce DEF OrderInv, StreamInv
  <1> QED
    BY <1>1, <1>2, <1>3, PTL DEF Spec

=============================================================================
