---------------------------- MODULE DaemonProofs ----------------------------
(***************************************************************************)
(* Proofs about the daemon: a revocation that was answered survives and    *)
(* the client keeps its key (DeviceRegistry), for any number of requests   *)
(* of the client and of tokens issued, whatever fails and however often    *)
(* the daemon restarts; and the Harness takes a prompt once                *)
(* (PromptAdmission), for any number of handlers, prompts and restarts.    *)
(***************************************************************************)
EXTENDS DeviceRegistry, PromptAdmission, SequenceTheorems, TLAPS

-----------------------------------------------------------------------------
(* The devices. *)

DeviceTable == [Device -> [token : Nat, revoked : BOOLEAN]]

DevicesTyped ==
    /\ registry \in DeviceTable /\ deviceFile \in DeviceTable /\ issued \in Nat
    /\ saving \in [Caller -> [at : {"idle", "mkdir", "file"},
                              op : {"none", "pair", "rotate", "revoke"},
                              device : Device, snap : DeviceTable]]

\* A revoked device was paired, so that it cannot be paired anew.
PairedFirst(t) == \A d \in Device : t[d].revoked => t[d].token # 0

AllPairedFirst ==
    /\ PairedFirst(registry) /\ PairedFirst(deviceFile)
    /\ \A c \in Caller : PairedFirst(saving[c].snap)

\* A revocation whose save is awaited is in memory.
RevocationsPending ==
    \A c \in Caller : saving[c].at # "idle" /\ saving[c].op = "revoke"
                        => registry[saving[c].device].revoked

\* What is about to be renamed knows of every revocation.
SnapsKnow ==
    \A d \in Device \ exposed : registry[d].revoked =>
      \A c \in Caller : saving[c].at = "file" => saving[c].snap[d].revoked

\* Devices are acknowledged, nothing else.
AckedAreDevices == acked \subseteq Device

DeviceInv ==
    /\ DevicesTyped /\ AllPairedFirst /\ RevocationsPending /\ SnapsKnow
    /\ AckedAreDevices /\ RevocationSurvives

-----------------------------------------------------------------------------

LEMMA DeviceInitInv == DeviceInit => DeviceInv
  <1> SUFFICES ASSUME DeviceInit PROVE DeviceInv
    OBVIOUS
  <1> USE DEF DeviceInit, NoDevices, NotSaving, Device
  <1>1. DevicesTyped
    BY DEF DevicesTyped, DeviceTable
  <1>2. AllPairedFirst
    BY DEF AllPairedFirst, PairedFirst
  <1>3. RevocationsPending /\ SnapsKnow
    BY DEF RevocationsPending, SnapsKnow
  <1>4. AckedAreDevices /\ RevocationSurvives
    BY DEF AckedAreDevices, RevocationSurvives
  <1> QED
    BY <1>1, <1>2, <1>3, <1>4 DEF DeviceInv

\* Nothing of the invariant changes.
LEMMA DevicesApart ==
    DeviceInv /\ UNCHANGED <<registry, deviceFile, issued, saving, acked,
                            exposed>>
      => DeviceInv'
  BY DEF DeviceInv, DevicesTyped, AllPairedFirst, PairedFirst,
         RevocationsPending, SnapsKnow, AckedAreDevices, RevocationSurvives

\* A handler changes a device: it adds a revocation, or none changes.
LEMMA ChangesOK ==
    ASSUME DeviceInv, NEW c \in Caller, NEW d \in Device,
           NEW op \in {"pair", "rotate", "revoke"},
           NEW value \in [token : Nat, revoked : BOOLEAN],
           ChangeAndSave(c, op, d, value), value.token # 0,
           registry[d].revoked => value.revoked,
           op = "revoke" => value.revoked,
           issued' \in Nat, exposed \subseteq exposed',
           value.revoked => \/ registry[d].revoked
                            \/ d \in exposed'
                            \/ \A b \in Caller : saving[b].at # "file",
           UNCHANGED <<deviceFile, acked>>
    PROVE  DeviceInv'
  <1> DEFINE new == [NotSaving EXCEPT !.at = "mkdir", !.op = op, !.device = d]
  <1>1. registry' = [registry EXCEPT ![d] = value]
        /\ saving' = [saving EXCEPT ![c] = new]
    BY DEF ChangeAndSave
  <1>2. new.at = "mkdir" /\ new.op = op /\ new.device = d
        /\ new.snap = NoDevices
    BY DEF NotSaving
  <1>3. new \in [at : {"idle", "mkdir", "file"},
                 op : {"none", "pair", "rotate", "revoke"},
                 device : Device, snap : DeviceTable]
    BY DEF NotSaving, NoDevices, DeviceTable, Device
  <1> HIDE DEF new
  <1>4. DevicesTyped'
    BY <1>1, <1>3 DEF DeviceInv, DevicesTyped, DeviceTable
  <1>5. \A e \in Device : registry'[e] = IF e = d THEN value ELSE registry[e]
    BY <1>1 DEF DeviceInv, DevicesTyped, DeviceTable
  <1>6. \A b \in Caller : saving'[b] = IF b = c THEN new ELSE saving[b]
    BY <1>1 DEF DeviceInv, DevicesTyped
  <1>7. AllPairedFirst'
    <2>1. PairedFirst(registry)'
      BY <1>5 DEF DeviceInv, AllPairedFirst, PairedFirst
    <2>2. PairedFirst(NoDevices)
      BY DEF PairedFirst, NoDevices
    <2>3. \A b \in Caller : PairedFirst(saving[b].snap)'
      BY <1>2, <1>6, <2>2 DEF DeviceInv, AllPairedFirst, PairedFirst
    <2> QED
      BY <2>1, <2>3 DEF DeviceInv, AllPairedFirst, PairedFirst
  <1>8. \A e \in Device : registry[e].revoked => registry'[e].revoked
    BY <1>5
  <1>9. RevocationsPending'
    <2> SUFFICES ASSUME NEW b \in Caller, saving'[b].at # "idle",
                        saving'[b].op = "revoke"
                 PROVE  registry'[saving'[b].device].revoked
      BY DEF RevocationsPending
    <2>1. CASE b = c
      BY <2>1, <1>2, <1>5, <1>6
    <2>2. CASE b # c
      BY <2>2, <1>6, <1>8 DEF DeviceInv, RevocationsPending, DevicesTyped
    <2> QED
      BY <2>1, <2>2
  <1>10. SnapsKnow'
    <2> SUFFICES ASSUME NEW e \in Device, e \notin exposed',
                        registry'[e].revoked,
                        NEW b \in Caller, saving'[b].at = "file"
                 PROVE  saving'[b].snap[e].revoked
      BY DEF SnapsKnow
    <2>1. b # c /\ saving'[b] = saving[b]
      BY <1>2, <1>6
    <2>2. registry[e].revoked
      BY <2>1, <1>5
    <2> QED
      BY <2>1, <2>2 DEF DeviceInv, SnapsKnow
  <1>11. AckedAreDevices' /\ RevocationSurvives'
    BY <1>8 DEF DeviceInv, AckedAreDevices, RevocationSurvives
  <1> QED
    BY <1>4, <1>7, <1>9, <1>10, <1>11 DEF DeviceInv

LEMMA PairsOK ==
    ASSUME DeviceInv, NEW c \in Caller, NEW d \in Device, Pair(c, d),
           UNCHANGED <<deviceFile, acked, exposed>>
    PROVE  DeviceInv'
  <1> DEFINE value == [token |-> issued + 1, revoked |-> FALSE]
  <1>1. value \in [token : Nat, revoked : BOOLEAN] /\ value.token # 0
    BY DEF DeviceInv, DevicesTyped
  <1>2. ChangeAndSave(c, "pair", d, value) /\ value.revoked = FALSE
    BY DEF Pair
  <1>3. registry[d].revoked = FALSE
    BY DEF Pair, DeviceInv, DevicesTyped, DeviceTable, AllPairedFirst,
           PairedFirst
  <1>4. issued' \in Nat
    BY DEF Pair, DeviceInv, DevicesTyped
  <1> QED
    <2> HIDE DEF value
    <2> QED
      BY <1>1, <1>2, <1>3, <1>4, ChangesOK

LEMMA RotatesOK ==
    ASSUME DeviceInv, NEW c \in Caller, NEW d \in Device, Rotate(c, d),
           UNCHANGED <<deviceFile, acked, exposed>>
    PROVE  DeviceInv'
  <1> DEFINE value == [token |-> issued + 1, revoked |-> FALSE]
  <1>1. value \in [token : Nat, revoked : BOOLEAN] /\ value.token # 0
    BY DEF DeviceInv, DevicesTyped
  <1>2. ChangeAndSave(c, "rotate", d, value) /\ value.revoked = FALSE
    BY DEF Rotate
  <1>3. registry[d].revoked = FALSE
    BY DEF Rotate, DeviceInv, DevicesTyped, DeviceTable
  <1>4. issued' \in Nat
    BY DEF Rotate, DeviceInv, DevicesTyped
  <1> QED
    <2> HIDE DEF value
    <2> QED
      BY <1>1, <1>2, <1>3, <1>4, ChangesOK

LEMMA RevokesOK ==
    ASSUME DeviceInv, NEW d \in Device, Revoke(d)
    PROVE  DeviceInv'
  <1> DEFINE value == [registry[d] EXCEPT !.revoked = TRUE]
  <1>1. value \in [token : Nat, revoked : BOOLEAN]
        /\ value.token = registry[d].token /\ value.revoked = TRUE
    <2>1. registry[d] \in [token : Nat, revoked : BOOLEAN]
      BY DEF DeviceInv, DevicesTyped, DeviceTable
    <2> QED
      BY <2>1
  <1>2. ChangeAndSave("other", "revoke", d, value) /\ registry[d].token # 0
    BY DEF Revoke
  <1>3. exposed \subseteq exposed'
        /\ (d \in exposed' \/ \A b \in Caller : saving[b].at # "file")
    BY DEF Revoke
  <1>4. "other" \in Caller
    BY DEF Caller
  <1>5. issued' \in Nat
    BY DEF Revoke, DeviceInv, DevicesTyped
  <1>6. UNCHANGED <<deviceFile, acked>>
    BY DEF Revoke
  <1> QED
    <2> HIDE DEF value
    <2> QED
      BY <1>1, <1>2, <1>3, <1>4, <1>5, <1>6, ChangesOK

LEMMA WritesOK ==
    ASSUME DeviceInv, NEW c \in Caller, WriteDevices(c)
    PROVE  DeviceInv'
  <1>1. UNCHANGED <<registry, deviceFile, issued, acked, exposed>>
    BY DEF WriteDevices
  <1>2. DevicesTyped'
    <2>1. DevicesTyped
      BY DEF DeviceInv
    <2>2. saving' = [saving EXCEPT ![c] =
                       [saving[c] EXCEPT !.at = "file", !.snap = registry]]
      BY <2>1 DEF DevicesTyped, WriteDevices
    <2> QED
      BY <1>1, <2>1, <2>2 DEF DevicesTyped
  <1>3. \A b \in Caller \ {c} : saving'[b] = saving[b]
    BY DEF DeviceInv, DevicesTyped, WriteDevices
  <1>4. saving[c].at # "idle" /\ saving'[c].op = saving[c].op
        /\ saving'[c].device = saving[c].device
        /\ saving'[c].snap = registry
    BY DEF DeviceInv, DevicesTyped, WriteDevices
  <1>5. AllPairedFirst'
    BY <1>1, <1>3, <1>4 DEF DeviceInv, AllPairedFirst, PairedFirst
  <1>6. RevocationsPending'
    BY <1>1, <1>3, <1>4 DEF DeviceInv, RevocationsPending
  <1>7. SnapsKnow'
    BY <1>1, <1>3, <1>4 DEF DeviceInv, SnapsKnow
  <1>8. AckedAreDevices' /\ RevocationSurvives'
    BY <1>1 DEF DeviceInv, AckedAreDevices, RevocationSurvives
  <1> QED
    BY <1>2, <1>5, <1>6, <1>7, <1>8 DEF DeviceInv

LEMMA SaveIdleOK ==
    NotSaving \in [at : {"idle", "mkdir", "file"},
                   op : {"none", "pair", "rotate", "revoke"},
                   device : Device, snap : DeviceTable]
    /\ NotSaving.at = "idle" /\ PairedFirst(NotSaving.snap)
  BY DEF NotSaving, NoDevices, Device, DeviceTable, PairedFirst

\* A save ends, with the file in place or without.
LEMMA SaveEnds ==
    ASSUME DeviceInv, NEW c \in Caller,
           saving' = [saving EXCEPT ![c] = NotSaving],
           UNCHANGED <<registry, issued, exposed>>
    PROVE  /\ DevicesTyped' \/ deviceFile' \notin DeviceTable
           /\ \A b \in Caller : PairedFirst(saving[b].snap)'
           /\ RevocationsPending' /\ SnapsKnow'
  <1>1. \A b \in Caller :
          saving'[b] = IF b = c THEN NotSaving ELSE saving[b]
    BY DEF DeviceInv, DevicesTyped
  <1>2. DevicesTyped' \/ deviceFile' \notin DeviceTable
    BY SaveIdleOK DEF DeviceInv, DevicesTyped
  <1>3. \A b \in Caller : PairedFirst(saving[b].snap)'
    BY <1>1, SaveIdleOK DEF DeviceInv, AllPairedFirst, PairedFirst
  <1>4. RevocationsPending'
    BY <1>1, SaveIdleOK DEF DeviceInv, RevocationsPending
  <1>5. SnapsKnow'
    BY <1>1, SaveIdleOK DEF DeviceInv, SnapsKnow
  <1> QED
    BY <1>2, <1>3, <1>4, <1>5

LEMMA RenamesOK ==
    ASSUME DeviceInv, NEW c \in Caller, RenameDevices(c)
    PROVE  DeviceInv'
  <1>1. deviceFile' = saving[c].snap /\ saving[c].at = "file"
    BY DEF RenameDevices, Renamed
  <1>2. deviceFile' \in DeviceTable /\ PairedFirst(deviceFile')
    BY <1>1 DEF DeviceInv, DevicesTyped, AllPairedFirst
  <1>3. DevicesTyped' /\ (\A b \in Caller : PairedFirst(saving[b].snap)')
        /\ RevocationsPending' /\ SnapsKnow'
    <2>1. saving' = [saving EXCEPT ![c] = NotSaving]
          /\ UNCHANGED <<registry, issued, exposed>>
      BY DEF RenameDevices
    <2> QED
      BY <1>2, <2>1, SaveEnds
  <1>4. AllPairedFirst'
    BY <1>2, <1>3 DEF AllPairedFirst, PairedFirst, RenameDevices, DeviceInv
  <1>5. saving[c].device \in Device
    BY DEF DeviceInv, DevicesTyped
  <1>6. AckedAreDevices'
    BY <1>5 DEF DeviceInv, AckedAreDevices, RenameDevices
  <1>7. \A d \in acked' \ exposed' : d \in Device /\ registry[d].revoked
    BY <1>1, <1>5
       DEF DeviceInv, AckedAreDevices, RevocationSurvives,
           RevocationsPending, RenameDevices
  <1>8. RevocationSurvives'
    BY <1>1, <1>7 DEF DeviceInv, SnapsKnow, RevocationSurvives, RenameDevices
  <1> QED
    BY <1>3, <1>4, <1>6, <1>8 DEF DeviceInv

LEMMA FailsOK ==
    ASSUME DeviceInv, NEW c \in Caller, SaveFails(c)
    PROVE  DeviceInv'
  <1>1. saving' = [saving EXCEPT ![c] = NotSaving]
        /\ UNCHANGED <<registry, deviceFile, issued, acked, exposed>>
    BY DEF SaveFails
  <1>2. deviceFile' \in DeviceTable
    BY <1>1 DEF DeviceInv, DevicesTyped
  <1>3. DevicesTyped' /\ (\A b \in Caller : PairedFirst(saving[b].snap)')
        /\ RevocationsPending' /\ SnapsKnow'
    BY <1>1, <1>2, SaveEnds
  <1>4. AllPairedFirst'
    BY <1>1, <1>3 DEF AllPairedFirst, PairedFirst, DeviceInv
  <1>5. AckedAreDevices' /\ RevocationSurvives'
    BY <1>1 DEF DeviceInv, AckedAreDevices, RevocationSurvives
  <1> QED
    BY <1>3, <1>4, <1>5 DEF DeviceInv

LEMMA RestartsOK ==
    ASSUME DeviceInv, DaemonRestarts
    PROVE  DeviceInv'
  <1>1. registry' = deviceFile /\ saving' = [c \in Caller |-> NotSaving]
        /\ UNCHANGED <<deviceFile, issued, acked, exposed>>
    BY DEF DaemonRestarts
  <1>2. \A c \in Caller : saving'[c] = NotSaving
    BY <1>1
  <1>3. DevicesTyped'
    BY <1>1, SaveIdleOK DEF DeviceInv, DevicesTyped
  <1>4. AllPairedFirst'
    BY <1>1, <1>2, SaveIdleOK DEF DeviceInv, AllPairedFirst, PairedFirst
  <1>5. RevocationsPending' /\ SnapsKnow'
    BY <1>2, SaveIdleOK DEF RevocationsPending, SnapsKnow
  <1>6. AckedAreDevices' /\ RevocationSurvives'
    BY <1>1 DEF DeviceInv, AckedAreDevices, RevocationSurvives
  <1> QED
    BY <1>3, <1>4, <1>5, <1>6 DEF DeviceInv

-----------------------------------------------------------------------------

LEMMA DeviceNextInv == DeviceInv /\ [DeviceNext]_deviceVars => DeviceInv'
  <1> SUFFICES ASSUME DeviceInv, [DeviceNext]_deviceVars PROVE DeviceInv'
    OBVIOUS
  <1>0. \A r \in AppRequests : r \in Caller
    BY DEF Caller
  <1>00. "other" \in Caller /\ "other" \in Device /\ "app" \in Device
    BY DEF Caller, Device
  <1>1. CASE CreateOffer
    BY <1>1, DevicesApart DEF CreateOffer
  <1>2. CASE OfferExpires
    BY <1>2, DevicesApart DEF OfferExpires
  <1>3. CASE OtherPairs
    BY <1>3, <1>00, PairsOK DEF OtherPairs
  <1>4. CASE OtherRefreshes
    BY <1>4, <1>00, RotatesOK DEF OtherRefreshes
  <1>5. CASE AdminRotates
    BY <1>5, <1>00, RotatesOK DEF AdminRotates
  <1>6. CASE DaemonRestarts
    BY <1>6, RestartsOK
  <1>7. CASE AccessLapses
    BY <1>7, DevicesApart DEF AccessLapses
  <1>8. ASSUME NEW d \in Device, Revoke(d) PROVE DeviceInv'
    BY <1>8, RevokesOK
  <1>9. ASSUME NEW c \in Caller,
               WriteDevices(c) \/ RenameDevices(c) \/ SaveFails(c)
        PROVE  DeviceInv'
    BY <1>9, WritesOK, RenamesOK, FailsOK
  <1>10. ASSUME NEW r \in AppRequests, AppPairs(r) PROVE DeviceInv'
    BY <1>10, <1>0, <1>00, PairsOK DEF AppPairs
  <1>11. ASSUME NEW r \in AppRequests, ServeRefresh(r) PROVE DeviceInv'
    BY <1>11, <1>0, <1>00, RotatesOK DEF ServeRefresh
  <1>12. ASSUME NEW r \in AppRequests, SendRequest(r) PROVE DeviceInv'
    BY <1>12, DevicesApart DEF SendRequest
  <1>13. ASSUME NEW r \in AppRequests, ServeRequest(r) PROVE DeviceInv'
    BY <1>13, DevicesApart DEF ServeRequest
  <1>14. ASSUME NEW r \in AppRequests, RefuseRefresh(r) PROVE DeviceInv'
    BY <1>14, DevicesApart DEF RefuseRefresh
  <1>15. ASSUME NEW r \in AppRequests, LoseAnswer(r) PROVE DeviceInv'
    BY <1>15, DevicesApart DEF LoseAnswer
  <1>16. CASE UNCHANGED deviceVars
    BY <1>16, DevicesApart DEF deviceVars
  <1> QED
    BY <1>1, <1>2, <1>3, <1>4, <1>5, <1>6, <1>7, <1>8, <1>9, <1>10, <1>11,
       <1>12, <1>13, <1>14, <1>15, <1>16 DEF DeviceNext

\* A revocation that was answered is in memory and on the disk, through
\* failed saves and restarts, unless an older file was still being written
\* when it was made (revoke, save and load of the registry).
THEOREM RevocationsSurvive == DeviceSpec => []RevocationSurvives
  <1>1. DeviceInv => RevocationSurvives
    BY DEF DeviceInv
  <1> QED
    BY <1>1, DeviceInitInv, DeviceNextInv, PTL DEF DeviceSpec

-----------------------------------------------------------------------------
(* The types of the registry and of the client. *)

\* Tables of devices whose tokens have been issued.
TableUpTo(n) == [Device -> [token : 0..n, revoked : BOOLEAN]]
IssuedTable == TableUpTo(issued)

Handlers == [Caller -> [at : {"idle", "mkdir", "file"},
                        op : {"none", "pair", "rotate", "revoke"},
                        device : Device, snap : IssuedTable]]

DeviceTypes ==
    /\ DeviceTypeOK
    /\ registry \in IssuedTable /\ deviceFile \in IssuedTable
    /\ saving \in Handlers

LEMMA IssuedIsTyped ==
    ASSUME NEW n \in 0..TokenBound
    PROVE  TableUpTo(n) \subseteq Files /\ NoDevices \in TableUpTo(n)
  BY DeviceAssumption DEF TableUpTo, Files, NoDevices

LEMMA DeviceInitTypes == DeviceInit => DeviceTypes
  <1> SUFFICES ASSUME DeviceInit PROVE DeviceTypes
    OBVIOUS
  <1>1. issued \in 0..TokenBound /\ NoDevices \in IssuedTable
    BY DeviceAssumption, IssuedIsTyped DEF DeviceInit, IssuedTable
  <1>2. registry \in IssuedTable /\ deviceFile \in IssuedTable
    BY <1>1 DEF DeviceInit
  <1>3. saving \in Handlers
    BY <1>1 DEF DeviceInit, Handlers, NotSaving, Device
  <1>4. offer \in [n : 0..OfferBound, pending : BOOLEAN]
    BY DeviceAssumption DEF DeviceInit
  <1>5. request \in [AppRequests ->
         [at : {"idle", "pairing", "sent", "retried", "own", "join"},
          token : 0..TokenBound]]
    BY DeviceAssumption DEF DeviceInit, NoRequest
  <1>6. /\ lapsed \subseteq 1..issued
        /\ acked \subseteq Device /\ exposed \subseteq Device
        /\ excused \in BOOLEAN
    BY Zenon DEF DeviceInit
  <1>9. holder \in 0..issued
    BY <1>1 DEF DeviceInit
  <1>7. /\ registry \in Files /\ deviceFile \in Files
        /\ \A c \in Caller :
             /\ saving[c].at \in {"idle", "mkdir", "file"}
             /\ saving[c].op \in {"none", "pair", "rotate", "revoke"}
             /\ saving[c].device \in Device /\ saving[c].snap \in Files
    BY <1>1, <1>2, <1>3, IssuedIsTyped DEF Handlers, IssuedTable
  <1>8. DeviceTypeOK
    BY <1>1, <1>4, <1>5, <1>6, <1>7, <1>9 DEF DeviceTypeOK
  <1> QED
    BY <1>2, <1>3, <1>8 DEF DeviceTypes

\* The tables in memory, on the disk and about to be written.
LEMMA TablesStep ==
    ASSUME DeviceTypes, [DeviceNext]_deviceVars
    PROVE  /\ issued' \in 0..TokenBound /\ issued <= issued'
           /\ registry' \in IssuedTable' /\ deviceFile' \in IssuedTable'
           /\ saving' \in Handlers'
  <1>0. /\ issued \in 0..TokenBound /\ TokenBound \in Nat
        /\ \A r \in AppRequests : r \in Caller
        /\ "other" \in Caller /\ "other" \in Device /\ "app" \in Device
    BY DeviceAssumption DEF DeviceTypes, DeviceTypeOK, Caller, Device
  <1>1. ASSUME issued' \in Nat, issued <= issued'
        PROVE  IssuedTable \subseteq IssuedTable' /\ NoDevices \in IssuedTable'
    <2>1. 0..issued \subseteq 0..issued' /\ 0 \in 0..issued'
      BY <1>0, <1>1
    <2> QED
      BY <2>1 DEF IssuedTable, TableUpTo, NoDevices
  \* A device changes and its handler begins to save.
  <1>2. ASSUME NEW c \in Caller, NEW d \in Device,
               NEW op \in {"pair", "rotate", "revoke"},
               NEW value \in [token : 0..issued', revoked : BOOLEAN],
               ChangeAndSave(c, op, d, value),
               issued' \in 0..TokenBound, issued <= issued',
               UNCHANGED deviceFile
        PROVE  /\ registry' \in IssuedTable' /\ deviceFile' \in IssuedTable'
               /\ saving' \in Handlers'
    <2> DEFINE new == [NotSaving EXCEPT !.at = "mkdir", !.op = op,
                                        !.device = d]
    <2>1. /\ IssuedTable \subseteq IssuedTable'
          /\ NoDevices \in IssuedTable'
      BY <1>1, <1>2
    <2>2. registry \in IssuedTable' /\ deviceFile \in IssuedTable'
      BY <2>1 DEF DeviceTypes
    <2>3. registry' = [registry EXCEPT ![d] = value]
          /\ saving' = [saving EXCEPT ![c] = new]
      BY <1>2 DEF ChangeAndSave
    <2>4. registry' \in IssuedTable'
      BY <1>2, <2>2, <2>3 DEF IssuedTable, TableUpTo
    <2>5. new \in [at : {"idle", "mkdir", "file"},
                   op : {"none", "pair", "rotate", "revoke"},
                   device : Device, snap : IssuedTable']
      BY <2>1 DEF NotSaving
    <2> HIDE DEF new
    <2>6. saving \in Handlers'
      BY <2>1 DEF DeviceTypes, Handlers
    <2>7. saving' \in Handlers'
      BY <2>3, <2>5, <2>6 DEF Handlers
    <2> QED
      BY <1>2, <2>2, <2>4, <2>7
  <1>3. CASE OtherPairs \/ \E r \in AppRequests : AppPairs(r)
    <2>1. PICK c \in Caller, d \in Device : Pair(c, d)
      BY <1>0, <1>3 DEF OtherPairs, AppPairs
    <2>2. UNCHANGED deviceFile
      BY <1>3 DEF OtherPairs, AppPairs
    <2>3. /\ issued' \in 0..TokenBound /\ issued <= issued'
          /\ issued' = issued + 1
      BY <1>0, <2>1 DEF Pair
    <2>4. ChangeAndSave(c, "pair", d,
                        [token |-> issued + 1, revoked |-> FALSE])
      BY <2>1 DEF Pair
    <2>5. [token |-> issued + 1, revoked |-> FALSE]
            \in [token : 0..issued', revoked : BOOLEAN]
      BY <1>0, <2>3
    <2> QED
      BY <1>2, <2>2, <2>3, <2>4, <2>5
  <1>4. CASE OtherRefreshes \/ AdminRotates
               \/ \E r \in AppRequests : ServeRefresh(r)
    <2>1. PICK c \in Caller, d \in Device : Rotate(c, d)
      BY <1>0, <1>4 DEF OtherRefreshes, AdminRotates, ServeRefresh
    <2>2. UNCHANGED deviceFile
      BY <1>4 DEF OtherRefreshes, AdminRotates, ServeRefresh
    <2>3. /\ issued' \in 0..TokenBound /\ issued <= issued'
          /\ issued' = issued + 1
      BY <1>0, <2>1 DEF Rotate
    <2>4. ChangeAndSave(c, "rotate", d,
                        [token |-> issued + 1, revoked |-> FALSE])
      BY <2>1 DEF Rotate
    <2>5. [token |-> issued + 1, revoked |-> FALSE]
            \in [token : 0..issued', revoked : BOOLEAN]
      BY <1>0, <2>3
    <2> QED
      BY <1>2, <2>2, <2>3, <2>4, <2>5
  <1>5. ASSUME NEW d \in Device, Revoke(d)
        PROVE  /\ issued' = issued
               /\ registry' \in IssuedTable' /\ deviceFile' \in IssuedTable'
               /\ saving' \in Handlers'
    <2>1. /\ ChangeAndSave("other", "revoke", d,
                           [registry[d] EXCEPT !.revoked = TRUE])
          /\ UNCHANGED <<deviceFile, issued>>
      BY <1>5 DEF Revoke
    <2>2. [registry[d] EXCEPT !.revoked = TRUE]
            \in [token : 0..issued, revoked : BOOLEAN]
      BY DEF DeviceTypes, IssuedTable, TableUpTo
    <2>3. issued' = issued /\ issued' \in 0..TokenBound /\ issued <= issued'
      BY <1>0, <2>1
    <2> QED
      BY <1>0, <1>2, <2>1, <2>2, <2>3
  \* Nothing is issued and every table is one there was.
  <1>6. ASSUME issued' = issued,
               registry' \in {registry, deviceFile},
               deviceFile' = deviceFile
                 \/ \E c \in Caller : deviceFile' = saving[c].snap,
               saving' \in Handlers
        PROVE  /\ issued' \in 0..TokenBound /\ issued <= issued'
               /\ registry' \in IssuedTable' /\ deviceFile' \in IssuedTable'
               /\ saving' \in Handlers'
    <2>1. IssuedTable' = IssuedTable /\ Handlers' = Handlers
      BY <1>6 DEF IssuedTable, Handlers
    <2> QED
      BY <1>0, <1>6, <2>1 DEF DeviceTypes, Handlers
  <1>7. ASSUME NEW c \in Caller, WriteDevices(c)
        PROVE  saving' \in Handlers
    <2>1. saving \in Handlers /\ registry \in IssuedTable
      BY DEF DeviceTypes
    <2>2. saving' = [saving EXCEPT ![c] =
                       [saving[c] EXCEPT !.at = "file", !.snap = registry]]
      BY <1>7, <2>1 DEF WriteDevices, Handlers
    <2> HIDE DEF IssuedTable
    <2> QED
      BY <2>1, <2>2 DEF Handlers
  <1>8. NotSaving \in [at : {"idle", "mkdir", "file"},
                       op : {"none", "pair", "rotate", "revoke"},
                       device : Device, snap : IssuedTable]
    BY <1>0, IssuedIsTyped DEF NotSaving, IssuedTable
  <1>9. ASSUME NEW c \in Caller, RenameDevices(c) \/ SaveFails(c)
        PROVE  saving' \in Handlers
    BY <1>8, <1>9 DEF RenameDevices, SaveFails, DeviceTypes, Handlers
  <1>10. ASSUME NEW c \in Caller,
                WriteDevices(c) \/ RenameDevices(c) \/ SaveFails(c)
         PROVE  /\ issued' \in 0..TokenBound /\ issued <= issued'
                /\ registry' \in IssuedTable' /\ deviceFile' \in IssuedTable'
                /\ saving' \in Handlers'
    BY <1>6, <1>7, <1>9, <1>10 DEF WriteDevices, RenameDevices, SaveFails,
                                  Renamed
  <1>11. CASE DaemonRestarts
    BY <1>6, <1>8, <1>11 DEF DaemonRestarts, Handlers
  <1>12. CASE \/ UNCHANGED deviceVars
              \/ CreateOffer \/ OfferExpires \/ AccessLapses
              \/ \E r \in AppRequests :
                   \/ SendRequest(r) \/ ServeRequest(r)
                   \/ RefuseRefresh(r) \/ LoseAnswer(r)
    <2>1. UNCHANGED <<issued, registry, deviceFile, saving>>
      BY <1>12 DEF deviceVars, CreateOffer, OfferExpires, AccessLapses,
                   SendRequest, ServeRequest, RefuseRefresh, LoseAnswer
    <2> QED
      BY <1>6, <2>1 DEF DeviceTypes
  <1>13. ASSUME NEW d \in Device, Revoke(d)
         PROVE  issued' \in 0..TokenBound /\ issued <= issued'
    BY <1>0, <1>5, <1>13
  <1>14. ASSUME OtherPairs \/ OtherRefreshes \/ AdminRotates
                  \/ \E r \in AppRequests : AppPairs(r) \/ ServeRefresh(r)
         PROVE  issued' \in 0..TokenBound /\ issued <= issued'
    BY <1>0, <1>14 DEF OtherPairs, OtherRefreshes, AdminRotates, AppPairs,
                       ServeRefresh, Pair, Rotate
  <1> QED
    BY <1>3, <1>4, <1>5, <1>10, <1>11, <1>12, <1>13, <1>14 DEF DeviceNext

\* The requests of the client and the key it holds.
LEMMA RequestsStep ==
    ASSUME DeviceTypes, [DeviceNext]_deviceVars
    PROVE  /\ holder' \in 0..issued'
           /\ request' \in [AppRequests ->
                [at : {"idle", "pairing", "sent", "retried", "own", "join"},
                 token : 0..TokenBound]]
  <1> DEFINE Requests == [at : {"idle", "pairing", "sent", "retried", "own",
                                "join"},
                          token : 0..TokenBound]
  <1>0. /\ issued \in 0..TokenBound /\ TokenBound \in Nat
        /\ issued' \in Nat /\ issued <= issued'
        /\ holder \in 0..issued /\ request \in [AppRequests -> Requests]
        /\ registry["app"].token \in 0..issued
    BY DeviceAssumption, TablesStep
    DEF DeviceTypes, DeviceTypeOK, IssuedTable, TableUpTo, Device
  <1>1. 0..issued \subseteq 0..issued' /\ 0..issued \subseteq 0..TokenBound
    BY <1>0
  <1>2. NoRequest \in Requests
    BY <1>0 DEF NoRequest
  <1>3. \A r \in AppRequests : Rejected(r) \in [AppRequests -> Requests]
    BY <1>0, <1>2 DEF Rejected
  <1>4. ASSUME NEW r \in AppRequests, Answer(r)
        PROVE  /\ holder' \in 0..issued
               /\ request' \in [AppRequests -> Requests]
    <2>1. holder' \in 0..issued
      BY <1>0, <1>4 DEF Answer
    <2>2. [at |-> "retried", token |-> holder'] \in Requests
      BY <1>1, <2>1
    <2>3. CASE request[r].at = "own"
      BY <1>0, <1>4, <2>2, <2>3 DEF Answer
    <2>4. CASE request[r].at = "pairing"
      <3>1. request' = Rejected(r)
        BY <1>4, <2>4 DEF Answer
      <3> QED
        BY <1>3, <2>1, <3>1
    <2>5. CASE request[r].at \notin {"own", "pairing"}
      BY <1>0, <1>4, <2>5 DEF Answer
    <2> QED
      BY <2>1, <2>3, <2>4, <2>5
  <1>5. ASSUME UNCHANGED <<holder, request>>
        PROVE  holder' \in 0..issued' /\ request' \in [AppRequests -> Requests]
    BY <1>0, <1>1, <1>5
  <1>6. ASSUME NEW c \in Caller, RenameDevices(c)
        PROVE  holder' \in 0..issued' /\ request' \in [AppRequests -> Requests]
    BY <1>1, <1>4, <1>5, <1>6 DEF RenameDevices
  <1>7. ASSUME NEW c \in Caller, SaveFails(c)
        PROVE  holder' \in 0..issued' /\ request' \in [AppRequests -> Requests]
    <2>1. holder' \in {0, holder} /\ 0 \in 0..issued'
      BY <1>0, <1>7 DEF SaveFails
    <2>2. request' = request \/ \E r \in AppRequests : request' = Rejected(r)
      BY <1>7 DEF SaveFails
    <2> QED
      BY <1>0, <1>1, <1>3, <2>1, <2>2
  <1>8. ASSUME NEW r \in AppRequests,
               AppPairs(r) \/ SendRequest(r) \/ ServeRequest(r)
        PROVE  holder' \in 0..issued' /\ request' \in [AppRequests -> Requests]
    <2>1. holder' = holder /\ holder \in 0..TokenBound
      BY <1>0, <1>1, <1>8 DEF AppPairs, SendRequest, ServeRequest
    <2>2. JoinOrOwn(r) \in {"join", "own"}
      BY DEF JoinOrOwn
    <2>3. CASE AppPairs(r)
      BY <1>0, <1>1, <2>1, <2>3 DEF AppPairs
    <2>4. CASE SendRequest(r)
      BY <1>0, <1>1, <2>1, <2>4 DEF SendRequest
    <2>5. CASE ServeRequest(r)
      BY <1>0, <1>1, <1>2, <2>1, <2>2, <2>5 DEF ServeRequest
    <2> QED
      BY <1>8, <2>3, <2>4, <2>5
  <1>9. ASSUME NEW r \in AppRequests, RefuseRefresh(r) \/ LoseAnswer(r)
        PROVE  holder' \in 0..issued' /\ request' \in [AppRequests -> Requests]
    <2>1. holder' \in {0, holder} /\ 0 \in 0..issued'
      BY <1>0, <1>9 DEF RefuseRefresh, LoseAnswer
    <2>2. request' = Rejected(r)
      BY <1>9 DEF RefuseRefresh, LoseAnswer
    <2> QED
      BY <1>0, <1>1, <1>3, <2>1, <2>2
  <1>10. CASE DaemonRestarts
    BY <1>0, <1>1, <1>2, <1>10 DEF DaemonRestarts
  <1>11. CASE \/ UNCHANGED deviceVars
              \/ CreateOffer \/ OfferExpires \/ AccessLapses \/ OtherPairs
              \/ OtherRefreshes \/ AdminRotates
              \/ \E d \in Device : Revoke(d)
              \/ \E c \in Caller : WriteDevices(c)
              \/ \E r \in AppRequests : ServeRefresh(r)
    <2>1. UNCHANGED <<holder, request>>
      BY <1>11 DEF deviceVars, CreateOffer, OfferExpires, AccessLapses,
         OtherPairs, OtherRefreshes, AdminRotates, Revoke, WriteDevices,
         ServeRefresh
    <2> QED
      BY <1>5, <2>1
  <1> QED
    BY <1>6, <1>7, <1>8, <1>9, <1>10, <1>11 DEF DeviceNext

LEMMA DeviceNextTypes ==
    DeviceTypes /\ [DeviceNext]_deviceVars => DeviceTypes'
  <1> SUFFICES ASSUME DeviceTypes, [DeviceNext]_deviceVars PROVE DeviceTypes'
    OBVIOUS
  <1>0. /\ issued \in Nat /\ issued' \in Nat /\ issued <= issued'
        /\ lapsed \subseteq 1..issued
        /\ registry["app"].token \in 0..issued
    BY TablesStep, DeviceAssumption
    DEF DeviceTypes, DeviceTypeOK, IssuedTable, TableUpTo, Device
  <1>1. offer' \in [n : 0..OfferBound, pending : BOOLEAN]
    <2> DEFINE Offers == [n : 0..OfferBound, pending : BOOLEAN]
    <2>1. offer \in Offers /\ OfferBound \in Nat
      BY DeviceAssumption DEF DeviceTypes, DeviceTypeOK
    <2>2. CASE CreateOffer
      BY <2>1, <2>2 DEF CreateOffer
    <2>3. [offer EXCEPT !.pending = FALSE] \in Offers
      BY <2>1
    <2>4. CASE ~CreateOffer
      <3>1. offer' \in {offer, [offer EXCEPT !.pending = FALSE]}
        BY <2>4
        DEF DeviceNext, deviceVars, OfferExpires, OtherPairs, OtherRefreshes,
            AdminRotates, DaemonRestarts, AccessLapses, Revoke, WriteDevices,
            RenameDevices, SaveFails, AppPairs, SendRequest, ServeRequest,
            ServeRefresh, RefuseRefresh, LoseAnswer, Pair
      <3> QED
        BY <2>1, <2>3, <3>1
    <2> QED
      BY <2>2, <2>4
  <1>2. lapsed' \subseteq 1..issued'
    <2>1. CASE AccessLapses
      BY <1>0, <2>1 DEF AccessLapses
    <2>2. CASE ~AccessLapses
      <3>1. lapsed' = lapsed
        BY <2>2
        DEF DeviceNext, deviceVars, CreateOffer, OfferExpires, OtherPairs,
            OtherRefreshes, AdminRotates, DaemonRestarts, Revoke,
            WriteDevices, RenameDevices, SaveFails, AppPairs, SendRequest,
            ServeRequest, ServeRefresh, RefuseRefresh, LoseAnswer
      <3> QED
        BY <1>0, <3>1
    <2> QED
      BY <2>1, <2>2
  <1>3. acked' \subseteq Device
    <2>1. acked' = acked
            \/ \E c \in Caller : acked' = acked \union {saving[c].device}
      BY DEF DeviceNext, deviceVars, CreateOffer, OfferExpires, OtherPairs,
          OtherRefreshes, AdminRotates, DaemonRestarts, AccessLapses, Revoke,
          WriteDevices, RenameDevices, SaveFails, AppPairs, SendRequest,
          ServeRequest, ServeRefresh, RefuseRefresh, LoseAnswer
    <2> QED
      BY <2>1 DEF DeviceTypes, DeviceTypeOK
  <1>4. exposed' \subseteq Device
    BY DEF DeviceTypes, DeviceTypeOK, DeviceNext, deviceVars,
        CreateOffer, OfferExpires, OtherPairs, OtherRefreshes, AdminRotates,
        DaemonRestarts, AccessLapses, Revoke, WriteDevices, RenameDevices,
        SaveFails, AppPairs, SendRequest, ServeRequest, ServeRefresh,
        RefuseRefresh, LoseAnswer
  <1>5. excused' \in BOOLEAN
    BY DEF DeviceTypes, DeviceTypeOK, DeviceNext, deviceVars,
        CreateOffer, OfferExpires, OtherPairs, OtherRefreshes, AdminRotates,
        DaemonRestarts, AccessLapses, Revoke, WriteDevices, RenameDevices,
        SaveFails, AppPairs, SendRequest, ServeRequest, ServeRefresh,
        RefuseRefresh, LoseAnswer
  <1>6. /\ issued' \in 0..TokenBound
        /\ registry' \in IssuedTable' /\ deviceFile' \in IssuedTable'
        /\ saving' \in Handlers'
    BY TablesStep
  <1>7. /\ registry' \in Files /\ deviceFile' \in Files
        /\ \A c \in Caller :
             /\ saving'[c].at \in {"idle", "mkdir", "file"}
             /\ saving'[c].op \in {"none", "pair", "rotate", "revoke"}
             /\ saving'[c].device \in Device /\ saving'[c].snap \in Files
    BY <1>6, IssuedIsTyped DEF Handlers, IssuedTable
  <1>8. DeviceTypeOK'
    BY <1>1, <1>2, <1>3, <1>4, <1>5, <1>6, <1>7, RequestsStep
    DEF DeviceTypeOK
  <1> QED
    BY <1>6, <1>8 DEF DeviceTypes

-----------------------------------------------------------------------------
(* The key of the client. *)

\* The handler of request r is saving.
Saving(r) == saving[r].at # "idle"

\* The requests of the client while nothing has excused it.  A handler saves
\* for a request that pairs or that refreshes; one that pairs is the only one
\* and the client holds nothing yet; one refreshes at a time, with the token
\* the client holds until its handler has a new one.
OneRefresh ==
    /\ \A r \in AppRequests : Saving(r) => request[r].at \in {"pairing", "own"}
    /\ \A r \in AppRequests : request[r].at = "pairing" =>
         /\ Saving(r) /\ holder = 0
         /\ \A q \in AppRequests \ {r} : request[q].at = "idle"
    /\ \A q, r \in AppRequests :
         request[q].at = "own" /\ request[r].at = "own" => q = r
    /\ \A r \in AppRequests :
         request[r].at = "own" /\ ~Saving(r) => request[r].token = holder

\* The device of the client is not revoked; before it is paired the client has
\* no key and no request; and what it holds is what the registry expects
\* whenever no handler is at work for it.
KeyFollows ==
    /\ registry["app"].revoked = FALSE
    /\ registry["app"].token = 0 =>
         holder = 0 /\ \A r \in AppRequests : request[r].at = "idle"
    /\ (\A r \in AppRequests : ~Saving(r)) => holder = registry["app"].token


KeyInv == DeviceTypes /\ (excused = FALSE => OneRefresh /\ KeyFollows)

LEMMA DeviceInitKey == DeviceInit => KeyInv
  <1> SUFFICES ASSUME DeviceInit PROVE OneRefresh /\ KeyFollows
    BY DeviceInitTypes DEF KeyInv
  <1> USE DEF DeviceInit, NoDevices, NotSaving, NoRequest, Device, Caller
  <1>1. \A r \in AppRequests : ~Saving(r) /\ request[r].at = "idle"
    BY DEF Saving
  <1>2. registry["app"].revoked = FALSE /\ registry["app"].token = 0
    OBVIOUS
  <1>3. OneRefresh
    BY <1>1 DEF OneRefresh
  <1>4. KeyFollows
    BY <1>1, <1>2 DEF KeyFollows
  <1> QED
    BY <1>3, <1>4

\* A step on another device, or of somebody else's handler.
LEMMA KeyKept ==
    ASSUME OneRefresh, KeyFollows, UNCHANGED <<holder, request>>,
           registry'["app"] = registry["app"],
           \A r \in AppRequests : Saving(r)' <=> Saving(r)
    PROVE  OneRefresh' /\ KeyFollows'
  BY DEF OneRefresh, KeyFollows

\* No handler is saving for a request while the client refreshes without one.
LEMMA QuietRefresh ==
    ASSUME OneRefresh, NEW r \in AppRequests, request[r].at = "own",
           ~Saving(r)
    PROVE  \A q \in AppRequests : ~Saving(q)
  BY DEF OneRefresh

LEMMA DeviceNextKey == KeyInv /\ [DeviceNext]_deviceVars => KeyInv'
  <1> SUFFICES ASSUME DeviceTypes, excused = FALSE => OneRefresh /\ KeyFollows,
                      [DeviceNext]_deviceVars, excused' = FALSE
               PROVE  OneRefresh' /\ KeyFollows'
    BY DeviceNextTypes DEF KeyInv
  <1>0. /\ \A r \in AppRequests : r \in Caller /\ r # "other"
        /\ "other" \in Caller /\ "other" \in Device /\ "app" \in Device
        /\ registry \in [Device -> [token : Nat, revoked : BOOLEAN]]
        /\ saving \in [Caller -> [at : {"idle", "mkdir", "file"},
                                  op : {"none", "pair", "rotate", "revoke"},
                                  device : Device, snap : IssuedTable]]
        /\ request \in [AppRequests ->
             [at : {"idle", "pairing", "sent", "retried", "own", "join"},
              token : 0..TokenBound]]
        /\ issued \in Nat /\ holder \in Nat /\ excused \in BOOLEAN
    BY DeviceAssumption
    DEF DeviceTypes, DeviceTypeOK, Handlers, Files, Caller, Device
  <1>1. OneRefresh /\ KeyFollows
    <2>1. excused = FALSE
      BY <1>0
      DEF DeviceNext, deviceVars, CreateOffer, OfferExpires, OtherPairs,
          OtherRefreshes, AdminRotates, DaemonRestarts, AccessLapses, Revoke,
          WriteDevices, RenameDevices, SaveFails, AppPairs, SendRequest,
          ServeRequest, ServeRefresh, RefuseRefresh, LoseAnswer
    <2> QED
      BY <2>1
  <1>2. CASE UNCHANGED deviceVars
    BY <1>1, <1>2, KeyKept DEF deviceVars, Saving
  <1>3. CASE CreateOffer \/ OfferExpires \/ AccessLapses
    BY <1>1, <1>3, KeyKept DEF CreateOffer, OfferExpires, AccessLapses, Saving
  <1>4. CASE OtherPairs \/ OtherRefreshes
    <2>1. /\ UNCHANGED <<holder, request>>
          /\ \E op, value : ChangeAndSave("other", op, "other", value)
      BY <1>4 DEF OtherPairs, OtherRefreshes, Pair, Rotate
    <2>2. /\ registry'["app"] = registry["app"]
          /\ \A r \in AppRequests : saving'[r] = saving[r]
      BY <1>0, <2>1 DEF ChangeAndSave
    <2> QED
      BY <1>1, <2>1, <2>2, KeyKept DEF Saving
  <1>5. CASE AdminRotates \/ DaemonRestarts
    BY <1>5 DEF AdminRotates, DaemonRestarts
  <1>6. ASSUME NEW d \in Device, Revoke(d)
        PROVE  OneRefresh' /\ KeyFollows'
    <2>1. d # "app"
      BY <1>0, <1>6 DEF Revoke
    <2>2. /\ UNCHANGED <<holder, request>>
          /\ \E op, value : ChangeAndSave("other", op, d, value)
      BY <1>6 DEF Revoke
    <2>3. /\ registry'["app"] = registry["app"]
          /\ \A r \in AppRequests : saving'[r] = saving[r]
      BY <1>0, <2>1, <2>2 DEF ChangeAndSave
    <2> QED
      BY <1>1, <2>2, <2>3, KeyKept DEF Saving
  <1>7. ASSUME NEW c \in Caller, WriteDevices(c)
        PROVE  OneRefresh' /\ KeyFollows'
    <2>1. /\ UNCHANGED <<holder, request, registry>>
          /\ \A r \in AppRequests : Saving(r)' <=> Saving(r)
      BY <1>0, <1>7 DEF WriteDevices, Saving
    <2> QED
      BY <1>1, <2>1, KeyKept
  <1>8. ASSUME NEW c \in Caller, SaveFails(c)
        PROVE  OneRefresh' /\ KeyFollows'
    BY <1>8 DEF SaveFails
  <1>9. CASE RenameDevices("other")
    <2>1. UNCHANGED <<holder, request, registry>>
      BY <1>0, <1>9 DEF RenameDevices
    <2>2. \A r \in AppRequests : saving'[r] = saving[r]
      BY <1>0, <1>9 DEF RenameDevices
    <2> QED
      BY <1>1, <2>1, <2>2, KeyKept DEF Saving
  <1>10. ASSUME NEW r \in AppRequests, RenameDevices(r)
         PROVE  OneRefresh' /\ KeyFollows'
    <2>1. /\ Saving(r) /\ UNCHANGED registry /\ Answer(r)
          /\ saving' = [saving EXCEPT ![r] = NotSaving]
      BY <1>10 DEF RenameDevices, Saving
    <2>2. request[r].at \in {"pairing", "own"}
      BY <1>1, <2>1 DEF OneRefresh
    <2>3. holder' = registry["app"].token
      BY <2>1, <2>2 DEF Answer
    \* Nobody else is saving, pairing or refreshing.
    <2>4. \A q \in AppRequests \ {r} :
            ~Saving(q) /\ request[q].at \notin {"pairing", "own"}
      BY <1>1, <2>2 DEF OneRefresh
    <2>5. \A q \in AppRequests : ~Saving(q)'
      BY <1>0, <2>1, <2>4 DEF Saving, NotSaving
    <2>6. \A q \in AppRequests :
            /\ request'[q].at \notin {"pairing", "own"}
            /\ request[q].at = "idle" /\ q # r => request'[q].at = "idle"
      <3>1. CASE request[r].at = "own"
        <4>1. request' = [q \in AppRequests |-> IF q \in Waiters(r)
                          THEN [at |-> "retried", token |-> holder']
                          ELSE request[q]]
          BY <2>1, <3>1 DEF Answer
        <4>2. r \in Waiters(r)
          BY DEF Waiters
        <4>3. \A q \in AppRequests \ {r} :
                request[q].at = "idle" => q \notin Waiters(r)
          BY DEF Waiters
        <4> QED
          BY <2>4, <4>1, <4>2, <4>3
      <3>2. CASE request[r].at = "pairing"
        <4>1. request' = Rejected(r)
          BY <2>1, <3>2 DEF Answer
        <4>2. r \in Waiters(r)
          BY DEF Waiters
        <4> QED
          BY <2>4, <4>1, <4>2 DEF Rejected, NoRequest
      <3> QED
        BY <2>2, <3>1, <3>2
    <2>7. registry["app"].token # 0
      BY <1>1, <2>2 DEF KeyFollows
    <2>8. OneRefresh'
      BY <2>5, <2>6 DEF OneRefresh
    <2>9. KeyFollows'
      BY <1>1, <2>1, <2>3, <2>7 DEF KeyFollows
    <2> QED
      BY <2>8, <2>9
  <1>11. ASSUME NEW r \in AppRequests, AppPairs(r)
         PROVE  OneRefresh' /\ KeyFollows'
    <2>1. /\ registry["app"].token = 0 /\ holder = 0 /\ holder' = holder
          /\ ChangeAndSave(r, "pair", "app",
                           [token |-> issued + 1, revoked |-> FALSE])
          /\ request' = [request EXCEPT ![r].at = "pairing"]
      BY <1>11 DEF AppPairs, Pair
    <2>2. \A q \in AppRequests : request[q].at = "idle" /\ ~Saving(q)
      BY <1>1, <2>1 DEF KeyFollows, OneRefresh
    <2>3. /\ registry'["app"].token = issued + 1
          /\ registry'["app"].revoked = FALSE
          /\ saving'[r].at = "mkdir"
          /\ \A q \in AppRequests \ {r} : saving'[q] = saving[q]
      BY <1>0, <2>1 DEF ChangeAndSave, NotSaving
    <2>4. /\ request'[r].at = "pairing"
          /\ \A q \in AppRequests \ {r} : request'[q] = request[q]
      BY <1>0, <2>1
    <2>5. /\ Saving(r)'
          /\ \A q \in AppRequests \ {r} :
               ~Saving(q)' /\ request'[q].at = "idle"
      BY <2>2, <2>3, <2>4 DEF Saving
    <2>6. OneRefresh'
      BY <2>1, <2>4, <2>5 DEF OneRefresh
    <2>7. registry'["app"].token # 0
      BY <1>0, <2>3
    <2> QED
      BY <2>3, <2>5, <2>6, <2>7 DEF KeyFollows
  <1>12. ASSUME NEW r \in AppRequests, SendRequest(r)
         PROVE  OneRefresh' /\ KeyFollows'
    <2>1. /\ holder # 0 /\ ~Saving(r)
          /\ request' = [request EXCEPT ![r] = [at |-> "sent",
                                                token |-> holder]]
          /\ UNCHANGED <<registry, saving, holder>>
      BY <1>12 DEF SendRequest, Saving
    <2>2. \A q \in AppRequests : request[q].at # "pairing"
      BY <1>1, <2>1 DEF OneRefresh
    <2>3. /\ request'[r].at = "sent"
          /\ \A q \in AppRequests \ {r} : request'[q] = request[q]
      BY <1>0, <2>1
    <2>4. \A q \in AppRequests : Saving(q)' <=> Saving(q)
      BY <2>1 DEF Saving
    <2>5. OneRefresh'
      BY <1>1, <2>1, <2>2, <2>3, <2>4 DEF OneRefresh
    <2>6. KeyFollows'
      BY <1>1, <2>1, <2>4 DEF KeyFollows
    <2> QED
      BY <2>5, <2>6
  <1>13. ASSUME NEW r \in AppRequests, ServeRequest(r)
         PROVE  OneRefresh' /\ KeyFollows'
    <2>1. /\ request[r].at \in {"sent", "retried"}
          /\ UNCHANGED <<registry, saving, holder>>
          /\ \/ request' = [request EXCEPT ![r] = NoRequest]
             \/ request' = [request EXCEPT ![r] = [at |-> JoinOrOwn(r),
                                                   token |-> holder]]
      BY <1>13 DEF ServeRequest
    <2>2. /\ ~Saving(r)
          /\ \A q \in AppRequests : request[q].at # "pairing"
          /\ registry["app"].token # 0
      BY <1>1, <2>1 DEF OneRefresh, KeyFollows
    <2>3. \A q \in AppRequests : Saving(q)' <=> Saving(q)
      BY <2>1 DEF Saving
    <2>4. \A q \in AppRequests \ {r} : request'[q] = request[q]
      BY <1>0, <2>1
    <2>5. \/ request'[r].at \in {"idle", "join"}
          \/ /\ request'[r].at = "own" /\ request'[r].token = holder
             /\ \A q \in AppRequests : request[q].at # "own"
      BY <1>0, <2>1 DEF NoRequest, JoinOrOwn
    <2>6. OneRefresh'
      BY <1>1, <2>1, <2>2, <2>3, <2>4, <2>5 DEF OneRefresh
    <2>7. KeyFollows'
      BY <1>1, <2>1, <2>2, <2>3 DEF KeyFollows
    <2> QED
      BY <2>6, <2>7
  <1>14. ASSUME NEW r \in AppRequests, ServeRefresh(r)
         PROVE  OneRefresh' /\ KeyFollows'
    <2>1. /\ request[r].at = "own" /\ UNCHANGED <<holder, request>>
          /\ ChangeAndSave(r, "rotate", "app",
                           [token |-> issued + 1, revoked |-> FALSE])
      BY <1>14 DEF ServeRefresh, Rotate
    <2>2. /\ registry'["app"].token = issued + 1
          /\ registry'["app"].revoked = FALSE
          /\ saving'[r].at = "mkdir"
          /\ \A q \in AppRequests \ {r} : saving'[q] = saving[q]
      BY <1>0, <2>1 DEF ChangeAndSave, NotSaving
    <2>3. Saving(r)' /\ \A q \in AppRequests \ {r} : Saving(q)' <=> Saving(q)
      BY <2>2 DEF Saving
    <2>4. OneRefresh'
      BY <1>1, <2>1, <2>3 DEF OneRefresh
    <2>5. registry'["app"].token # 0
      BY <1>0, <2>2
    <2> QED
      BY <2>2, <2>3, <2>4, <2>5 DEF KeyFollows
  \* The refresh of a client nobody works for is not refused.
  <1>15. ASSUME NEW r \in AppRequests, RefuseRefresh(r)
         PROVE  OneRefresh' /\ KeyFollows'
    <2>1. /\ request[r].at = "own" /\ ~Refreshable(request[r].token)
          /\ ~Saving(r)
      BY <1>15 DEF RefuseRefresh, Saving
    <2>2. holder = registry["app"].token
      BY <1>1, <2>1, QuietRefresh DEF KeyFollows
    <2>3. request[r].token = holder
      BY <1>1, <2>1 DEF OneRefresh
    <2>4. Refreshable(request[r].token)
      BY <1>1, <2>2, <2>3 DEF Refreshable, KeyFollows
    <2> QED
      BY <2>1, <2>4
  <1>16. ASSUME NEW r \in AppRequests, LoseAnswer(r)
         PROVE  OneRefresh' /\ KeyFollows'
    <2>1. /\ ~Saving(r) /\ request' = Rejected(r)
          /\ UNCHANGED <<registry, saving, holder>>
      BY <1>0, <1>16 DEF LoseAnswer, Saving
    <2>2. \A q \in AppRequests : Saving(q)' <=> Saving(q)
      BY <2>1 DEF Saving
    <2>3. \A q \in AppRequests :
            \/ request'[q] = request[q]
            \/ /\ request'[q].at = "idle" /\ ~Saving(q)
      <3>1. \A q \in Waiters(r) : q = r \/ request[q].at = "join"
        BY DEF Waiters
      <3>2. \A q \in Waiters(r) : ~Saving(q)
        BY <1>1, <2>1, <3>1 DEF OneRefresh, Waiters
      <3> QED
        BY <2>1, <3>2 DEF Rejected, NoRequest
    <2>4. OneRefresh'
      BY <1>1, <2>1, <2>2, <2>3 DEF OneRefresh
    <2>5. KeyFollows'
      BY <1>1, <2>1, <2>2, <2>3 DEF KeyFollows
    <2> QED
      BY <2>4, <2>5
  <1> QED
    BY <1>2, <1>3, <1>4, <1>5, <1>6, <1>7, <1>8, <1>9, <1>10, <1>11, <1>12,
       <1>13, <1>14, <1>15, <1>16 DEF DeviceNext, Caller

\* The tables of the registry, the handlers and the requests have the values
\* their declarations say: nobody holds a token that has not been issued.
THEOREM DevicesTypeCorrect == DeviceSpec => []DeviceTypeOK
  <1>1. DeviceTypes => DeviceTypeOK
    BY DEF DeviceTypes
  <1> QED
    BY <1>1, DeviceInitTypes, DeviceNextTypes, PTL DEF DeviceSpec

\* The client never loses its key through the concurrency of its own requests:
\* one refresh at a time, with the key the registry expects, is never refused
\* (authorized and refresh of the client, refresh of the registry).
THEOREM ClientKeepsItsKey == DeviceSpec => []ClientKeepsKey
  <1>1. KeyInv => ClientKeepsKey
    BY Zenon
    DEF KeyInv, DeviceTypes, DeviceTypeOK, KeyFollows, ClientKeepsKey, Saving
  <1> QED
    BY <1>1, DeviceInitKey, DeviceNextKey, PTL DEF DeviceSpec

-----------------------------------------------------------------------------
(* The prompts. *)

\* A prompt the Harness has taken, and that no restart has forgotten, is
\* admitted or is just being admitted.
TakenIsKnown ==
    \A p \in PromptIds \ forgotten :
        /\ taken[p] <= 1
        /\ taken[p] # 0 => p \in admitted \/ inflight[p] = "taken"
        /\ inflight[p] \in {"create", "prompt"} => taken[p] = 0

AdmissionInv == AdmissionTypeOK /\ TakenIsKnown

LEMMA AdmissionInitInv == AdmissionInit => AdmissionInv
  BY AdmissionAssumption
  DEF AdmissionInit, AdmissionInv, AdmissionTypeOK, TakenIsKnown, NoPrompt

\* What a restart finds is part of what was written.
LEMMA FoundIsAccepted ==
  ASSUME AdmissionTypeOK
  PROVE  /\ Found \in Seq(PromptIds)
         /\ SubSeq(accepted, 1, onDisk) \in Seq(PromptIds)
         /\ Len(SubSeq(accepted, 1, onDisk)) = onDisk
  <1> DEFINE n == IF onDisk < ListLimit THEN onDisk ELSE ListLimit
  <1>1. /\ accepted \in Seq(PromptIds) /\ Len(accepted) \in Nat
        /\ onDisk \in 0..Len(accepted)
    BY DEF AdmissionTypeOK
  <1>2. n \in 0..Len(accepted)
    BY <1>1, AdmissionAssumption
  <1>3. \A k \in 0..Len(accepted) :
          /\ SubSeq(accepted, 1, k) \in Seq(PromptIds)
          /\ Len(SubSeq(accepted, 1, k)) = k
    BY <1>1
  <1> HIDE DEF n
  <1>4. Found = SubSeq(accepted, 1, n)
    BY DEF Found, n
  <1> QED
    BY <1>1, <1>2, <1>3, <1>4

LEMMA AdmissionNextInv ==
  AdmissionInv /\ [AdmissionNext]_admissionVars => AdmissionInv'
  <1> SUFFICES ASSUME AdmissionInv, [AdmissionNext]_admissionVars
               PROVE  AdmissionInv'
    OBVIOUS
  <1> USE AdmissionAssumption
      DEF AdmissionInv, AdmissionTypeOK, TakenIsKnown
  <1>1. CASE WriteAccepted
    BY <1>1 DEF WriteAccepted
  <1>2. CASE DaemonCrashes
    <2>1. /\ accepted' \in Seq(PromptIds) /\ onDisk' \in 0..Len(accepted')
          /\ admitted' \subseteq PromptIds
      BY <1>2, FoundIsAccepted DEF DaemonCrashes, Rebuilt
    <2>2. AdmissionTypeOK'
      BY <1>2, <2>1 DEF DaemonCrashes
    <2>3. ASSUME NEW p \in PromptIds \ forgotten'
          PROVE  /\ taken'[p] <= 1
                 /\ taken'[p] # 0 => p \in admitted'
                 /\ inflight'[p] = "none"
      <3>1. taken[p] <= 1 /\ taken'[p] = taken[p] /\ inflight'[p] = "none"
        BY <1>2, <2>3 DEF DaemonCrashes
      <3>2. ASSUME taken[p] # 0
            PROVE  p \in admitted'
        <4>1. taken[p] > 0
          BY <3>2
        <4>2. PICK i \in 1..Len(Found) : Found[i] = p
          BY <1>2, <2>3, <4>1 DEF DaemonCrashes
        <4> QED
          BY <1>2, <4>2, Zenon DEF DaemonCrashes, Rebuilt
      <3> QED
        BY <3>1, <3>2
    <2> QED
      BY <2>2, <2>3
  <1>3. ASSUME NEW p \in PromptIds, SessionReady(p)
        PROVE  AdmissionInv'
    BY <1>3 DEF SessionReady
  <1>4. ASSUME NEW p \in PromptIds, HarnessTakes(p)
        PROVE  AdmissionInv'
    BY <1>4 DEF HarnessTakes
  <1>5. ASSUME NEW p \in PromptIds, Admit(p)
        PROVE  AdmissionInv'
    BY <1>5 DEF Admit, AnswerAskers, NoPrompt
  <1>6. ASSUME NEW p \in PromptIds, RefusePrompt(p)
        PROVE  AdmissionInv'
    BY <1>6 DEF RefusePrompt, AnswerAskers, NoPrompt
  <1>7. ASSUME NEW p \in PromptIds, NEW h \in Askers, AskPrompt(h, p)
        PROVE  AdmissionInv'
    BY <1>7 DEF AskPrompt, UnderWay
  <1>8. CASE UNCHANGED admissionVars
    BY <1>8 DEF admissionVars
  <1> QED
    BY <1>1, <1>2, <1>3, <1>4, <1>5, <1>6, <1>7, <1>8 DEF AdmissionNext

LEMMA AdmissionAlwaysInv == AdmissionSpec => []AdmissionInv
  BY AdmissionInitInv, AdmissionNextInv, PTL DEF AdmissionSpec

\* However many handlers ask for a prompt at the same time and however often
\* the daemon restarts, the Harness takes it once, unless a restart did not
\* find its event (prompt_admission, start).
THEOREM PromptTakenOnce == AdmissionSpec => []PromptOnce
  <1>1. AdmissionInv => PromptOnce
    BY DEF AdmissionInv, TakenIsKnown, PromptOnce
  <1> QED
    BY <1>1, AdmissionAlwaysInv, PTL

=============================================================================
