--------------------------- MODULE PromptAdmission ---------------------------
(***************************************************************************)
(* Admission of prompts: prompt_admission in ControlPlaneServer.control    *)
(* and the rebuilding of admittedRequests in start (remote-daemon          *)
(* index.ts), and admitPrompt of the adapter (dsh-plugin-desktop           *)
(* index.ts).  A client that gets no answer asks again with the same       *)
(* request id, on another connection or after a restart of the daemon.     *)
(* An event is in the log at once and on the disk later; EventStore says   *)
(* how.                                                                    *)
(***************************************************************************)
EXTENDS Naturals, Sequences, FiniteSets

CONSTANTS
    Askers,    \* handlers of prompt_admission there may be at a time
    PromptIds, \* request ids
    ListLimit, \* 500: events that list() gives from the oldest one on
    CrashBound \* bound: restarts of the daemon

ASSUME AdmissionAssumption == ListLimit \in Nat /\ CrashBound \in Nat

VARIABLES
    asker,     \* the id a handler waits for
    inflight,  \* inflightAdmissions: how far an admission is
    admitted,  \* admittedRequests
    accepted,  \* the events prompt.accepted, oldest first
    onDisk,    \* how many of them are written
    taken,     \* history: times the Harness took a prompt
    forgotten, \* history: prompts taken whose event a restart did not find
    crashes    \* restarts so far

admissionVars == <<asker, inflight, admitted, accepted, onDisk, taken,
                   forgotten, crashes>>

NoPrompt == "idle"

AdmissionTypeOK ==
    /\ asker \in [Askers -> PromptIds \union {NoPrompt}]
    /\ inflight \in [PromptIds -> {"none", "create", "prompt", "taken"}]
    /\ admitted \subseteq PromptIds /\ forgotten \subseteq PromptIds
    /\ accepted \in Seq(PromptIds) /\ onDisk \in 0..Len(accepted)
    /\ taken \in [PromptIds -> Nat]
    /\ crashes \in 0..CrashBound

AdmissionInit ==
    /\ asker = [h \in Askers |-> NoPrompt]
    /\ inflight = [p \in PromptIds |-> "none"]
    /\ admitted = {} /\ forgotten = {}
    /\ accepted = <<>> /\ onDisk = 0
    /\ taken = [p \in PromptIds |-> 0]
    /\ crashes = 0

\* Mutant: only an admission that is over is known.
OnlyAdmitted(p) == FALSE

UnderWay(p) == inflight[p] # "none"

\* Once the device is authorized: an id that was admitted is answered at
\* once, one that is being admitted waits, any other one is admitted.
AskPrompt(h, p) ==
    /\ asker[h] = NoPrompt
    /\ p \notin admitted
    /\ asker' = [asker EXCEPT ![h] = p]
    /\ inflight' = IF UnderWay(p) THEN inflight
                   ELSE [inflight EXCEPT ![p] = "create"]
    /\ UNCHANGED <<admitted, accepted, onDisk, taken, forgotten, crashes>>

\* The session is there, or has been made, and its directory is allowed.
SessionReady(p) ==
    /\ inflight[p] = "create"
    /\ inflight' = [inflight EXCEPT ![p] = "prompt"]
    /\ UNCHANGED <<asker, admitted, accepted, onDisk, taken, forgotten,
                   crashes>>

HarnessTakes(p) ==
    /\ inflight[p] = "prompt"
    /\ inflight' = [inflight EXCEPT ![p] = "taken"]
    /\ taken' = [taken EXCEPT ![p] = @ + 1]
    /\ UNCHANGED <<asker, admitted, accepted, onDisk, forgotten, crashes>>

\* Everyone who waits for p is answered, and the admission is over.
AnswerAskers(p) ==
    /\ asker' = [h \in Askers |-> IF asker[h] = p THEN NoPrompt ELSE asker[h]]
    /\ inflight' = [inflight EXCEPT ![p] = "none"]

Admit(p) ==
    /\ inflight[p] = "taken"
    /\ AnswerAskers(p)
    /\ admitted' = admitted \union {p}
    /\ accepted' = Append(accepted, p)
    /\ UNCHANGED <<onDisk, taken, forgotten, crashes>>

\* The session, its directory or the prompt is refused.
RefusePrompt(p) ==
    /\ inflight[p] \in {"create", "prompt"}
    /\ AnswerAskers(p)
    /\ UNCHANGED <<admitted, accepted, onDisk, taken, forgotten, crashes>>

WriteAccepted ==
    /\ onDisk < Len(accepted)
    /\ onDisk' = onDisk + 1
    /\ UNCHANGED <<asker, inflight, admitted, accepted, taken, forgotten,
                   crashes>>

Rebuilt(events) == {events[i] : i \in 1..Len(events)}

\* The events a restart finds.
Found == SubSeq(accepted, 1, IF onDisk < ListLimit THEN onDisk ELSE ListLimit)

DaemonCrashes ==
    /\ crashes < CrashBound
    /\ crashes' = crashes + 1
    /\ asker' = [h \in Askers |-> NoPrompt]
    /\ inflight' = [p \in PromptIds |-> "none"]
    /\ accepted' = SubSeq(accepted, 1, onDisk)
    /\ admitted' = Rebuilt(Found)
    /\ forgotten' = forgotten \union
         {p \in PromptIds : taken[p] > 0
                            /\ \A i \in 1..Len(Found) : Found[i] # p}
    /\ UNCHANGED <<onDisk, taken>>

AdmissionNext ==
    \/ WriteAccepted \/ DaemonCrashes
    \/ \E p \in PromptIds :
         \/ SessionReady(p) \/ HarnessTakes(p) \/ Admit(p) \/ RefusePrompt(p)
         \/ \E h \in Askers : AskPrompt(h, p)

AdmissionSpec == AdmissionInit /\ [][AdmissionNext]_admissionVars

-----------------------------------------------------------------------------
(* Properties. *)

\* The Harness takes a prompt once, however often and however concurrently
\* the client asks, before and after restarts, unless a restart did not find
\* its event: the daemon ended before it was written, or it is not among the
\* oldest ListLimit events.
PromptOnce == \A p \in PromptIds \ forgotten : taken[p] <= 1
=============================================================================
