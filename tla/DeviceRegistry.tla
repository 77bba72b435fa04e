--------------------------- MODULE DeviceRegistry ---------------------------
(***************************************************************************)
(* The paired devices of the daemon and the credentials of one client      *)
(* (DeviceRegistry in packages/remote-daemon/src/index.ts,                 *)
(* RemoteControlClient in packages/remote-client/src/index.ts).  A device  *)
(* is changed in memory at once; its file is written after an await, and   *)
(* nothing orders the saves of two requests.  The two tokens of a device   *)
(* are always issued together, so one number stands for the pair.          *)
(***************************************************************************)
EXTENDS Naturals, FiniteSets

CONSTANTS
    AppRequests, \* requests the client may have under way together
    TokenBound,  \* bound: pairs of tokens issued
    OfferBound   \* bound: offers made

ASSUME DeviceAssumption ==
    TokenBound \in Nat /\ OfferBound \in Nat /\ "other" \notin AppRequests

VARIABLES
    registry,   \* state.devices: token (0: not paired) and revokedAt
    deviceFile, \* what is on the disk
    offer,      \* the last offer made, and whether it is pending
    issued,     \* pairs of tokens issued
    lapsed,     \* those whose access time is over
    saving,     \* the handlers waiting for their save
    holder,     \* the token the client holds (0: none)
    request,    \* the requests of the client
    acked,      \* history: devices whose revocation was answered
    exposed,    \* history: devices revoked while an older file was written
    excused     \* history: the client lost its key through no fault of its own

deviceVars == <<registry, deviceFile, offer, issued, lapsed, saving, holder,
                request, acked, exposed, excused>>

Device == {"app", "other"}

\* The client's requests, and one of anybody else at a time.
Caller == AppRequests \union {"other"}

Files == [Device -> [token : 0..TokenBound, revoked : BOOLEAN]]

DeviceTypeOK ==
    /\ registry \in Files /\ deviceFile \in Files
    /\ offer \in [n : 0..OfferBound, pending : BOOLEAN]
    /\ issued \in 0..TokenBound /\ lapsed \subseteq 1..issued
    /\ \A c \in Caller :
         /\ saving[c].at \in {"idle", "mkdir", "file"}
         /\ saving[c].op \in {"none", "pair", "rotate", "revoke"}
         /\ saving[c].device \in Device /\ saving[c].snap \in Files
    /\ holder \in 0..issued
    /\ request \in [AppRequests ->
         [at : {"idle", "pairing", "sent", "retried", "own", "join"},
          token : 0..TokenBound]]
    /\ acked \subseteq Device /\ exposed \subseteq Device
    /\ excused \in BOOLEAN

NoDevices == [d \in Device |-> [token |-> 0, revoked |-> FALSE]]
NotSaving == [at |-> "idle", op |-> "none", device |-> "app",
              snap |-> NoDevices]
NoRequest == [at |-> "idle", token |-> 0]

DeviceInit ==
    /\ registry = NoDevices /\ deviceFile = NoDevices
    /\ offer = [n |-> 0, pending |-> FALSE]
    /\ issued = 0 /\ lapsed = {}
    /\ saving = [c \in Caller |-> NotSaving]
    /\ holder = 0
    /\ request = [r \in AppRequests |-> NoRequest]
    /\ acked = {} /\ exposed = {} /\ excused = FALSE

-----------------------------------------------------------------------------
(* The registry. *)

\* The device changes in memory, and its handler waits for save.
ChangeAndSave(c, op, d, value) ==
    /\ saving[c].at = "idle"
    /\ registry' = [registry EXCEPT ![d] = value]
    /\ saving' = [saving EXCEPT ![c] = [NotSaving EXCEPT !.at = "mkdir",
                                                  !.op = op, !.device = d]]

CreateOffer ==
    /\ offer.n < OfferBound
    /\ offer' = [n |-> offer.n + 1, pending |-> TRUE]
    /\ UNCHANGED <<registry, deviceFile, issued, lapsed, saving, holder,
                   request, acked, exposed, excused>>

OfferExpires ==
    /\ offer.pending
    /\ offer' = [offer EXCEPT !.pending = FALSE]
    /\ UNCHANGED <<registry, deviceFile, issued, lapsed, saving, holder,
                   request, acked, exposed, excused>>

\* pair: the offer is used up before the save is awaited.
Pair(c, d) ==
    /\ offer.pending /\ issued < TokenBound
    /\ registry[d].token = 0
    /\ offer' = [offer EXCEPT !.pending = FALSE]
    /\ issued' = issued + 1
    /\ ChangeAndSave(c, "pair", d, [token |-> issued + 1, revoked |-> FALSE])

AppPairs(r) ==
    /\ request[r].at = "idle" /\ holder = 0
    /\ Pair(r, "app")
    /\ request' = [request EXCEPT ![r].at = "pairing"]
    /\ UNCHANGED <<deviceFile, lapsed, holder, acked, exposed, excused>>

OtherPairs ==
    /\ Pair("other", "other")
    /\ UNCHANGED <<deviceFile, lapsed, holder, request, acked, exposed,
                   excused>>

Rotate(c, d) ==
    /\ registry[d].token # 0 /\ ~registry[d].revoked /\ issued < TokenBound
    /\ issued' = issued + 1
    /\ ChangeAndSave(c, "rotate", d, [token |-> issued + 1,
                                      revoked |-> FALSE])

OtherRefreshes ==
    /\ Rotate("other", "other")
    /\ UNCHANGED <<deviceFile, offer, lapsed, holder, request, acked,
                   exposed, excused>>

\* The new tokens go to the administrator, not to the device.
AdminRotates ==
    /\ Rotate("other", "app")
    /\ excused' = TRUE
    /\ UNCHANGED <<deviceFile, offer, lapsed, holder, request, acked,
                   exposed>>

Revoke(d) ==
    /\ registry[d].token # 0
    /\ ChangeAndSave("other", "revoke", d,
                     [registry[d] EXCEPT !.revoked = TRUE])
    /\ exposed' = IF \E c \in Caller : saving[c].at = "file"
                  THEN exposed \union {d} ELSE exposed
    /\ excused' = (excused \/ d = "app")
    /\ UNCHANGED <<deviceFile, offer, issued, lapsed, holder, request, acked>>

\* save: the state is serialised when the temporary file is written.
WriteDevices(c) ==
    /\ saving[c].at = "mkdir"
    /\ saving' = [saving EXCEPT ![c].at = "file", ![c].snap = registry]
    /\ UNCHANGED <<registry, deviceFile, offer, issued, lapsed, holder,
                   request, acked, exposed, excused>>

\* The request r and, if it is refreshing, those that wait for the refresh.
Waiters(r) == {q \in AppRequests :
    q = r \/ (request[r].at = "own" /\ request[q].at = "join")}

\* The request r fails, and with it every one that waits for it.
Rejected(r) == [q \in AppRequests |->
    IF q \in Waiters(r) THEN NoRequest ELSE request[q]]

\* setCredentials, if the client still waits, and the retries.
Answer(r) ==
    /\ holder' = IF request[r].at \in {"pairing", "own"}
                 THEN registry["app"].token ELSE holder
    /\ request' = CASE request[r].at = "own" ->
                        [q \in AppRequests |-> IF q \in Waiters(r)
                          THEN [at |-> "retried", token |-> holder']
                          ELSE request[q]]
                    [] request[r].at = "pairing" -> Rejected(r)
                    [] OTHER -> request

\* Mutant: the request is answered before the file is in place.
RenameForgotten(c) == UNCHANGED deviceFile

Renamed(c) == deviceFile' = saving[c].snap

RenameDevices(c) ==
    /\ saving[c].at = "file"
    /\ Renamed(c)
    /\ saving' = [saving EXCEPT ![c] = NotSaving]
    /\ IF c \in AppRequests THEN Answer(c) ELSE UNCHANGED <<holder, request>>
    /\ acked' = IF saving[c].op = "revoke"
                THEN acked \union {saving[c].device} ELSE acked
    /\ UNCHANGED <<registry, offer, issued, lapsed, exposed, excused>>

\* The save throws: the request is refused though the memory has changed.
SaveFails(c) ==
    /\ saving[c].at # "idle"
    /\ saving' = [saving EXCEPT ![c] = NotSaving]
    /\ holder' = IF c \in AppRequests /\ request[c].at = "own"
                 THEN 0 ELSE holder
    /\ request' = IF c \in AppRequests THEN Rejected(c) ELSE request
    /\ excused' = TRUE
    /\ UNCHANGED <<registry, deviceFile, offer, issued, lapsed, acked,
                   exposed>>

\* The daemon ends, and starts again with what load reads.
DaemonRestarts ==
    /\ registry' = deviceFile
    /\ offer' = [offer EXCEPT !.pending = FALSE]
    /\ saving' = [c \in Caller |-> NotSaving]
    /\ request' = [r \in AppRequests |-> NoRequest]
    /\ excused' = TRUE
    /\ UNCHANGED <<deviceFile, issued, lapsed, holder, acked, exposed>>

AccessLapses ==
    /\ registry["app"].token \in (1..issued) \ lapsed
    /\ lapsed' = lapsed \union {registry["app"].token}
    /\ UNCHANGED <<registry, deviceFile, offer, issued, saving, holder,
                   request, acked, exposed, excused>>

-----------------------------------------------------------------------------
(* The client. *)

\* authorize.
Authorized(t) ==
    /\ t = registry["app"].token /\ t \notin lapsed
    /\ ~registry["app"].revoked

SendRequest(r) ==
    /\ holder # 0
    /\ request[r].at = "idle" /\ saving[r].at = "idle"
    /\ request' = [request EXCEPT ![r] = [at |-> "sent", token |-> holder]]
    /\ UNCHANGED <<registry, deviceFile, offer, issued, lapsed, saving,
                   holder, acked, exposed, excused>>

\* Mutant: every request refreshes for itself.
RefreshAlone(r) == "own"

\* refresh: the refresh under way, or one of its own.
JoinOrOwn(r) ==
    IF \E q \in AppRequests : request[q].at = "own" THEN "join" ELSE "own"

\* 401 once: refresh, if there still are credentials, and try again.
ServeRequest(r) ==
    /\ request[r].at \in {"sent", "retried"}
    /\ request' = [request EXCEPT ![r] =
         IF Authorized(request[r].token) \/ request[r].at = "retried"
              \/ holder = 0
         THEN NoRequest
         ELSE [at |-> JoinOrOwn(r), token |-> holder]]
    /\ UNCHANGED <<registry, deviceFile, offer, issued, lapsed, saving,
                   holder, acked, exposed, excused>>

\* refresh of the registry: the device, and the token it holds; that it has
\* not expired for refreshing either is left out.
Refreshable(t) == t = registry["app"].token /\ ~registry["app"].revoked

ServeRefresh(r) ==
    /\ request[r].at = "own" /\ Refreshable(request[r].token)
    /\ saving[r].at = "idle"
    /\ Rotate(r, "app")
    /\ UNCHANGED <<deviceFile, offer, lapsed, holder, request, acked,
                   exposed, excused>>

\* A refused refresh clears the credentials.
RefuseRefresh(r) ==
    /\ request[r].at = "own" /\ ~Refreshable(request[r].token)
    /\ saving[r].at = "idle"
    /\ holder' = 0
    /\ request' = Rejected(r)
    /\ UNCHANGED <<registry, deviceFile, offer, issued, lapsed, saving, acked,
                   exposed, excused>>

\* The network loses a request or its answer; the credentials are kept.
LoseAnswer(r) ==
    /\ request[r].at \in {"pairing", "sent", "retried", "own"}
    /\ request' = Rejected(r)
    /\ excused' = (excused \/ saving[r].at # "idle")
    /\ UNCHANGED <<registry, deviceFile, offer, issued, lapsed, saving,
                   holder, acked, exposed>>

DeviceNext ==
    \/ CreateOffer \/ OfferExpires \/ OtherPairs \/ OtherRefreshes
    \/ AdminRotates \/ DaemonRestarts \/ AccessLapses
    \/ \E d \in Device : Revoke(d)
    \/ \E c \in Caller : WriteDevices(c) \/ RenameDevices(c) \/ SaveFails(c)
    \/ \E r \in AppRequests :
         \/ AppPairs(r) \/ SendRequest(r) \/ ServeRequest(r)
         \/ ServeRefresh(r) \/ RefuseRefresh(r) \/ LoseAnswer(r)

DeviceSpec == DeviceInit /\ [][DeviceNext]_deviceVars

-----------------------------------------------------------------------------
(* Properties. *)

\* A revocation that was answered is in memory and on the disk and outlives
\* restarts, unless an older file was still being written when it was made:
\* that file may be renamed last (save has no order).
RevocationSurvives ==
    \A d \in acked \ exposed : registry[d].revoked /\ deviceFile[d].revoked

\* The client never loses its key through the concurrency of its own
\* requests: while no answer was lost, no save failed, the daemon did not
\* restart and the administrator did not touch the device, what it holds is
\* what the registry expects whenever no handler is at work for it.
ClientKeepsKey ==
    ~excused /\ (\A r \in AppRequests : saving[r].at = "idle")
      => holder = registry["app"].token
=============================================================================
