---------------------------- MODULE HarnessBridge ----------------------------
(***************************************************************************)
(* What a remote device sees of the Harness: createRemoteAdapter and       *)
(* startRemoteControl of dsh-plugin-desktop/src/index.ts, and              *)
(* permission_reply of the daemon.  The plugin lives in the process of the *)
(* Harness and follows its stream of frames (pump); a stream that breaks   *)
(* loses what is sent until the next subscription.  Questions are handled  *)
(* like approvals.  The projection is written behind, one snapshot after   *)
(* the other (persistProjection); of it a new process takes the jobs       *)
(* (hydrate).                                                              *)
(***************************************************************************)
EXTENDS Naturals, Sequences, FiniteSets

CONSTANTS
    Approvals,   \* approvals the Harness may ask for
    Jobs,        \* its jobs
    Devices,     \* devices that may answer at a time
    RestartBound \* bound: restarts of the Harness

ASSUME BridgeAssumption == RestartBound \in Nat

VARIABLES
    asked,      \* approvals: "none", "asked", "answered" or "lost"
    jobs,       \* jobs: "none", "running", "ended", "dropped" or "lost"
    muxUp,      \* the subscription of the pump
    frames,     \* frames on their way to the pump
    permissions,\* the permissions the adapter shows
    shownJobs,  \* the jobs the adapter shows, with their status
    sessionJobs,\* the jobs in the last frame of the session
    snapshots,  \* projections waiting to be written: their jobs
    projection, \* the projection on the disk: its jobs
    replying,   \* the replies of the devices
    server,     \* "none", "starting", "up", "stopped" or "stray"
    missed,     \* history: a frame was lost since the Harness started
    restarted   \* restarts so far

bridgeVars == <<asked, jobs, muxUp, frames, permissions, shownJobs,
                sessionJobs, snapshots, projection, replying, server, missed,
                restarted>>

harnessSide == <<asked, jobs>>
adapterSide == <<permissions, shownJobs, sessionJobs, snapshots>>

JobViews == [Jobs -> {"none", "running", "ended"}]

JobFrame(view) == [kind |-> "jobs", id |-> "none", view |-> view]
Asks(a) == [kind |-> "requested", id |-> a, view |-> [j \in Jobs |-> "none"]]
Answers(a) == [Asks(a) EXCEPT !.kind = "resolved"]

FrameType == {JobFrame(v) : v \in JobViews}
               \union {Asks(a) : a \in Approvals}
               \union {Answers(a) : a \in Approvals}

ReplyPlaces == {"idle", "checked", "sent", "accepted", "rejected"}
NoReply == [at |-> "idle", id |-> "none"]

BridgeTypeOK ==
    /\ asked \in [Approvals -> {"none", "asked", "answered", "lost"}]
    /\ jobs \in [Jobs -> {"none", "running", "ended", "dropped", "lost"}]
    /\ muxUp \in BOOLEAN /\ missed \in BOOLEAN
    /\ frames \in Seq(FrameType)
    /\ permissions \subseteq Approvals /\ sessionJobs \subseteq Jobs
    /\ shownJobs \in JobViews /\ projection \in JobViews
    /\ snapshots \in Seq(JobViews)
    /\ \A d \in Devices : replying[d].at \in ReplyPlaces
    /\ server \in {"none", "starting", "up", "stopped", "stray"}
    /\ restarted \in 0..RestartBound

NoJobs == [j \in Jobs |-> "none"]

BridgeInit ==
    /\ asked = [a \in Approvals |-> "none"] /\ jobs = NoJobs
    /\ muxUp = FALSE /\ frames = <<>>
    /\ permissions = {} /\ shownJobs = NoJobs /\ sessionJobs = {}
    /\ snapshots = <<>> /\ projection = NoJobs
    /\ replying = [d \in Devices |-> NoReply]
    /\ server = "starting" /\ missed = FALSE /\ restarted = 0

-----------------------------------------------------------------------------
(* The Harness. *)

Send(f) ==
    /\ frames' = IF muxUp THEN Append(frames, f) ELSE frames
    /\ missed' = (missed \/ ~muxUp)

HarnessAsks(a) ==
    /\ asked[a] = "none"
    /\ asked' = [asked EXCEPT ![a] = "asked"]
    /\ Send(Asks(a))
    /\ UNCHANGED <<jobs, muxUp, adapterSide, projection, replying, server,
                   restarted>>

\* Answered at the desktop.
AnsweredLocally(a) ==
    /\ asked[a] = "asked"
    /\ asked' = [asked EXCEPT ![a] = "answered"]
    /\ Send(Answers(a))
    /\ UNCHANGED <<jobs, muxUp, adapterSide, projection, replying, server,
                   restarted>>

\* A frame names all the jobs that are not dropped.
JobMoves(j) ==
    /\ jobs[j] \in {"none", "running", "ended"}
    /\ \E to \in CASE jobs[j] = "none" -> {"running"}
                   [] jobs[j] = "running" -> {"ended", "dropped"}
                   [] OTHER -> {"dropped"} :
         /\ jobs' = [jobs EXCEPT ![j] = to]
         /\ Send(JobFrame([k \in Jobs |->
              IF jobs'[k] \in {"running", "ended"} THEN jobs'[k]
              ELSE "none"]))
    /\ UNCHANGED <<asked, muxUp, adapterSide, projection, replying, server,
                   restarted>>

\* The stream breaks, and the pump subscribes again half a second later.
MuxBreaks ==
    /\ muxUp
    /\ muxUp' = FALSE /\ frames' = <<>>
    /\ missed' = (missed \/ frames # <<>>)
    /\ UNCHANGED <<harnessSide, adapterSide, projection, replying, server,
                   restarted>>

Subscribe ==
    /\ ~muxUp /\ server = "up"
    /\ muxUp' = TRUE
    /\ UNCHANGED <<harnessSide, frames, adapterSide, projection, replying,
                   server, missed, restarted>>

-----------------------------------------------------------------------------
(* The adapter. *)

\* session/jobs: a job of the last frame that is no longer named goes, unless
\* it has ended.
MergeJobs(view) ==
    [j \in Jobs |->
       CASE view[j] # "none" -> view[j]
         [] view[j] = "none" /\ j \in sessionJobs /\ shownJobs[j] # "ended" ->
              "none"
         [] OTHER -> shownJobs[j]]

Persist(view) == snapshots' = Append(snapshots, view)

\* One frame of the pump.
HandleFrameOfMux ==
    /\ muxUp /\ frames # <<>>
    /\ frames' = Tail(frames)
    /\ LET f == Head(frames) IN
         CASE f.kind = "jobs" ->
                /\ shownJobs' = MergeJobs(f.view)
                /\ sessionJobs' = {j \in Jobs : f.view[j] # "none"}
                /\ Persist(shownJobs')
                /\ UNCHANGED permissions
           [] f.kind = "requested" ->
                /\ permissions' = permissions \union {f.id}
                /\ Persist(shownJobs)
                /\ UNCHANGED <<shownJobs, sessionJobs>>
           [] f.kind = "resolved" ->
                /\ permissions' = permissions \ {f.id}
                /\ Persist(shownJobs)
                /\ UNCHANGED <<shownJobs, sessionJobs>>
    /\ UNCHANGED <<harnessSide, muxUp, projection, replying, server, missed,
                   restarted>>

WriteProjection ==
    /\ snapshots # <<>>
    /\ projection' = Head(snapshots) /\ snapshots' = Tail(snapshots)
    /\ UNCHANGED <<harnessSide, muxUp, frames, permissions, shownJobs,
                   sessionJobs, replying, server, missed, restarted>>

\* permission_reply: the permission is pending when the device is
\* authorized, and once more when permissionReply looks for it.
ReplyAuthorized(d, a) ==
    /\ server = "up" /\ replying[d].at = "idle" /\ a \in permissions
    /\ replying' = [replying EXCEPT ![d] = [at |-> "checked", id |-> a]]
    /\ UNCHANGED <<harnessSide, muxUp, frames, adapterSide, projection,
                   server, missed, restarted>>

ReplySent(d) ==
    /\ replying[d].at = "checked"
    /\ replying' = IF replying[d].id \in permissions
                   THEN [replying EXCEPT ![d].at = "sent"]
                   ELSE [replying EXCEPT ![d] = NoReply]
    /\ UNCHANGED <<harnessSide, muxUp, frames, adapterSide, projection,
                   server, missed, restarted>>

\* Mutant: the permission goes whether the Harness accepts the reply or not.
DropAnyway(a, accepted) == permissions \ {a}

DropAccepted(a, accepted) ==
    IF accepted THEN permissions \ {a} ELSE permissions

\* respond: the Harness takes the first answer; it may refuse any other, and
\* one it cannot use.
HarnessDecides(d) ==
    /\ replying[d].at = "sent"
    /\ LET a == replying[d].id IN
         \E accepted \in {FALSE, asked[a] = "asked"} :
           /\ replying' = [replying EXCEPT ![d].at =
                IF accepted THEN "accepted" ELSE "rejected"]
           /\ IF accepted
              THEN /\ asked' = [asked EXCEPT ![a] = "answered"]
                   /\ Send(Answers(a))
              ELSE UNCHANGED <<asked, frames, missed>>
    /\ UNCHANGED <<jobs, muxUp, adapterSide, projection, server, restarted>>

\* Its receipt reaches the reply, before or after the frame of the answer.
ReplyAnswered(d) ==
    /\ replying[d].at \in {"accepted", "rejected"}
    /\ LET accepted == replying[d].at = "accepted" IN
         /\ permissions' = DropAccepted(replying[d].id, accepted)
         /\ IF accepted THEN Persist(shownJobs) ELSE UNCHANGED snapshots
    /\ replying' = [replying EXCEPT ![d] = NoReply]
    /\ UNCHANGED <<harnessSide, muxUp, frames, shownJobs, sessionJobs,
                   projection, server, missed, restarted>>

-----------------------------------------------------------------------------
(* The plugin. *)

\* startRemoteControl: the server is up, or it is stopped at once because the
\* plugin was disposed of in the meantime.
ServerStarts ==
    /\ server \in {"starting", "stray"}
    /\ server' = IF server = "starting" THEN "up" ELSE "stopped"
    /\ UNCHANGED <<harnessSide, muxUp, frames, adapterSide, projection,
                   replying, missed, restarted>>

\* The effect is disposed of; a server that is not up yet stops itself.
DisposePlugin ==
    /\ server \in {"starting", "up"}
    /\ server' = IF server = "up" THEN "stopped" ELSE "stray"
    /\ muxUp' = FALSE /\ frames' = <<>>
    /\ missed' = TRUE
    /\ UNCHANGED <<harnessSide, adapterSide, projection, replying, restarted>>

\* A new Harness knows nothing of the approvals and jobs of the last one;
\* hydrate takes the jobs of the projection only, which it leaves as they are.
NewHarness ==
    /\ restarted < RestartBound
    /\ restarted' = restarted + 1
    /\ asked' = [a \in Approvals |->
                   IF asked[a] = "none" THEN "none" ELSE "lost"]
    /\ jobs' = [j \in Jobs |-> IF jobs[j] = "none" THEN "none" ELSE "lost"]
    /\ muxUp' = FALSE /\ frames' = <<>> /\ missed' = FALSE
    /\ permissions' = {} /\ sessionJobs' = {}
    /\ shownJobs' = projection /\ snapshots' = <<>>
    /\ replying' = [d \in Devices |-> NoReply]
    /\ server' = "starting"
    /\ UNCHANGED projection

BridgeNext ==
    \/ MuxBreaks \/ Subscribe \/ HandleFrameOfMux \/ WriteProjection
    \/ ServerStarts \/ DisposePlugin \/ NewHarness
    \/ \E a \in Approvals : HarnessAsks(a) \/ AnsweredLocally(a)
    \/ \E j \in Jobs : JobMoves(j)
    \/ \E d \in Devices :
         \/ ReplySent(d) \/ HarnessDecides(d) \/ ReplyAnswered(d)
         \/ \E a \in Approvals : ReplyAuthorized(d, a)

BridgeSpec == BridgeInit /\ [][BridgeNext]_bridgeVars

-----------------------------------------------------------------------------
(* Properties. *)

\* While no frame was lost, once the pump has caught up a device sees the
\* approvals the Harness waits for and the jobs it runs, and no other one of
\* its own: neither a reply that was refused, nor one of two replies, nor
\* the frame of a reply that comes late takes or leaves one.
BridgeFollowsHarness ==
    muxUp /\ ~missed /\ frames = <<>> =>
        /\ permissions = {a \in Approvals : asked[a] = "asked"}
        /\ \A j \in Jobs : jobs[j] # "lost" =>
             (shownJobs[j] = "running" <=> jobs[j] = "running")
=============================================================================
