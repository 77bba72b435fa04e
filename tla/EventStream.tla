---------------------------- MODULE EventStream ----------------------------
(***************************************************************************)
(* A remote client that follows the events of the control plane: the event *)
(* stream of the server (sse in packages/remote-daemon/src/index.ts), the  *)
(* two clients of packages/remote-client/src/index.ts - one reads the      *)
(* stream, the one behind the relay polls pages - and the page that uses   *)
(* them (apps/remote-pwa/src/main.tsx, stream-sync.ts).                    *)
(*                                                                         *)
(* The stream sends what the client has missed, one page of it, and then   *)
(* every event as it is published.  The client keeps a cursor, asks for a  *)
(* page when a number is missing, and starts again from nothing when the   *)
(* server tells it that its cursor is of no use.  The page takes a         *)
(* snapshot first, folds every event into its own cursor, shows gaps and   *)
(* resets, and saves the cursor for the next time it is opened.            *)
(*                                                                         *)
(* sse subscribes, reads its page and starts streaming in one turn of the  *)
(* event loop, so nothing is ever buffered meanwhile.  A request is        *)
(* answered in one step: while the client waits it does nothing else.      *)
(***************************************************************************)
EXTENDS EventStore, SequencesExt

CONSTANT MaxDrops  \* bound: times the network breaks a stream

ASSUME StreamAssumption == MaxDrops \in Nat

VARIABLES
    relayed,   \* the client is the one behind the relay
    conn,      \* the event stream: "none", "open" or "broken"
    frames,    \* what the server has written to it and the client not read
    client,    \* streamEvents: its place and its cursor
    view,      \* SyncState of the page; "told" is a history
    saved,     \* the cursor in the browser's storage
    delivered, \* history: events given to the page since its snapshot
    base,      \* history: the cursor of the view before them
    mixed,     \* history: the page after a reset was of another generation
    drops      \* streams broken so far

page == <<view, saved, delivered, base>>
others == <<relayed, mixed, drops>>
clientVars == <<conn, frames, client, page, others>>
vars == <<storeVars, clientVars>>

-----------------------------------------------------------------------------
(* Data. *)

Cursor(g, n) == [generation |-> g, seq |-> n]

Cursors == [generation : Generations \union {NoGeneration}, seq : Nat]

NoCursor == Cursor(NoGeneration, 0)

\* A frame: an event, or reset-required with the server's generation.
Reset(g) == [reset |-> TRUE, generation |-> g]
EventFrame(e) == [reset |-> FALSE, event |-> e]

IsFrame(f) == \/ f \in [reset : {TRUE}, generation : Generations]
              \/ f \in [reset : {FALSE}, event : Events]

Places == {"off", "asking", "dial", "read", "reset", "catchUp", "poll"}

TypeOK ==
    /\ StoreTypeOK
    /\ relayed \in BOOLEAN
    /\ conn \in {"none", "open", "broken"}
    /\ \A i \in DOMAIN frames : IsFrame(frames[i])
    /\ client \in [at : Places, cursor : Cursors]
    /\ view \in [sse : {"idle", "connecting", "reconnecting", "catching-up",
                        "live", "gap", "reset"},
                 cursor : Cursors, told : BOOLEAN]
    /\ saved \in Cursors
    /\ delivered \in Seq(Events)
    /\ base \in Cursors
    /\ mixed \in BOOLEAN
    /\ drops \in 0..MaxDrops

Init ==
    /\ StoreInit
    /\ relayed \in BOOLEAN
    /\ conn = "none"
    /\ frames = <<>>
    /\ client = [at |-> "off", cursor |-> NoCursor]
    /\ view = [sse |-> "idle", cursor |-> NoCursor, told |-> FALSE]
    /\ saved = NoCursor
    /\ delivered = <<>>
    /\ base = NoCursor
    /\ mixed = FALSE
    /\ drops = 0

-----------------------------------------------------------------------------
(* The page: reduceSync. *)

Connecting(v) ==
    [v EXCEPT !.sse = IF v.sse = "idle" THEN "connecting" ELSE "reconnecting"]

\* The snapshot is asked for without a cursor, so the server never answers it
\* with resetRequired.
OnSnapshot(v, g, latest) ==
    [sse |-> IF v.cursor.generation = NoGeneration THEN "catching-up"
             ELSE IF g # v.cursor.generation THEN "reset"
             ELSE IF latest > v.cursor.seq + 1 THEN "gap"
             ELSE "catching-up",
     cursor |-> Cursor(g, latest),
     told |-> FALSE]

\* Mutant: one missing event goes unnoticed, as it does in a snapshot.
SkipsOne(v, e) == e.seq > v.cursor.seq + 2

Skips(v, e) == e.seq > v.cursor.seq + 1

OnEvent(v, e) ==
    IF e.generation # v.cursor.generation
    THEN [sse |-> "reset", cursor |-> Cursor(e.generation, e.seq),
          told |-> TRUE]
    ELSE IF e.seq <= v.cursor.seq THEN v
    ELSE [sse |-> "live", cursor |-> Cursor(e.generation, e.seq),
          told |-> v.told \/ Skips(v, e)]

\* onEvent for each of some events: fold it into the view, save its cursor.
Deliver(some) ==
    /\ view' = FoldLeft(OnEvent, view, some)
    /\ saved' = IF some = <<>> THEN saved
                ELSE Cursor(Last(some).generation, Last(some).seq)
    /\ delivered' = delivered \o some

-----------------------------------------------------------------------------
(* The page: connectClient. *)

Connect ==
    /\ client.at = "off"
    /\ client' = [client EXCEPT !.at = "asking"]
    /\ view' = Connecting(view)
    /\ UNCHANGED <<storeVars, conn, frames, saved, delivered, base, others>>

Snapshot ==
    /\ client.at = "asking"
    /\ up
    /\ view' = OnSnapshot(view, generation, sequence)
    /\ saved' = Cursor(generation, sequence)
    /\ client' = [at |-> IF relayed THEN "poll" ELSE "dial", cursor |-> saved']
    /\ base' = saved'
    /\ delivered' = <<>>
    /\ UNCHANGED <<storeVars, conn, frames, others>>

\* Any of its requests fails: the user has to connect again.
ConnectFails ==
    /\ client.at = "asking"
    /\ client' = [client EXCEPT !.at = "off"]
    /\ view' = [view EXCEPT !.sse = "reconnecting"]
    /\ UNCHANGED <<storeVars, conn, frames, saved, delivered, base, others>>

\* The page is closed and opened again.
Reload ==
    /\ client.at # "off"
    /\ client' = [at |-> "off", cursor |-> NoCursor]
    /\ conn' = "none"
    /\ frames' = <<>>
    /\ view' = [sse |-> "idle", cursor |-> saved, told |-> FALSE]
    /\ base' = saved
    /\ delivered' = <<>>
    /\ UNCHANGED <<storeVars, saved, others>>

-----------------------------------------------------------------------------
(* streamEvents over HTTP. *)

EventFrames(some) == [i \in DOMAIN some |-> EventFrame(some[i])]

\* The server answers with the events after the cursor and keeps the stream
\* open for the events to come.
Dial ==
    /\ client.at = "dial"
    /\ up
    /\ conn' = "open"
    /\ frames' =
         (IF ResetRequired(client.cursor.seq, client.cursor.generation)
          THEN <<Reset(generation)>> ELSE <<>>)
            \o EventFrames(List(client.cursor.seq))
    /\ client' = [client EXCEPT !.at = "read"]
    /\ UNCHANGED <<storeVars, page, others>>

\* The cursor is set back before a page is asked for.
ReadReset ==
    /\ client.at = "read"
    /\ frames # <<>>
    /\ Head(frames).reset
    /\ client' = [at |-> "reset",
                  cursor |-> Cursor(Head(frames).generation, 0)]
    /\ frames' = Tail(frames)
    /\ UNCHANGED <<storeVars, conn, page, others>>

\* Mutant: what was caught up with is delivered again.
NewToAll(some, n) == some

\* The events of a list that the cursor has not passed.
NewTo(some, n) == Beyond(some, n)

\* The cursor after these events.
After(cursor, some) ==
    IF some = <<>> THEN cursor ELSE [cursor EXCEPT !.seq = Last(some).seq]

\* The next event, or one that was read already.
ReadEvent ==
    /\ client.at = "read"
    /\ frames # <<>>
    /\ ~Head(frames).reset
    /\ LET e == Head(frames).event
           some == NewTo(<<e>>, client.cursor.seq)
       IN  /\ e.seq <= client.cursor.seq + 1
           /\ Deliver(some)
           /\ client' = [client EXCEPT !.cursor = After(@, some)]
    /\ frames' = Tail(frames)
    /\ UNCHANGED <<storeVars, conn, base, others>>

\* Events are missing: the client asks for them, with this one in hand.
ReadGap ==
    /\ client.at = "read"
    /\ frames # <<>>
    /\ ~Head(frames).reset
    /\ Head(frames).event.seq > client.cursor.seq + 1
    /\ client' = [client EXCEPT !.at = "catchUp"]
    /\ UNCHANGED <<storeVars, conn, frames, page, others>>

\* The page after a reset; whether it asks for a reset again is not looked at.
ResetPage ==
    /\ client.at = "reset"
    /\ up
    /\ mixed' = (mixed \/ generation # client.cursor.generation)
    /\ LET some == NewTo(List(client.cursor.seq), client.cursor.seq)
       IN  /\ Deliver(some)
           /\ client' = [at |-> "read", cursor |-> After(client.cursor, some)]
    /\ UNCHANGED <<storeVars, conn, frames, base, relayed, drops>>

\* The page of missing events, then the event that showed that they are.
CatchUp ==
    /\ client.at = "catchUp"
    /\ up
    /\ LET from == IF ResetRequired(client.cursor.seq,
                                    client.cursor.generation)
                   THEN Cursor(generation, 0) ELSE client.cursor
           missed == NewTo(List(client.cursor.seq), from.seq)
           rest == NewTo(<<Head(frames).event>>, After(from, missed).seq)
       IN  /\ Deliver(missed \o rest)
           /\ client' = [at |-> "read",
                         cursor |-> After(from, missed \o rest)]
    /\ frames' = Tail(frames)
    /\ UNCHANGED <<storeVars, conn, base, others>>

\* The request for a page fails, or the stream has ended, whatever of it was
\* still to be read: the client dials again.
Redial ==
    /\ \/ client.at \in {"reset", "catchUp"}
       \/ client.at = "read" /\ conn = "broken"
    /\ client' = [client EXCEPT !.at = "dial"]
    /\ conn' = "none"
    /\ frames' = <<>>
    /\ UNCHANGED <<storeVars, page, others>>

-----------------------------------------------------------------------------
(* streamEvents over the relay: one page after the other.  Whether a page  *)
(* asks for a reset is not looked at.                                      *)

Poll ==
    /\ client.at = "poll"
    /\ up
    /\ LET some == NewTo(List(client.cursor.seq), client.cursor.seq)
       IN  /\ Deliver(some)
           /\ client' = [client EXCEPT
                           !.cursor = After(Cursor(generation, @.seq), some)]
    /\ UNCHANGED <<storeVars, conn, frames, base, others>>

-----------------------------------------------------------------------------
(* The server and the network. *)

\* Every event that is published is written to the open stream.
Published(step) ==
    /\ step
    /\ frames' = IF conn = "open"
                 THEN Append(frames, EventFrame(Last(events'))) ELSE frames
    /\ UNCHANGED <<conn, client, page, others>>

\* A stream ends with its server.
ServerEnds ==
    /\ ProcessEnds
    /\ conn' = IF conn = "open" THEN "broken" ELSE conn
    /\ UNCHANGED <<frames, client, page, others>>

Drop ==
    /\ conn = "open"
    /\ drops < MaxDrops
    /\ drops' = drops + 1
    /\ conn' = "broken"
    /\ UNCHANGED <<storeVars, frames, client, page, relayed, mixed>>

-----------------------------------------------------------------------------
Next ==
    \/ Connect \/ Snapshot \/ ConnectFails \/ Reload
    \/ Dial \/ ReadReset \/ ReadEvent \/ ReadGap
    \/ ResetPage \/ CatchUp \/ Redial
    \/ Poll
    \/ Published(PublishOther) \/ \E j \in Jobs : Published(JobStep(j))
    \/ ServerEnds \/ Drop
    \/ (Start \/ Background) /\ UNCHANGED clientVars

Spec == Init /\ [][Next]_vars

-----------------------------------------------------------------------------
(* Properties. *)

\* Stream, catch-up and reset overlap, yet no event reaches the page twice,
\* and those of a generation reach it in order.
DeliveredInOrder ==
    ~lost /\ ~mixed =>
        \A i, j \in DOMAIN delivered :
            i < j /\ delivered[i].generation = delivered[j].generation
              => delivered[i].seq < delivered[j].seq

\* Unless the page has shown a gap or a reset, every event its cursor has
\* passed since the snapshot has been delivered.
NoSilentLoss ==
    ~lost /\ ~view.told =>
        \A n \in (base.seq + 1)..view.cursor.seq :
            \E i \in DOMAIN delivered :
                Cursor(delivered[i].generation, delivered[i].seq)
                  = Cursor(view.cursor.generation, n)

\* "so a reload / reconnect resumes exactly where we left off": the saved
\* cursor, which is that of the last event, is the one the page has folded
\* from all of them.
SavedIsShown ==
    ~lost /\ ~mixed => saved = view.cursor

\* The page is given what EventFeed promises: each event once and in order,
\* or it is told of a loss, however snapshot, stream, catch-up, resets and
\* reloads follow each other.
Feed == INSTANCE EventFeed WITH
            Event <- Events, Place <- Cursors,
            start <- base, place <- view.cursor, given <- delivered,
            told <- view.told, excused <- lost \/ mixed

FeedIsKept == Feed!Spec
=============================================================================
