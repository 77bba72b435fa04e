----------------------------- MODULE McpServers -----------------------------
(***************************************************************************)
(* The MCP servers: McpManager (desktop-host/src/phase2/mcp.ts) keeps them *)
(* in a file and in a patch from which the Harness loads entries at its    *)
(* start; the route of the plugin (dsh-plugin-desktop/src/index.ts)        *)
(* changes the files and then brings the entries of the running Loader     *)
(* into line.  Nothing keeps two requests apart.  The file knows a server  *)
(* by its id, the Loader by its name, and two ids may have one name.  The  *)
(* order of the records in the file is left open.                          *)
(***************************************************************************)
EXTENDS Naturals, Sequences, SequencesExt, FiniteSets, FiniteSetsExt

CONSTANTS
    Server,     \* records a file may have: id, name, enabled or not
    McpNames,   \* names of servers
    OwnServers, \* those the user has entered in the Harness himself
    McpCalls,   \* requests that may be at work at a time
    McpBound    \* bound: requests and restarts in all

ASSUME McpAssumption ==
    /\ IsFiniteSet(Server)
    /\ \A r \in Server : r.name \in McpNames /\ r.on \in BOOLEAN
    /\ IsFiniteSet(McpNames) /\ OwnServers \subseteq McpNames
    /\ McpBound \in Nat

VARIABLES
    mcpState,  \* mcp-servers.json
    mcpPatch,  \* mcp.patch.yml
    entries,   \* the entries of the Loader, oldest first
    managed,   \* managedMcpEntryIds
    mcpCall,   \* the requests
    mcpCount,  \* requests and restarts so far
    settledMcp \* history: nothing ran since a request that ran alone

mcpVars == <<mcpState, mcpPatch, entries, managed, mcpCall, mcpCount,
             settledMcp>>

\* What a file may hold: one record of an id.
Records == {recs \in SUBSET Server : \A r, s \in recs : r.id = s.id => r = s}

Named(recs, n) == {r \in recs : r.name = n}

NoCall == [at |-> "idle", op |-> "none", recs |-> {}, todo |-> {}, now |-> 0,
           met |-> {}, made |-> {}, alone |-> TRUE]

McpTypeOK ==
    /\ mcpState \in Records /\ mcpPatch \in Records
    /\ \A i \in 1..Len(entries) :
         /\ entries[i].name \in McpNames
         /\ entries[i].on \in BOOLEAN /\ entries[i].live \in BOOLEAN
    /\ managed \subseteq 1..Len(entries)
    /\ \A c \in McpCalls :
         /\ mcpCall[c].at \in {"idle", "list", "boot", "state", "patch",
                               "entries", "removed", "adopted", "created",
                               "off", "back"}
         /\ mcpCall[c].op \in {"none", "change", "load", "restart"}
         /\ mcpCall[c].recs \in Records
         /\ mcpCall[c].todo \subseteq 1..Len(entries)
         /\ mcpCall[c].now \in 0..Len(entries)
         /\ mcpCall[c].met \subseteq McpNames
         /\ mcpCall[c].made \subseteq mcpCall[c].recs
    /\ mcpCount \in 0..McpBound
    /\ settledMcp \in {"no", "loader", "files"}

Entry(n, on) == [name |-> n, on |-> on, live |-> TRUE]

\* What the Harness loads: the user's entries, then those of the patch.
Loaded(patch) ==
    LET own == SetToSeq(OwnServers)
        ours == SetToSeq(patch)
    IN  [i \in 1..Len(own) |-> Entry(own[i], TRUE)]
          \o [i \in 1..Len(ours) |-> Entry(ours[i].name, ours[i].on)]

McpInit ==
    /\ mcpState = {} /\ mcpPatch = {}
    /\ entries = Loaded({}) /\ managed = {}
    /\ mcpCall = [c \in McpCalls |-> NoCall]
    /\ mcpCount = 0 /\ settledMcp = "no"

Live(n) == {i \in 1..Len(entries) : entries[i].live /\ entries[i].name = n}

\* The next place of c.
Go(c, call) == mcpCall' = [mcpCall EXCEPT ![c] = call]

-----------------------------------------------------------------------------
(* The route and the files. *)

BeginMcpCall(c) ==
    /\ mcpCall[c].at = "idle" /\ mcpCount < McpBound
    /\ mcpCount' = mcpCount + 1
    /\ LET others == {d \in McpCalls : mcpCall[d].at # "idle"} IN
         mcpCall' = [d \in McpCalls |->
           CASE d = c -> [NoCall EXCEPT !.at = "list", !.alone = others = {}]
             [] d \in others -> [mcpCall[d] EXCEPT !.alone = FALSE]
             [] OTHER -> mcpCall[d]]
    /\ settledMcp' = "no"
    /\ UNCHANGED <<mcpState, mcpPatch, entries, managed>>

\* upsert, setEnabled and import put records in the place of those with their
\* ids; remove takes one out.
With(recs, more) ==
    more \union {r \in recs : \A s \in more : s.id # r.id}

Changed ==
    {With(mcpState, more) : more \in Records}
      \union {mcpState \ {r} : r \in mcpState}

ChangeRecords(c) ==
    /\ mcpCall[c].at = "list"
    /\ \E recs \in Changed :
         Go(c, [mcpCall[c] EXCEPT !.at = "state", !.op = "change",
                                  !.recs = recs])
    /\ UNCHANGED <<mcpState, mcpPatch, entries, managed, mcpCount, settledMcp>>

\* The entries there are when a reconciliation with recs starts.
Reconcile(call, op, recs) ==
    [call EXCEPT !.at = "entries", !.op = op, !.recs = recs,
                 !.todo = {i \in 1..Len(entries) : entries[i].live}]

\* An import that is not confirmed saves nothing and reconciles with what the
\* file has, as apply does when the Harness starts.
LoadRecords(c) ==
    /\ mcpCall[c].at \in {"list", "boot"}
    /\ Go(c, Reconcile(mcpCall[c], "load", mcpState))
    /\ UNCHANGED <<mcpState, mcpPatch, entries, managed, mcpCount, settledMcp>>

\* restartMcpLoader: a server that is not loaded is reconciled as if there
\* were no other record.
RestartServer(c) ==
    /\ mcpCall[c].at = "list"
    /\ \E r \in mcpState :
         Go(c, IF Live(r.name) = {}
               THEN Reconcile(mcpCall[c], "restart", {r})
               ELSE [mcpCall[c] EXCEPT !.at = "off", !.op = "restart",
                                       !.recs = {r}, !.todo = Live(r.name)])
    /\ UNCHANGED <<mcpState, mcpPatch, entries, managed, mcpCount, settledMcp>>

\* save: first the file, then the patch.
SaveRecords(c) ==
    /\ mcpCall[c].at = "state"
    /\ mcpState' = mcpCall[c].recs
    /\ Go(c, [mcpCall[c] EXCEPT !.at = "patch"])
    /\ UNCHANGED <<mcpPatch, entries, managed, mcpCount, settledMcp>>

SavePatch(c) ==
    /\ mcpCall[c].at = "patch"
    /\ mcpPatch' = mcpCall[c].recs
    /\ Go(c, Reconcile(mcpCall[c], "change", mcpCall[c].recs))
    /\ UNCHANGED <<mcpState, entries, managed, mcpCount, settledMcp>>

\* What a request waits for fails: the id is unknown, a file cannot be
\* written, a credential is missing, the Loader refuses.  The rest is not
\* done, what was done is not undone.
CallThrows(c) ==
    /\ mcpCall[c].at # "idle"
    /\ Go(c, NoCall)
    /\ UNCHANGED <<mcpState, mcpPatch, entries, managed, mcpCount, settledMcp>>

-----------------------------------------------------------------------------
(* reconcileMcpLoader: the entries one by one, then the records that were    *)
(* not met.  Every call of the Loader is awaited.                            *)

\* Mutant: only entries DSHPilot has made are remembered.
RememberOwn(i) == managed

Adopt(i) == managed \union {i}

\* c looks at i, the next entry of its list; someone else may have removed it.
LooksAt(c, i) ==
    /\ mcpCall[c].at = "entries" /\ mcpCall[c].todo # {}
    /\ i = Min(mcpCall[c].todo)

\* An entry without a record goes if it is managed, and so does the second
\* one of a name.
Unwanted(c, i) ==
    \/ Named(mcpCall[c].recs, entries[i].name) = {}
    \/ entries[i].name \in mcpCall[c].met

PassEntry(c) ==
    \E i \in 1..Len(entries) :
        /\ LooksAt(c, i) /\ Unwanted(c, i) /\ i \notin managed
        /\ Go(c, [mcpCall[c] EXCEPT !.todo = @ \ {i}])
        /\ UNCHANGED <<mcpState, mcpPatch, entries, managed, mcpCount,
                       settledMcp>>

DropEntry(c) ==
    \E i \in managed :
        /\ LooksAt(c, i) /\ Unwanted(c, i)
        /\ entries' = [entries EXCEPT ![i].live = FALSE]
        /\ Go(c, [mcpCall[c] EXCEPT !.at = "removed", !.todo = @ \ {i},
                                    !.now = i])
        /\ UNCHANGED <<mcpState, mcpPatch, managed, mcpCount, settledMcp>>

ForgetEntry(c) ==
    /\ mcpCall[c].at = "removed"
    /\ managed' = managed \ {mcpCall[c].now}
    /\ Go(c, [mcpCall[c] EXCEPT !.at = "entries", !.now = 0])
    /\ UNCHANGED <<mcpState, mcpPatch, entries, mcpCount, settledMcp>>

\* Any other one is managed from now on and then brought up to date.
AdoptEntry(c) ==
    \E i \in 1..Len(entries) :
        /\ LooksAt(c, i) /\ ~Unwanted(c, i)
        /\ managed' = Adopt(i)
        /\ Go(c, [mcpCall[c] EXCEPT !.at = "adopted", !.todo = @ \ {i},
                    !.now = i, !.met = @ \union {entries[i].name}])
        /\ UNCHANGED <<mcpState, mcpPatch, entries, mcpCount, settledMcp>>

UpdateEntry(c) ==
    /\ mcpCall[c].at = "adopted"
    /\ LET i == mcpCall[c].now IN
         \E r \in Named(mcpCall[c].recs, entries[i].name) :
             entries' = [entries EXCEPT ![i].on = r.on]
    /\ Go(c, [mcpCall[c] EXCEPT !.at = "entries", !.now = 0])
    /\ UNCHANGED <<mcpState, mcpPatch, managed, mcpCount, settledMcp>>

\* Records whose name no entry had are created, two of one name as well; an
\* entry is managed when the Loader has answered.
ToCreate(c) ==
    {r \in mcpCall[c].recs :
       r.name \notin mcpCall[c].met /\ r \notin mcpCall[c].made}

CreateEntry(c) ==
    /\ mcpCall[c].at = "entries" /\ mcpCall[c].todo = {}
    /\ \E r \in ToCreate(c) :
         /\ entries' = Append(entries, Entry(r.name, r.on))
         /\ Go(c, [mcpCall[c] EXCEPT !.at = "created", !.made = @ \union {r},
                                     !.now = Len(entries')])
    /\ UNCHANGED <<mcpState, mcpPatch, managed, mcpCount, settledMcp>>

EntryCreated(c) ==
    /\ mcpCall[c].at = "created"
    /\ managed' = managed \union {mcpCall[c].now}
    /\ Go(c, [mcpCall[c] EXCEPT !.at = "entries", !.now = 0])
    /\ UNCHANGED <<mcpState, mcpPatch, entries, mcpCount, settledMcp>>

EndReconcile(c) ==
    /\ mcpCall[c].at = "entries" /\ mcpCall[c].todo = {} /\ ToCreate(c) = {}
    /\ Go(c, NoCall)
    /\ settledMcp' =
         IF ~mcpCall[c].alone \/ mcpCall[c].op = "restart" THEN "no"
         ELSE IF mcpCall[c].op = "change" THEN "files" ELSE "loader"
    /\ UNCHANGED <<mcpState, mcpPatch, entries, managed, mcpCount>>

-----------------------------------------------------------------------------
(* Restarts. *)

\* restartMcpLoader: off and on again, entry by entry.
StopEntry(c) ==
    /\ mcpCall[c].at = "off"
    /\ entries' = [entries EXCEPT ![Min(mcpCall[c].todo)].on = FALSE]
    /\ Go(c, [mcpCall[c] EXCEPT !.at = "back"])
    /\ UNCHANGED <<mcpState, mcpPatch, managed, mcpCount, settledMcp>>

StartEntry(c) ==
    /\ mcpCall[c].at = "back"
    /\ LET i == Min(mcpCall[c].todo)
           rest == mcpCall[c].todo \ {i}
       IN /\ \E r \in mcpCall[c].recs :
               entries' = [entries EXCEPT ![i].on = r.on]
          /\ Go(c, IF rest = {} THEN NoCall
                   ELSE [mcpCall[c] EXCEPT !.at = "off", !.todo = rest])
    /\ UNCHANGED <<mcpState, mcpPatch, managed, mcpCount, settledMcp>>

\* The Harness starts again, and apply reads the file.
LoaderRestarts(c) ==
    /\ mcpCount < McpBound
    /\ mcpCount' = mcpCount + 1
    /\ entries' = Loaded(mcpPatch) /\ managed' = {}
    /\ mcpCall' = [d \in McpCalls |->
         IF d = c THEN [NoCall EXCEPT !.at = "boot"] ELSE NoCall]
    /\ settledMcp' = "no"
    /\ UNCHANGED <<mcpState, mcpPatch>>

McpNext ==
    \E c \in McpCalls :
        \/ BeginMcpCall(c) \/ ChangeRecords(c) \/ LoadRecords(c)
        \/ RestartServer(c) \/ SaveRecords(c) \/ SavePatch(c)
        \/ CallThrows(c) \/ PassEntry(c) \/ DropEntry(c) \/ ForgetEntry(c)
        \/ AdoptEntry(c) \/ UpdateEntry(c) \/ CreateEntry(c)
        \/ EntryCreated(c) \/ EndReconcile(c) \/ StopEntry(c)
        \/ StartEntry(c) \/ LoaderRestarts(c)

McpSpec == McpInit /\ [][McpNext]_mcpVars

-----------------------------------------------------------------------------
(* Properties. *)

\* A request or a start of the Harness that reconciled with the whole file,
\* ran alone and did not fail puts everything right, whatever overlapping
\* requests and failures left behind.  Every managed entry that is loaded is
\* set as a record of its name says; a name with a record has such an entry;
\* a name with one record has one only.  A request that saved the file has
\* brought the patch into line as well.
LoaderFollowsFile ==
    settledMcp # "no" =>
        /\ settledMcp = "files" => mcpPatch = mcpState
        /\ \A n \in McpNames :
             LET ours == Live(n) \intersect managed
                 wanted == Named(mcpState, n)
             IN  /\ \A i \in ours : \E r \in wanted : entries[i].on = r.on
                 /\ wanted # {} => ours # {}
                 /\ (\A r, s \in wanted : r = s) =>
                       \A i, j \in ours : i = j
=============================================================================
