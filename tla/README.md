# A TLA+ model of DSHPilot

DSHPilot is a desktop application (Tauri, Rust) that supervises a *Harness*, a
local agent server, installs and rolls back the *Runtime* the Harness runs on,
and lets a phone drive the Harness through a control plane, directly or
through a blind relay. This directory holds TLA+ modules for the parts of it
whose correctness depends on the order of events, the TLC configurations that
check them on small instances, and theorems about them with proofs that TLAPS
checks. `PROJECT.json` maps every definition to the lines it models.

```
tlc -workers 2 -config Supervisor.cfg Supervisor.tla     # one run
tlapm SupervisorProofs.tla                               # one proof module
```

## 1. Inventory

| part | state | operations | what makes it hard |
|---|---|---|---|
| **Desktop supervisor** (`apps/desktop/src-tauri/src/lib.rs`) | one mutex-protected slot with the tracked run, a status snapshot under a second mutex, a stopping flag per run, the service registration file | start (adopt, discover, launch, recover), stop, restart, retry, exit; one monitor thread per successful start | monitors poll the slot and not "their" run, act on what they saw after they released the mutex, and respawn without it; processes die at any time; the desktop itself may die and leave a Harness |
| **Runtime pointers and update tool** (`desktop-host/src/index.ts`, `runtime-cli.ts`; recovery in `lib.rs`) | `current.json`, `previous.json`, `pointers.transaction.json`, `update.lock`, `versions/` | install, rollback, undo of a rollback, recovery; the desktop's own recovery | two files that must change as one, failures while a failure is being undone, tools that die, a second writer that knows neither the journal nor the lock |
| **Runtime update and rollback commands** (`lib.rs`) | the "update in progress" flag | stop, run the tool, start, roll back on failure | the composition of the two parts above |
| **Relay server** (`remote-relay/src/index.ts`) | a map from channel id to a channel object (peers, roles in use, age) | upgrade, hello, authenticate, forward, timeout, close, sweep, stop | ends of connections look a channel up by id, not by identity; frames that arrive after a close |
| **Remote daemon: event store and streams** (`remote-daemon/src/index.ts`) | the recent events in memory, the log and generation files, a chain of writes, subscribers | append, compact, load, page, SSE | events are published before they are written; a crash between the two; pages with a limit and live events |
| **Remote daemon: admission of prompts** | requests in flight, requests admitted | ask, create a session, hand over, record | two connections and a retry ask for the same prompt; a restart rebuilds what was admitted from a list with a limit |
| **Remote daemon: devices and tokens** (`remote-daemon`, `remote-client`) | devices with token hashes and expiry, pairing offers, their file | offer, pair, refresh, rotate, revoke, authorise | memory changes at once and the file after an await, in no order; concurrent refreshes; lost answers |
| **Remote daemon: headless supervisor** (`remote-daemon/src/bin.ts`) | the Harness process, the count of restarts, the stop flag | start, probe, restart, stop | an exit is an event, and it may come when nobody listens |
| **Encrypted relay tunnel** (`relay-tunnel.ts`, `remote-client`) and **relay endpoint** (`relay.ts`, `index.ts` of the daemon) | the socket and the requests of the client, ids of requests seen; sockets, the count of them, sessions and peers, replay windows | connect, send, answer, reconnect, close; upgrade, handshake, forward | replay and reorder, clocks that differ, reconnection with state left from before; messages of a socket that is being closed |
| **Remote client and PWA** (`remote-client`, `apps/remote-pwa`) | credentials, the refresh in flight, cursor and generation, the sync state | snapshot, stream, catch up, reset | a snapshot and a stream from different moments of the server |
| **Desktop plugin: remote adapter** (`dsh-plugin-desktop`) | permissions and jobs it shows, the projection on the disk, the control plane it starts | pump of frames, replies, jobs, hydrate, dispose | a reply, a later frame and another device race for one permission; a start that ends after the disposal |
| **Desktop plugin: routes and one-click setup** | the tunnel process, the pending offer; the usage ledger and the last signature of each session | setup, stop, MCP route; record and total usage | setups that overlap share one variable; the stream the usage comes from repeats itself, and the memory of it is read back while it runs |
| **MCP manager** (`desktop-host/src/phase2/mcp.ts`) | state file, patch file, entries of the running Loader | upsert, toggle, remove, import, restart, boot | two files and a Loader changed one after the other, and requests that overlap |
| **Document parser worker** (`parser-worker-client.ts`) | one worker process, one promise, timers | run, time out, abort, end | four events race for one result |
| **Documents and artifacts** (`attachments.ts`, `phase3.ts`) | an object and a manifest per content, temporary files | add | two files that belong together; concurrent adds share a temporary name |
| **Remote setup command** (`scripts/remote/setup.ts`) | tunnel, relay and Harness, each a child with a timer | start, retry, test, offer, stay, stop | any child exits at any moment, and so does the user |
| Tokens and notifications; phase 3 projections; control contracts; application updates and tray; client extension; other scripts | files of single requests, pure transformations, presentation | - | little or no ordering of their own |

How the parts interact: the user's commands reach the supervisor through Tauri
and the tray; the supervisor reads the pointers when it launches a Harness and
writes `current.json` when one does not start; the update command runs the
tool as a child process; the plugin runs inside the Harness and starts the
daemon there; the daemon connects out to the relay server; the PWA talks to
the daemon over HTTP, or over the relay through the encrypted tunnel.

What makes each part correct:

* supervisor: what is tracked is watched; a failing Harness is not launched for
  ever; nothing the desktop launched is left untracked; a Harness of the user
  is never killed; a crash is noticed;
* pointers: the pair changes in one step whatever fails; it names installed
  Runtimes; the Runtime that worked is never lost; success means done;
* relay: one open desktop and one open client per channel; open peers reach
  each other; handshakes and channels end;
* events: a client that follows the stream sees every event of a generation
  once and in order, or is told that it missed some; a prompt is admitted once;
* devices: a revocation that was answered lasts; a client does not lock itself
  out by its own concurrency;
* tunnel: a request is executed once and comes to an end; the endpoint counts
  and routes what is connected; only genuine frames move a replay window;
* prompts: the Harness takes a prompt once;
* adapter: a device sees what the Harness waits for and runs, no more, no less;
* MCP: after a request that ran alone the Loader, the patch and the file agree;
* stores: what is listed can be read;
* usage: a message that was delivered is written, and within the limits of what
  the ledger remembers not twice;
* child processes: one at a time, none left behind, a stop reaches all of them.

`PROJECT.json` lists the hazards of this code, each at its line, with the
properties that would catch it.

## 2. Plan

1. The desktop: `Supervisor`, and `RuntimePointers`, which implements the
   abstract `RuntimePair`; with proofs.
2. What is between desktop and phone: `RelayServer`, `RelayTunnel`,
   `PeerRouter`; `EventStore` and, extending it, `EventStream`, which
   implements the abstract `EventFeed`.
3. The daemon: `DeviceRegistry`, `PromptAdmission`, `HarnessRestarts`.
4. The plugin and the host: `HarnessBridge`, `McpServers`, `ContentStore`,
   `ParserWorker`, `RemoteSetup`, `RemoteConfigure`, `UsageLedger`.
5. Proofs: type invariant and main safety invariants of each module, where
   the prover reaches.

All of this is done, as section 3 describes; section 6 says what is proved.

## 3. Modules

### Supervisor

One step per critical section. `thread` holds the place of the two threads that
execute commands: `main`, on which Tauri runs synchronous commands one at a
time, and `startup`, which calls `start_harness` once. A command keeps the
slot mutex (`lock`) from its beginning to its end, so a command that waits
for the mutex has not begun. `monitor[g]` is the thread that successful start
`g` left behind; its places are the points of `monitor_harness` between which
it holds no mutex: it saw the process gone (`exited`), decided what that means
(`dropStopped`, `detached`, `drop`), emptied the slot, wrote the status,
slept, launched (`spawning`), filled the slot.

| action | code (`lib.rs`) |
|---|---|
| `StartTracked`, `StartWaiting`, `AdoptRegistered`, `AdoptExternal`, `StartAttempt`, `StartReady`, `StartRecover`, `StartFail`, `StartupReport` | `start_harness`, `registered_service`, `discover_external_harness`, the startup thread |
| `StopEnter`, `StopFinish` | `stop_harness_inner`, `stop_child` |
| `EnsureHarness`, `SupervisorRetry`, `StopHarness`, `SupervisorRestart`, `ExitRequested` | the commands and `RunEvent::ExitRequested` |
| `MonitorLeave` ... `RespawnFail` | `monitor_harness` |
| `ProcessExit`, `ExternalStart`, `DesktopCrash`, `Exit`, `Launch` | the environment |

Abstractions: a health probe is a choice (a live process may fail it);
the back-off sleep is the time between two steps; process ids are not
reused; the generation counter, the URL and the messages of the status,
which are only displayed, are left out; commands that only read the status
are left out. The update and rollback commands are, for this module, a stop
followed by starts. `tries` in a monitor counts its launches in a row and is
a history variable, like `inherited` and `overlap`. External code: Tauri
runs synchronous commands on the main thread, and `app.exit(0)` ends the
process.

### RuntimePair and RuntimePointers

`RuntimePair` is the promise: current and previous are one value, which a
change that is under way, or the desktop's recovery, replaces in one step.
`RuntimePointers` has the files. A tool is a process at a place in `main` of
`runtime-cli.ts` and the functions it calls: fetch (download, verify, smoke
test), settle (move into `versions/`), then the pointer transaction - recover
what is recorded, read, record, write previous, write current, remove the
journal - and, for a rollback, a smoke test of the result and a second
transaction if it fails. `Fault` fails the step a tool is at, as the code's
`catch` blocks would take it; `Crash` ends a tool and leaves every file,
`update.lock` included. `Stage` and `Replace` are the desktop's recovery,
which reads, and then writes `current.json`.

Abstractions: the manifest and archive checks are one step that may fail; a
file is replaced by a rename, in one step (on Windows the code removes the
old file first, which is not modelled); `runtime-update.json` is only ever
written and is represented by the failures its writes can cause; a tool that
finds the lock ends without changing anything; the embedded Runtime is
always there, and is copied in one step like the rest, although
`recover_embedded_runtime` writes it in place and a crash there would leave a
torn file. The desktop seeds the files before anything else, so `current`
always has a value. A tool and the recovery of the desktop can meet because
a tool outlives its desktop, or because the startup thread starts a Harness
while a command runs the tool; the history variable `overlap` records it.

Facts the module shows about the code that no property states: a promote of
the Runtime that is already current makes `previous` equal to `current`; a
rollback whose undo fails as well leaves the unhealthy Runtime current.

### RelayServer

The map from ids to channel objects (`table`), and per connection the socket,
the object it was given at its upgrade, the role of its hello, whether it has
authenticated and whether its cleanup has run. An object is named by the
connection that created it, and lives on when it has left the map and a
connection still holds it. Every handler runs in one turn of the event loop
and is one action: `Connect` (upgrade), `Hello`, `Authenticate`, `BadFrame`
(anything refused after the upgrade, the rate limit included),
`HandshakeTimeout`, `Close`, `Sweep`, `Stop`; `GrowOld` lets a channel pass
its maximum age or idle time. A socket that was told to close is `closing`:
frames that were under way still arrive, until the close event.

Left out: token, host and origin checks, which precede every step; the
content of forwarded frames (the relay is blind).

`MCRelayServer` adds the symmetry of connections and ids, which is used for
the safety runs only.

### EventStore, EventStream and EventFeed

`EventStore` is the log of the control plane. `Publish` is `append` up to the
point where it queues the writing; `WriteLine`, `WriteGeneration` and
`Compact` are the three file operations of one link of the promise chain;
`WriteFails` rejects the chain, which stops every later link. `ProcessEnds`
is a crash, a kill, or - when everything happens to be written - an orderly
end, whose `server.disconnected` is an event like any other. `Start` is
`ControlPlaneServer.start`: load, compaction, hydration of stale jobs,
`server.connected`. `JobStep` is what the plugin publishes when the Harness
begins or ends a job; the other events say nothing of jobs (`PublishOther`).
The filters of the code compare the number of each event with a limit; as the
numbers increase, `UpTo` and `Beyond` cut the sequence where that comparison
changes (`CountUpTo`).

`EventStream` adds a client and the page that uses it. `relayed` says which
of the two clients it is, for a whole behaviour.

| action | code |
|---|---|
| `Connect`, `Snapshot`, `ConnectFails`, `Reload` | `connectClient`, `loadCursor` (`main.tsx`, `stream-sync.ts`) |
| `OnSnapshot`, `OnEvent`, `Deliver` | `reduceSync`, `onEvent`, `saveCursor` |
| `Dial`, `Published` | `sse` (`remote-daemon`) |
| `ReadReset`, `ResetPage`, `ReadEvent`, `ReadGap`, `CatchUp`, `Redial` | `streamEvents` of `RemoteControlClient` |
| `Poll` | `streamEvents` of `RelayControlClient` |
| `ServerEnds`, `Drop` | the end of the server or of a connection |

`EventFeed` is what all of this is for, without server, log, connection or
client: a page begins at a place, is given events that are new to it and in
order, its place is that of the last of them, and when they do not follow on
its place it is told that some are missing. `EventStream` implements it
(`FeedIsKept`): `start` is the snapshot or the saved cursor (`base`), `place`
the cursor of the page, `given` what was `delivered`, and `told` that the page
has shown a gap or a reset. The promise ends (`excused`) in the two cases
below. From the feed alone it follows that a page which was told nothing has
exactly the events between its start and its place, each once (`EachOnce`).

Abstractions: `sse` subscribes, pages and starts streaming without an await,
so its buffer is always empty; a request is answered in one step, or fails;
lengths in events stand for lengths in bytes; the load, the hydration and
the listening of a start are one step, which does not fail unless the log is
unreadable; the log has no torn lines (a torn last line makes `load` throw and
the server not start); the device may see every workspace; the page connects
again only after a failure or a reload; a stream that the client gave up is
closed on the server as well.

Two kinds of history are excluded from the properties of the stream, because
the code does not keep its promise there. `lost`: the process ended with
events that had been published and not written, and the next server of the
same generation gives their numbers to others. `mixed`: the page after a
reset came from a server of yet another generation. A fact no property
states: the relay client ignores `resetRequired`, and after a change of
generation hears nothing until the numbers pass its cursor.

### DeviceRegistry

The registry of the daemon and one client. A device is a record in memory and
one in the file; the two tokens of a device are one number, since they are
always issued together. `saving[c]` is the handler of a request that waits for
its save: `mkdir`, where the state is not yet serialised, and `file`, where
`snap` is on its way to the disk; saves are not ordered. `CreateOffer`,
`OfferExpires`, `AppPairs`, `OtherPairs`, `OtherRefreshes`, `ServeRefresh`,
`AdminRotates`, `Revoke` change the memory; `WriteDevices`, `RenameDevices`,
`SaveFails` are `save`; `DaemonRestarts` is `load`. The client's requests
(`SendRequest`, `ServeRequest`, `RefuseRefresh`, `LoseAnswer`) refresh after a
401 once, and join a refresh under way.

`exposed` records the revocations made while an older file was being written:
that file may be renamed last, and after a restart the device is back. A
fact no property states: `rotateDevice` gives the new tokens to the
administrator, so that the device is locked out. Left out: scopes, workspaces
and rate limits; the end of the time in which a device may refresh
(`refreshExpiresAt`); saves within one millisecond share a temporary file. The
client is `RemoteControlClient`; `RelayControlClient` clears its credentials on
any error of a refresh and is not modelled in this.

### RelayTunnel and PeerRouter

`RelayTunnel` has the client of the relay (`connecting`, `open`, `ready`,
`closed`, its reconnect timer and its requests), the desktop's tunnel with the
ids it has seen, and between them a relay that keeps every frame it has seen
and may lose one or hand it over again and again. `HandleFrame` is the check of
the time and the id of a request up to the call of the daemon, `RefuseFrame`
closes the socket of a request that is late, seen or too many, `AnswerFrame`
and `FetchFails` the end of that call. A request has the time it was created,
any tick before it is sent. `Tick` is the clock of the desktop; `ClientClockAhead` sets the client's
clock ahead by a window. In that case an id is forgotten while its request is
still valid, so `HandledOnce` speaks of clocks that agree. `CallSettles` leaves
out a request that `close()` leaves waiting on a socket that is open and not
yet authenticated, for nothing breaks its promise.

`PeerRouter` is the WebSocket endpoint of the daemon with its limit, its first
message (`Handshake`), its three ways to be refused (`HandshakeTimeout`,
`BadHandshake`, `BadFrame`), errors and closes, and the router (`Seal`,
`Frame`) and replay guard behind it. A socket that is told to close goes on delivering
messages until its close event, so `Talking` sockets are those counted. The
router cannot tell genuine frames; the receiving end can. The daemon
authorises at the upgrade only: a revocation closes no socket.

### PromptAdmission

`AskPrompt` is a handler of `prompt_admission`, which joins the admission in
flight for its id or begins one; `SessionReady`, `HarnessTakes` and `Admit` are
its steps in the adapter and the daemon, `RefusePrompt` an error. The event of
the admission is in `accepted` at once and on the disk after `WriteAccepted`.
`DaemonCrashes` forgets the memory and rebuilds `admitted` from the oldest
`ListLimit` events on the disk; a prompt that was taken and is not among them
is `forgotten`, and may be taken again. The session and its job of a prompt are
not part of the model: the job `prompt-<id>` that `admitPrompt` sets to running
is never removed by the adapter.

### HarnessRestarts

`superviseHarness` of the headless daemon. `loop` is the place of the loop:
it spawns, polls the page (`poll`, and `probe` while a fetch is under way),
waits for the exit (`running`), stops the tree, sleeps. An exit is an event;
`exitSeen` says that it reached a listener. `Signal` sets the flag and starts
a `stopTree` of its own. Two facts no property states: an exit that falls into
a probe of readiness reaches nobody, and the daemon may then wait for an exit
that has been, run out of work and end silently (`NothingLeft`); an error of
the spawn has no listener and ends the process (`SpawnError`).

### ParserWorker

One call of `runParserWorker`: checks, the directory, the worker, and then four
events - the pipes close after the exit, the timer, the caller's cancellation,
too much output - of which the first settles the promise; `Terminate` sends
SIGTERM, `GraceOver` SIGKILL, `LastKill` is the `finally`. A signal or a code other than 0 is a crash whatever
was written, so a refusal of the worker (code 1) arrives as "crashed". Facts no
property states: a request that cannot be prepared leaves its directory
(`PrepareFails`); `stdin` of the worker has no listener for errors.

### HarnessBridge

The adapter between the Harness and the control plane. `asked` and `jobs` are
what the Harness has; `frames` is what is on its way to the pump
(`HandleFrameOfMux`); a broken stream loses what is sent until the next
`Subscribe` (`missed`). A reply of a device is authorised (`ReplySent`,
`ReplyAuthorized`), the Harness decides it and sends the frame of the answer
(`HarnessDecides`), and `ReplyAnswered` removes what it shows, before or after
the pump has handled that frame; the user may answer on the desktop (`AnsweredLocally`). Projections are
written one after the other (`WriteProjection`); `NewHarness` is a new process
with the jobs of the projection. `ServerStarts` and `DisposePlugin` race.
Questions are handled like approvals and left out, as are the order of two
notifications of the daemon and the jobs `prompt-<id>` that `admitPrompt` puts
into the same map (see `PromptAdmission`). Facts no property states: a job that was hydrated
as running never leaves; a projection that cannot be written is given up
silently.

### McpServers

The state file, the patch file, the entries of the Loader and the requests of
the route, each at a place between two awaits. The files know a server by its
id (`With`, `Changed`: upsert, toggle, remove and import replace or take out
records of an id), the Loader by its name, and nothing keeps two ids from
having one name. A request reads the records (`ChangeRecords`, or
`LoadRecords` for an import that is not confirmed), saves file and patch
(`SaveRecords`, `SavePatch`) and reconciles: `PassEntry`, `DropEntry` with
`ForgetEntry`, `AdoptEntry` with `UpdateEntry` for the entries there were at
the start, in their order; then `CreateEntry` with `EntryCreated` for the
records of names that were not met. `CallThrows` ends a request at any of
these places: an unknown id, a write that fails, a credential that is missing,
a refusal of the Loader. `OwnServers` are entries the user made in the Harness
himself. `LoaderRestarts` is a boot from the patch, which reconciles with the
file (`apply`). A record is an id, a name, on or off; validation, secrets and
rendering are data; the order of the records in the file is left open; a
Harness without a Loader is not modelled, for it has nothing to reconcile.

`LoaderFollowsFile` speaks of a reconciliation with the whole file that ran
alone to its end, and claims of a name with several records no more than the
code gives. Facts no property states: a first reconciliation makes one managed
entry for every record, so two ids with one name leave two, although the
comment at `index.ts:489` calls that no valid composition, and later
reconciliations that meet them remove one again; a reconciliation that throws
half way leaves file, patch and Loader apart until the next one; overlapping
requests lose each other's updates; a restart of a server the Loader does not
have reconciles with its record alone, and removes every other managed entry;
an entry of the user with a managed name is adopted, although the comment at
`index.ts:489-491` wants user-owned entries untouched, and exists twice after
the next boot.

### ContentStore

One content and both stores. A file is absent, torn while it is written, or
whole; a writer goes on writing the file it has opened when that is renamed or
removed. A document is written under a temporary name and renamed. An artifact
is looked for (`LookForObject`) and, an await later, written in place
(`WriteObject`), so several requests may find nothing and write it, one after
another or at once, and one may truncate an object that is listed already:
until it has written it, what is listed cannot be read, and `ListedIsReadable`
speaks of the time when nobody has the object open. `WriteFails` ends any step
with an error; a document's temporary file is then removed unless it was its
own writing that failed (`AfterFailure`). `HostCrashes` cuts every writer off.
`broken` marks the stores whose object itself was cut off: an artifact, being
there, is never written again; a document is only exposed to a second request
that shares its temporary file. Left out: `documents.ts`, reading, exporting.

### RemoteSetup and RemoteConfigure

`RemoteSetup` is the setup command: `stage` is the place of `main`, `stack` the
children (the tunnel, its second attempt, relay, Harness), `handlers` whether
the signal handlers of `main` are in place. `RemoteConfigure` is the one-click
setup of the plugin, several requests at a time around the one variable
`setupProcess`. Facts no property states: a fatal line of `cloudflared` ends
the command without the second attempt; a setup that fails leaves its children
running; an exit of the Harness during the self-test is an unhandled
rejection and ends the command; in the plugin, a setup that runs out of its
35 seconds leaves its tunnel running (it can be stopped), and a new offer
replaces the one pending.

### UsageLedger

The record of token usage. The pump of `startUsageRecorder` reads the mux
stream (`Resubscribe`, `FeedEnds`, `FeedFails`, `RetryFeed`), which begins
wherever the Harness lets it begin; `Deliver` is `recordUsage` up to the append,
whose end nobody awaits (`AppendLine`, `AppendLineFails`, in any order).
`ReadLedger` and `Hydrate` read the signatures back while the pump runs.
`UsageTotal` is the sum of `usageRoute` over all time; its ranges of a day, a
week and a month, and its buckets, are not modelled. Records are named by their
place in the history `made`, a signature by the record it was taken from;
`failed` is a history of the appends this process has seen fail.

`DeliveredIsWritten` says what "counted" can mean here: the figures of a
delivered message are in the file, under way to it, or in an append whose
failure was logged. An append that a restart cuts off is in neither, and no
longer the business of the new stream. A failed append keeps its signature, so
a repetition within the window is swallowed although the file has neither.
`RecountIsLate` says when the guard of `recordUsage` works at all: the map knew
of the first record (`KnownTo`), and no other message of the session was
recorded in between. Outside that a message is counted again, and a fact no
property states is that this must happen after an error of the stream: the
window is 1.5 s (`index.ts:628-629`) and the retry waits 2 s.

### MCHost and MCLive

`MCHost` is one run for the twelve parts just described from `DeviceRegistry`
on, which share no state. `part` is picked at the start and only that part
moves, so the state space is the sum of the parts and not their product. Every
invariant holds of every state because the parts that do not run are in their
initial state. Composition of parts that do interact is in the modules
themselves: the daemon and the client in `DeviceRegistry`, both ends and the
relay in `RelayTunnel`, plugin, Harness and devices in `HarnessBridge`, the
files and the Loader in `McpServers`.

`MCLive` does the same for liveness, for the four parts of which something must
happen in the end: `RelayServer`, `RelayTunnel`, `HarnessRestarts` and
`ParserWorker`. `LiveFairness` repeats the fairness of these modules for the
part that runs.

## 4. Runs

| run | checks | bounds, and why they are enough |
|---|---|---|
| `Supervisor` | `TrackedIsWatched`, `RestartBudget`, `SoleMonitorOwnsAll`, `ExternalIsNeverKilled` | one launch of the desktop, two successful starts, three processes, one external Harness, restart limit 1: a stop or a second start overlaps with every place of a monitor, two monitors meet on one run, a monitor exceeds the limit |
| `SupervisorLive` | `CrashIsNoticed` | two launches, so that a Harness is inherited from a desktop that died; restart limit 2 |
| `SupervisorRetry` | `FailedCanBeRetried` is **violated** | see the findings |
| `SupervisorExit` | `ExitStopsHarness` is **violated** | see the findings |
| `RelayServer` | `TypeOK`, `RoleExclusive`, `PeerIsReached`, `LivePeersKeepTheirChannel` | three connections, two ids and room for one channel: a pair and a third that comes too many, or in a later life of the id |
| `Live` | `HandshakeEnds`, `ChannelsEnd`; `CallSettles`; `SignalEndsAll`; `RequestSettles` | two connections, two ids and room for one channel, no symmetry; tunnel, restarts and parser as in `Host` |
| `RelayTwoPeers` | `TwoPeersPerChannel` is **violated** | four connections, one id |
| `RuntimePointers` | `PointersAreInstalled`, `KnownGoodIsNamed`, `SuccessIsActive`, `PointersAreAtomic` | two tools, three Runtimes, two failures and a crash: a failure while a failed transaction is being put back, a crash and a second tool, a rollback that is taken back |
| `RuntimePointersLive` | `InterruptedIsRecovered` is **violated** | one tool, one crash |
| `EventStream` | `NoHoles`, `WrittenIsKept`, `NoSilentLoss`, `SavedIsShown`, `FeedIsKept` (refinement of `EventFeed`) | two events in memory and in the log, pages of one, four events and those of the second start, one failure, one broken stream: events are dropped before a client reads them, a page is shorter than what is missing, a reset and a gap overlap with live events |
| `StaleJobs` | `NoJobStaysRunning` is **violated** | three events in memory, lists of two, one job; with lists as long as the memory the property holds |
| `Host` | `HostTypeOK`; `RevocationSurvives`, `ClientKeepsKey`; `HandledOnce`; `RouterMatchesSockets`, `WindowIsGenuine`; `OneHarness`; `NothingLeftBehind`; `PromptOnce`; `BridgeFollowsHarness`; `LoaderFollowsFile`; `ListedIsReadable`; `StopReachesAll`; `TunnelIsKnown`; `RecountIsLate`, `DeliveredIsWritten`, `TotalCoversReports` | see below |

The type invariants of `Supervisor`, `RuntimePointers` and `EventStream` are
theorems, for all values of the constants, and not part of the runs.

The bounds of `Host`, by part:

* devices: two requests of the client (one refreshes, one joins or comes too
  late), three pairs of tokens (a pairing and two rotations), one offer; an
  administrator and another device besides, so that three saves overlap;
* tunnel: two requests, room for one id and a window of one tick with two ticks
  of the clock: an id is forgotten at the limit and by age while the relay
  repeats a frame;
* router: three sockets, room for two, one session and two genuine frames per
  direction: a third that is refused, two of one role, a repeated and a late
  frame;
* restarts: two restarts, so that the limit is reached from a success and from
  a failure; the parser and the setup command have no bounds;
* prompts: two handlers and two ids, a list of one event, two crashes: one
  prompt is forgotten and the other is not;
* adapter: one approval, one job, two devices that reply, one restart;
* MCP: two names, one of which the user has entered himself, and two ids, of
  which one may have either name (`MCServer`): the names agree or differ; two
  requests that overlap, three in all with restarts: an overlap or a failure and
  a request that puts it right, two records of one name and a request that
  takes one out;
* content: two requests in either store: both look before either writes, and the
  second writes when the first has listed; setups: two;
* usage: one session, two messages with figures up to 2, three records, one
  restart and one tick, which is as long as the window and the retry: a message
  counted twice, with and without another in between, one not recognised after
  a restart, one of a zero usage.

Where the system may stop - the bounds on starts, processes, connections or
crashes are used up and everything has ended - the configurations turn the
deadlock check off. The bounds are constants named in the modules
(`MaxStart`, `MaxProc`, `MaxOutside`, `MaxLaunch`, `MaxFaults`, `MaxCrashes`,
`MaxSequence`, `MaxProcesses`, `MaxDrops`, and the sets `Conns` and `Tools`;
`MaxEvents`, `MaxLog` and `PageLimit` are limits of the code; in `Host`
`TokenBound`, `OfferBound`, `ClockBound`, `FrameBound`, `CrashBound`,
`RestartBound`, `McpBound`, `TickBound`, `ReportBound`, `RecordBound`,
`RunBound` and the sets are bounds, while `ReplayWindow`, `SeenLimit`,
`SocketLimit`, `MaxRestarts`, `ListLimit`, `DedupWindow` and `RetryDelay` are
limits of the code).

`SoleMonitorOwnsAll` and some of the pointer properties exclude histories in
which a start, or a recovery, overlapped with an active monitor or tool
(`overlap`): there the code does lose track, as the hazards say.

**Fairness.** `Supervisor`: the operating system schedules every thread, and
every wait in the code has a timeout, so command threads and monitors get on;
nothing is assumed of users, of processes or of the desktop's end.
`RelayServer`: clocks go on (age, handshake timer, sweep interval), and the
socket library closes a socket that was told to close within its own timeout;
nothing is assumed of peers. `RuntimePointers`: a tool gets on, and the user
goes on asking - the run is a violation, so the assumption makes it stronger.
`RelayTunnel`: a socket of the client opens or fails, the relay closes it if it
does not authenticate in time, the event loop sends what is ready, and the
timer of a request fires; nothing is assumed of the desktop, of frames or of
reconnections.
`HarnessRestarts`: the loop gets on, SIGKILL ends a process, and a
deadline or an exit that is there again and again between probes is noticed
(strong fairness: a probe under way takes the loop away from it and gives it
back); nothing is assumed of the Harness. `ParserWorker`: the caller's own steps
and timers; nothing is assumed of the worker.

## 5. Findings

* **A Harness that was adopted and then ended cannot be retried**
  (`SupervisorRetry`). The unmanaged monitor sets `failed` and leaves the dead
  run in the slot; Retry finds it there. The comment at `lib.rs:1327-1329` says
  the normal Retry path applies.
* **A quit may leave a Harness running** (`SupervisorExit`). A stop marks the
  run in the slot; while a monitor respawns there is none.
* **Three authenticated peers of one channel id** (`RelayTwoPeers`). The end of
  a connection that never said hello deletes the channel under another one.
* **A tool that dies in a transaction blocks every later one**
  (`RuntimePointersLive`). `update.lock` outlives its tool, and the recovery of
  the journal lies behind it.
* **A job of a dead process stays "running"** (`StaleJobs`). The start looks for
  stale jobs in `events.list()`, which returns the oldest 500 of up to 10,000
  events. For the same reason a job that ended after the 500th event is
  reported as interrupted, and a prompt admitted after it is forgotten.

## 6. Proofs

The theorems hold for every value of the constants under the assumptions the
modules name. `BoundsAssumption`, `RelayAssumption`, `PointersAssumption`,
`StoreAssumption`, `StreamAssumption`, `TunnelAssumption`, `RouterAssumption`,
`AdmissionAssumption`, `RestartsAssumption`, `BridgeAssumption`,
`UsageAssumption` and `DeviceAssumption` say that numbers are natural numbers,
that what is kept in memory and listed is at least one event, that the window
of the ledger is not empty, that the sets
that are counted are finite, and that the other device is none of the client's
requests; `SessionsAssumption`, `SetupsAssumption` that the value for "none" is
no session and no setup; `McpAssumption` that the names and records of servers
are finitely many, and that a record has a name and is on or off.

**`SupervisorProofs`**. `TypeCorrect` and `RestartsBounded` follow from
`Typed`: types alone do not bound `restarts`, because a monitor adds one at
several places; `MonitorOK` says at which places the count may exceed the
limit and that launches in a row are paid for by counted exits or failures.
`ExternalSurvives` needs `Ownership`: everything the desktop may kill - the
registered process, the one in the hands of a thread, the tracked run if it
counts as launched or managed - is not the user's, which in turn needs
`Numbered` (every process that is named has been launched, so a new number is
in nobody's hands). `AlwaysWatched` is inductive together with `Typed` and
`Numbered`: a monitor leaves `watch` only when it sees the slot empty or its
process gone, and both make the invariant's premise false until someone fills
the slot, who brings a monitor along. `NoOrphanWithoutOverlap` adds `Command`
(what a command thread holds at each of its places) and `Sole`: until a start
goes ahead beside an active monitor, one monitor at most is active, none while a
start is under way, and a live Harness of the desktop's own is in the slot or
in some thread's hands; there is none while a monitor mourns the last one.

**`RelayServerProofs`**. `Inv` adds to the types `Placed` (what an accepted,
closed or authenticated connection has), `RolesHeld` (a role is in use from
the hello to the cleanup, and its holder is unique) and `PeersKept` (a peer
stays in its object until its own cleanup). `RolesExclusive`, `PeersReached` and
`PeersKeepTheirChannel` follow from it; the limit on the map is a counting
argument (`FewerUsed`, `OneMoreUsed`).

**`RuntimePointersProofs`**. `Inv` says who is in a transaction: one tool at
most (`Alone`), when the journal is there and that it records the pair this tool
read (`Journal`), that a rollback has somewhere to go (`Targets`), what the
steps done so far have written, unless the desktop interfered (`WrittenByAll`,
`Steady`), and that every Runtime that is or may become named is installed
(`Installed`). From it
follow `PointersInstalled`, `KnownGoodNamed`, `SuccessActive`, and `Refinement`:
under the view "the recorded pair if there is one, else the files" every step
is a step of `RuntimePair` or a stutter. The one visible step of a promotion
is the removal of the journal.

**`EventLogProofs`**. `LogHasNoHoles` and `CompactionKeepsWritten` follow from
`StoreInv`. Its core is that every sequence of the store ends at a known number
and has consecutive ones: memory and the chain of writes end at `sequence`, the
log just before what is still to be written, or with the first of that once
its line is written (`MemoryNumbered`, `LogNumbered`; `EndsAt`, `Consecutive`).
A cut by a number is then an interval (`BeyondFacts`, `PageFacts`), and a
compaction, whatever was published during it, meets the lines that follow.
`LossIsShown` is `Covers`, inductive with `StoreInv` and the types of the
client: the page has every number between its base and its cursor or has told of
a gap. It rests on what folding `OnEvent` over any sequence of events does
(`FoldSteps`, `DeliverFacts`).

`DeliveredOnceInOrder` (of `DeliveredInOrder`, which no run checks by itself,
since the refinement of `EventFeed` says as much), `SavedCursorIsShown` and
`StreamKeepsFeed` have the largest argument of the project. Their inductive
invariant `OrderInv` has four parts besides the types and `StoreInv`.
`StampInv`: whatever is in memory, in the log or waits to be written is of one
generation (`Gen`, while the daemon is down the one its next start will have),
and memory goes back as far as the log unless it is full (`OneGeneration`,
`MemoryReaches`); so the last number and the first one in memory only grow, or
a later generation comes (`Advances`), as long as no process ended with events
it had not written (`lost`). `PlacesFit`: what can be on the wire where the
client is; a `reset` only comes first. And while nothing was `lost` and no
page after a reset came from yet another generation (`mixed`), `NothingTwice`:
whatever the page has got of the server's generation lies behind the client's
cursor or behind the server's memory (`CursorKnows`), every event on the wire
is new to the page or passed by the cursor (`EventFits`), the wire is in order
(`FramesInOrder`), and an open stream is of the server's generation
(`OpenFollows`). "Or behind the server's memory" is what a plain "behind the
cursor" misses: after a reset the cursor starts at nought while the page keeps
what it had, and only the memory's floor keeps the page that is read then from
repeating it. TLC checked `OrderInv` on the instance of the run `EventStream`
before it was proved.

`StreamKeepsFeed` is the refinement. The proof that a step keeps `OrderInv`
yields, for each of the four ways in which events come (a live event, a reset
page, a catch-up, a poll), that they are in order and new to all the page has
and has passed (`DeliversNew`). What folding `OnEvent` over such events does
to the page - its cursor goes through their places, and it is told exactly
when one of them does not follow on (`FoldPlaces`, `FoldTells`) - makes that a
`Give`, or a stutter when there are none (`DeliverGives`); a snapshot or a
reload is a `Begin`, and every other step a stutter (`FeedNext`).
`EachEventOnce` is then proved of `EventFeed`'s own steps (`FeedGivesOnce`)
and holds of the stream by the refinement.

**`DaemonProofs`**. `RevocationsSurvive`: the invariant follows a revocation
from memory to the disk. One whose save is awaited is in memory
(`RevocationsPending`); every file about to be renamed knows of every
revocation that is not `exposed` (`SnapsKnow`); and a revoked device has a
token, in memory, on the disk and in every file being written
(`AllPairedFirst`), so that a pairing never takes a revocation back. A restart
needs no case of its own: what it reads is on the disk. `ClientKeepsItsKey` is
`KeyInv`: unless something has excused the client (a revocation, a rotation by
the administrator, a lost answer, a failed save, a restart), its device is not
revoked, one request refreshes at a time, with the token it holds, and
whenever no handler is at work for it, it holds what the registry expects
(`OneRefresh`, `KeyFollows`). `PromptTakenOnce` follows from `TakenIsKnown`: a
prompt that was taken, and not forgotten, is admitted or about to be, and one
whose admission has not come to the Harness has not been taken.

**`RelayPathProofs`**. `RouterFollowsSockets` needs the cardinality lemmas for a
socket that comes or goes (`CountFollows`) and that a handshake for a role that
is taken is refused (`PeersFollow`); `WindowStaysGenuine` that the window is the
greatest of a finite set of numbers a frame can only raise.
`RequestsHandledOnce`, for any window, any limit on the ids and any reordering,
loss and repetition, with clocks that agree: a request is put on the wire once
(`SentOnce`), and one that was handled is remembered from its creation on, or
has had its time (`SeenKept`) - an id is only forgotten by age or for the oldest
of too many, and a request that finds too many is refused.

**`ChildProcessProofs`**. `OneHarnessOnly`, for any limit
of restarts: the loop is where it spawns only when the last Harness is gone
(`LastIsGone`), and only `Backoff` counts (`Counted`). `NothingIsLeftBehind`
relates the place of a parser request to its worker and its directory.
`StopReachesEveryChild` needs that a first tunnel was
told to stop before there was a second one (`TunnelAtStage`); `TunnelsAreKnown`
holds for any number of setups and is inductive with the types: a setup that
takes the variable records the one it took it from.

**`HostProofs`** has the parts of the desktop, and their composition.

* `RecountsAreLate`, `DeliveredAreWritten`: a record is of a message and was
  made earlier (`MadeOf`); the signature of a session is always a record that is
  accounted for, and when the map has to know of the last record of a session
  (`KnownNow`) it is that one (`Signed`). So a delivery that is taken for a
  repetition is one of a record in the file, under way or failed, and one that
  is not makes such a record.
* `TotalsCoverReports`: a record is written once (`WrittenOnce`), so a file of
  as many lines as there are records has all of them (`AllWritten`); each
  message has one of its own there; and numbers found, each at its own place,
  among others have no greater sum (`SumCovers`, over the folds of the model).
* `ListedContentIsReadable`: an object precedes its manifest and stays
  (`ObjectComesFirst`), a request that writes in place holds the object open
  (`OpenFits`), and what is torn is being written by someone, or its store is
  `broken` (`TornIsWritten`): so it is whole when nobody writes, however many
  requests found nothing and wrote it over each other.
* `DevicesSeeTheHarness`: what the adapter shows, once the frames on their way
  are handled, is what the Harness waits for and runs (`AsksFollow`,
  `JobsFollow`, `RunningInLast`), and a job that has not begun is known to no
  frame and no file (`NewJobsUnknown`).
* `LoaderIsAsTheFile`, for any finite sets of records and names, any number of
  requests and an entry list of any length: nothing runs beside a request that
  runs alone (`LoneIsAlone`, `SettledIsIdle`). What its reconciliation has
  brought into line is as a record of its name says (`AsRecorded`), has an entry
  of every name it has met and of every record it has made one of, and two of a
  name only where it made both, for two records (`Reconciling`); what is behind
  it and not in line is not managed. A restart of a server reconciles with one
  record and is left out of the claim.
* `HostIsItsParts`: a behaviour of `MCHost` is, but for fairness, a behaviour
  of each of its parts, so that every theorem above about a part holds in the
  composition; `HostTypeCorrect`, the type invariant of all twelve, from
  `HostInv`, the invariants of the parts taken together.

The library's theorems of induction cannot be used (they are about an operator
as a parameter). Where an argument is one over the length of a sequence, as
for the folds of the event stream and the least and greatest places of the
Loader and the ledger, it is made with the least element of a set of numbers
(`WFMin`).

**Only model-checked**: what holds under fairness (`CrashIsNoticed`,
`HandshakeEnds`, `ChannelsEnd`, `CallSettles`, `SignalEndsAll`,
`RequestSettles`): liveness and `ENABLED` are out of the prover's reach. Every
other property of a passing run is a theorem.

## 7. Not modelled

The components with status `not_modelled` in `PROJECT.json`, each with its
reason: pure transformations, presentation, and build tooling. Of the modelled
parts: displayed fields, cryptography and verification (steps that succeed or
fail), time (a step that may happen), and Windows' replacement of files.
Further:

* the update and rollback commands of the desktop, as a composition: the
  product of `Supervisor` and `RuntimePointers` is beyond the size of a run,
  and each half allows the other's steps at any moment already;
* the read-modify-write of `resources.json`, whose overlapping requests lose
  updates as those of the MCP file do;
* in the daemon, the filter of a stream by workspace, slow subscribers, and the
  two streams of one device; in the PWA, the pairing that races with its
  fallback and the cache of the page;
* `installCoreUpdateSafely` and the slots of the client extension.
