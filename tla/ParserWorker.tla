---------------------------- MODULE ParserWorker ----------------------------
(***************************************************************************)
(* One request to the document parser: runParserWorker                     *)
(* (desktop-host/src/phase2/parser-worker-client.ts) and the child         *)
(* process it starts (parser-worker.ts).  The child may answer, crash,     *)
(* write too much, hang or ignore SIGTERM; the caller may cancel.  An exit *)
(* and the close that follows it are two events: a helper of the parser    *)
(* may hold the pipes open.                                                *)
(***************************************************************************)
VARIABLES
    step,      \* where the request is
    child,     \* the process: "none", "running", "dying", "exited", "closed"
    code,      \* its exit: "crash" for a signal or a code other than 0,
               \* else what it wrote: "ok", "rejects", "garbled"
    ending,    \* the error terminate() was called with, or "none"
    result,    \* how the promise was settled, or "none"
    requestDir \* the directory of the request

parserVars == <<step, child, code, ending, result, requestDir>>

Reasons == {"timeout", "cancelled", "oversized"}

ParserTypeOK ==
    /\ step \in {"checks", "reading", "writing", "waiting", "term", "kill",
                 "finally", "lastKill", "settled"}
    /\ child \in {"none", "running", "dying", "exited", "closed"}
    /\ code \in {"none", "ok", "rejects", "garbled", "crash"}
    /\ ending \in Reasons \union {"none"}
    /\ result \in Reasons \union {"none", "resolved", "refused", "failed",
                                  "protocol", "crashed"}
    /\ requestDir \in BOOLEAN

ParserInit ==
    /\ step = "checks" /\ child = "none" /\ code = "none"
    /\ ending = "none" /\ result = "none" /\ requestDir = FALSE

-----------------------------------------------------------------------------
(* The caller. *)

\* A manifest, a limit or a file that is not valid, or a cancelled signal.
Refuse ==
    /\ step \in {"checks", "reading"}
    /\ step' = "settled" /\ result' = "refused"
    /\ UNCHANGED <<child, code, ending, requestDir>>

ReadDocument ==
    /\ step = "checks"
    /\ step' = "reading"
    /\ UNCHANGED <<child, code, ending, result, requestDir>>

MakeDirectory ==
    /\ step = "reading"
    /\ step' = "writing" /\ requestDir' = TRUE
    /\ UNCHANGED <<child, code, ending, result>>

\* The input cannot be written or the worker not be spawned: the directory
\* stays, for nothing removes it yet.
PrepareFails ==
    /\ step = "writing"
    /\ step' = "settled" /\ result' = "refused"
    /\ UNCHANGED <<child, code, ending, requestDir>>

SpawnWorker ==
    /\ step = "writing"
    /\ step' = "waiting" /\ child' = "running"
    /\ UNCHANGED <<code, ending, result, requestDir>>

\* The request cannot be sent, or the child could not be started.
WorkerError ==
    /\ step = "waiting"
    /\ step' = "finally" /\ result' = "crashed"
    /\ child' \in {child, "closed"}
    /\ UNCHANGED <<code, ending, requestDir>>

\* The close of the child: a signal or a code other than 0 is a crash
\* whatever was written, else the answer counts.
WorkerClosed ==
    /\ step = "waiting" /\ child = "closed"
    /\ step' = "finally"
    /\ result' = CASE code = "ok" -> "resolved"
                   [] code = "rejects" -> "failed"
                   [] code = "garbled" -> "protocol"
                   [] OTHER -> "crashed"
    /\ UNCHANGED <<child, code, ending, requestDir>>

\* terminate: SIGTERM, once; from now on the events of the child are ignored.
Terminate(reason) ==
    /\ step = "waiting"
    /\ step' = "term" /\ ending' = reason
    /\ UNCHANGED <<child, code, result, requestDir>>

\* Mutant: SIGTERM is taken to be enough.
Trusting(next) == step' = next /\ UNCHANGED child

Escalate(next) == step' = next /\ child' = IF child = "running" THEN "dying"
                                           ELSE child

\* The grace is over and the child has not closed: SIGKILL.
GraceOver ==
    /\ step = "term" /\ child # "closed"
    /\ Escalate("kill")
    /\ UNCHANGED <<code, ending, result, requestDir>>

\* Mutant: only the close of the child is waited for.
CloseAwaited ==
    /\ step \in {"term", "kill"} /\ child = "closed"
    /\ step' = "finally" /\ result' = ending
    /\ UNCHANGED <<child, code, ending, requestDir>>

\* It has closed, or a second has passed since SIGKILL.
Terminated ==
    /\ step = "kill" \/ (step = "term" /\ child = "closed")
    /\ step' = "finally" /\ result' = ending
    /\ UNCHANGED <<child, code, ending, requestDir>>

RemoveDirectory == requestDir' = FALSE

\* A caller-side failure leaves no child behind.
LastKill ==
    /\ step = "finally" /\ ending = "none" /\ child = "running"
    /\ Escalate("lastKill")
    /\ UNCHANGED <<code, ending, result, requestDir>>

Settle ==
    /\ \/ step = "lastKill"
       \/ step = "finally" /\ (ending = "none" => child # "running")
    /\ step' = "settled"
    /\ RemoveDirectory
    /\ UNCHANGED <<child, code, ending, result>>

-----------------------------------------------------------------------------
(* The child. *)

\* main of parser-worker.ts ends with code 0 after an answer and with code 1
\* after a refusal, which the caller then takes for a crash; a refusal with
\* code 0 can only come from another worker command.
WorkerExits ==
    /\ child = "running"
    /\ child' = "exited"
    /\ code' \in {"ok", "rejects", "garbled", "crash"}
    /\ UNCHANGED <<step, ending, result, requestDir>>

\* SIGTERM, if it is not ignored, or SIGKILL.
WorkerKilled ==
    /\ child = "dying" \/ (child = "running" /\ step = "term")
    /\ child' = "exited" /\ code' = "crash"
    /\ UNCHANGED <<step, ending, result, requestDir>>

PipesClose ==
    /\ child = "exited"
    /\ child' = "closed"
    /\ UNCHANGED <<step, code, ending, result, requestDir>>

ParserStep ==
    \/ Refuse \/ ReadDocument \/ MakeDirectory \/ PrepareFails \/ SpawnWorker
    \/ WorkerClosed \/ Terminate("timeout") \/ GraceOver \/ Terminated
    \/ LastKill \/ Settle

ParserNext ==
    \/ ParserStep \/ WorkerError
    \/ Terminate("cancelled") \/ Terminate("oversized")
    \/ WorkerExits \/ WorkerKilled \/ PipesClose

\* The caller's own steps and its timers; nothing is asked of the child.
ParserSpec == /\ ParserInit /\ [][ParserNext]_parserVars
              /\ WF_parserVars(ParserStep)

-----------------------------------------------------------------------------
(* Properties. *)

\* A request whose document is asked for settles, whatever the child does
\* (the timers of runParserWorker).
RequestSettles ==
    (step = "reading") ~> (step = "settled" /\ result # "none")

\* A settled request leaves no child but one that SIGKILL has reached, and
\* no directory unless it failed before there was a child.
NothingLeftBehind ==
    step = "settled" =>
        /\ child # "running"
        /\ requestDir => child = "none" /\ result = "refused"
=============================================================================
