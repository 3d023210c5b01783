--------------------------- MODULE SessionProcessor ---------------------------
(* One step of the model: session/processor.ts with the tool executions of *)
(* session/tools.ts, and what a restart makes of it when the process dies  *)
(* (session.ts, reconcileInterrupted).                                     *)
(*                                                                         *)
(* Three kinds of fibers write the tool parts of the assistant message:    *)
(* the one that handles the events of the stream and then cleans up, each  *)
(* tool while it executes, and the reconciliation.  Each reads a part from *)
(* the database and saves what it makes of it in another step.  In memory, *)
(* ctx.toolcalls has an entry for a call until it is settled.              *)
(*                                                                         *)
(* Text, reasoning, snapshots and usage are left out: only the stream's    *)
(* fiber touches them.  The ids of calls are taken to differ between the   *)
(* attempts at the stream: the model provider makes them.                  *)
EXTENDS Naturals

CONSTANTS
  Tools,       \* the tool calls of the step
  NoTool,
  MaxAttempts  \* bound on the attempts at the stream

ASSUME ProcessorAssumption == NoTool \notin Tools /\ MaxAttempts \in Nat \ {0}

VARIABLES
  part,      \* part[t]: the status of the part of t in the database
  closed,    \* the message has an error or time.completed in the database
  entry,     \* entry[t]: ctx.toolcalls has t
  done,      \* done[t]: the Deferred of t is done
  main,      \* where the fiber of `process` is
  call,      \* the tool call it deals with
  keys,      \* the calls its cleanup has still to mark
  received,  \* receivedStreamEvent
  attempt,   \* the attempts at the stream, this one included
  aborted,   \* the abort signal of this attempt
  abandoned, \* the calls of the attempts given up, as far as anyone knows them
  tool,      \* tool[t]: where the execution of t is
  toolRead,  \* toolRead[t]: the status that execution has read
  escaped,   \* the calls whose part no entry leads to: progress was saved after the
             \* end, or the fiber was interrupted before it made the entry
  recovery,  \* where the reconciliation is
  rows       \* the parts it has found and not yet marked

streamVars == <<received, attempt, aborted, abandoned>>
mainVars == <<main, call, keys, streamVars>>
memoryVars == <<entry, done>>
toolVars == <<tool, toolRead, escaped>>
recoveryVars == <<recovery, rows>>
processorVars == <<part, closed, memoryVars, mainVars, toolVars, recoveryVars>>

Unfinished == {"pending", "running"}
Final == {"completed", "error", "aborted"}

ProcessorInit ==
  /\ part = [t \in Tools |-> "none"] /\ closed = FALSE
  /\ entry = [t \in Tools |-> FALSE] /\ done = [t \in Tools |-> FALSE]
  /\ main = "stream" /\ call = NoTool /\ keys = {}
  /\ received = FALSE /\ attempt = 1 /\ aborted = FALSE /\ abandoned = {}
  /\ tool = [t \in Tools |-> "none"] /\ toolRead = [t \in Tools |-> "none"]
  /\ escaped = {}
  /\ recovery = "none" /\ rows = {}

UpdatePart(t, status) == part' = [part EXCEPT ![t] = status]

ToolGoto(t, from, to) == tool[t] = from /\ tool' = [tool EXCEPT ![t] = to]

Settle(t) ==
  /\ entry' = [entry EXCEPT ![t] = FALSE]
  /\ done' = [done EXCEPT ![t] = done[t] \/ entry[t]]
-------------------------------------------------------------------------------
(* The events of the stream, one at a time *)

MainGoto(from, to) == main = from /\ main' = to

(* tool-input-start, or the first that is heard of the call: its part is   *)
(* saved, which publishes it, before ctx.toolcalls has an entry.           *)
EnsureToolCall(t) ==
  /\ part[t] = "none" /\ t \notin abandoned
  /\ MainGoto("stream", "creating")
  /\ UpdatePart(t, "pending")
  /\ call' = t
  /\ received' = TRUE
  /\ UNCHANGED <<closed, memoryVars, keys, attempt, aborted, abandoned, toolVars, recoveryVars>>

CallKnown ==
  /\ MainGoto("creating", "stream")
  /\ entry' = [entry EXCEPT ![call] = TRUE]
  /\ call' = NoTool
  /\ UNCHANGED <<part, closed, done, keys, streamVars, toolVars, recoveryVars>>

(* readToolCall, for an event of call t to be handled at `to`. *)
ReadFor(t, to) ==
  /\ MainGoto("stream", to)
  /\ entry[t]
  /\ call' = t
  /\ UNCHANGED <<part, closed, memoryVars, keys, streamVars, toolVars, recoveryVars>>

(* tool-call: the part runs.  The tool may execute already. *)
HandlesCall(t) == part[t] \in Unfinished /\ ReadFor(t, "calling")

(* The part is saved and the entry put back. *)
CallRuns ==
  /\ MainGoto("calling", "stream")
  /\ UpdatePart(call, "running")
  /\ entry' = [entry EXCEPT ![call] = TRUE]
  /\ call' = NoTool
  /\ UNCHANGED <<closed, done, keys, streamVars, toolVars, recoveryVars>>

(* tool-result and tool-error: only a running part is completed or failed. *)
HandlesResult(t) ==
  /\ tool[t] \in {"succeeded", "failed"}
  /\ part[t] = "running"
  /\ ReadFor(t, "finishing")

CallFinishes ==
  /\ MainGoto("finishing", "settling")
  /\ UpdatePart(call, IF tool[call] = "succeeded" THEN "completed" ELSE "error")
  /\ UNCHANGED <<closed, memoryVars, call, keys, streamVars, toolVars, recoveryVars>>

CallSettles ==
  /\ MainGoto("settling", "stream")
  /\ Settle(call)
  /\ call' = NoTool
  /\ UNCHANGED <<part, closed, keys, streamVars, toolVars, recoveryVars>>

(* Mutant of CanRetry: what has been streamed does not matter. *)
CanRetryAlways == TRUE

CanRetry == ~received

(* The stream fails in a way that another attempt may help.  Its tools are *)
(* aborted; the calls of the next attempt have other names.                *)
StreamRetries ==
  /\ MainGoto("stream", "backoff")
  /\ CanRetry /\ attempt < MaxAttempts
  /\ attempt' = attempt + 1
  /\ abandoned' = {t \in Tools : part[t] # "none" \/ tool[t] # "none"}
  /\ UNCHANGED <<part, closed, memoryVars, call, keys, received, aborted, toolVars, recoveryVars>>

BackoffEnds ==
  /\ MainGoto("backoff", "stream")
  /\ UNCHANGED <<part, closed, memoryVars, call, keys, streamVars, toolVars, recoveryVars>>

(* The stream has ended or failed, or the fiber is interrupted, between    *)
(* any two steps.  The scope of the stream aborts the tools.               *)
StreamEnds ==
  /\ \E at \in {"stream", "creating", "calling", "finishing", "settling", "backoff"} :
       MainGoto(at, "wait")
  /\ aborted' = TRUE
  /\ escaped' = IF main = "creating" THEN escaped \cup {call} ELSE escaped
  /\ call' = NoTool
  /\ UNCHANGED <<part, closed, memoryVars, keys, received, attempt, abandoned, tool, toolRead, recoveryVars>>
-------------------------------------------------------------------------------
(* cleanup, which cannot be interrupted *)

(* Mutant of GraceOver: no timeout. *)
WaitsForAll == \A t \in Tools : entry[t] => done[t]

(* Each open call is given 250 ms. *)
GraceOver == TRUE

CleanupWaits ==
  /\ MainGoto("wait", "sweep")
  /\ GraceOver
  /\ keys' = {t \in Tools : entry[t]}
  /\ UNCHANGED <<part, closed, memoryVars, call, streamVars, toolVars, recoveryVars>>

SweepReads(t) ==
  /\ main = "sweep" /\ t \in keys
  /\ keys' = keys \ {t}
  /\ IF entry[t] THEN main' = "mark" /\ call' = t
                 ELSE UNCHANGED <<main, call>>
  /\ UNCHANGED <<part, closed, memoryVars, streamVars, toolVars, recoveryVars>>

(* Whatever the status was: "Tool execution aborted". *)
SweepMarks ==
  /\ MainGoto("mark", "sweep")
  /\ UpdatePart(call, "aborted")
  /\ call' = NoTool
  /\ UNCHANGED <<closed, memoryVars, keys, streamVars, toolVars, recoveryVars>>

(* Mutant of CleanupEnds: the message is completed first. *)
CleanupEndsEarly ==
  /\ main = "sweep" /\ main' = IF keys = {} THEN "ended" ELSE "sweep"
  /\ closed' = TRUE
  /\ entry' = IF keys = {} THEN [t \in Tools |-> FALSE] ELSE entry
  /\ UNCHANGED <<part, done, call, keys, streamVars, toolVars, recoveryVars>>

CleanupEnds ==
  /\ MainGoto("sweep", "ended") /\ keys = {}
  /\ entry' = [t \in Tools |-> FALSE]
  /\ closed' = TRUE
  /\ UNCHANGED <<part, done, call, keys, streamVars, toolVars, recoveryVars>>
-------------------------------------------------------------------------------
(* A tool executes, reports progress, and ends. *)

Alive == main # "dead"

Aborted(t) == aborted \/ t \in abandoned

(* The AI SDK executes a call when it arrives, which may be before the     *)
(* stream's fiber hears of it.                                             *)
ToolStarts(t) ==
  /\ main \notin {"backoff", "dead"} /\ ~Aborted(t)
  /\ ToolGoto(t, "none", "executing")
  /\ UNCHANGED <<part, closed, memoryVars, mainVars, toolRead, escaped, recoveryVars>>

(* ctx.metadata, by updateToolCall: without an entry nothing is saved. *)
ProgressReads(t) ==
  /\ entry[t]
  /\ ToolGoto(t, "executing", "updating")
  /\ toolRead' = [toolRead EXCEPT ![t] = part[t]]
  /\ UNCHANGED <<part, closed, memoryVars, mainVars, escaped, recoveryVars>>

(* A part that had ended when it was read is saved as it was. *)
ProgressSaves(t) ==
  /\ ToolGoto(t, "updating", "executing")
  /\ UpdatePart(t, IF toolRead[t] \in Unfinished THEN "running" ELSE toolRead[t])
  /\ entry' = [entry EXCEPT ![t] = TRUE]
  /\ escaped' = IF part[t] \in Final THEN escaped \cup {t} ELSE escaped
  /\ toolRead' = [toolRead EXCEPT ![t] = "none"]
  /\ UNCHANGED <<closed, done, mainVars, recoveryVars>>

(* The stream hears of the end, unless the tools have been aborted. *)
ToolEnds(t) ==
  /\ ~Aborted(t)
  /\ \E to \in {"succeeded", "failed"} : ToolGoto(t, "executing", to)
  /\ UNCHANGED <<part, closed, memoryVars, mainVars, toolRead, escaped, recoveryVars>>

(* After an abort a tool with a result completes the call itself. *)
ToolReads(t) ==
  /\ Aborted(t)
  /\ \/ entry[t] /\ part[t] = "running" /\ ToolGoto(t, "executing", "completing")
     \/ ToolGoto(t, "executing", "over")
  /\ UNCHANGED <<part, closed, memoryVars, mainVars, toolRead, escaped, recoveryVars>>

ToolCompletes(t) ==
  /\ ToolGoto(t, "completing", "settling")
  /\ UpdatePart(t, "completed")
  /\ UNCHANGED <<closed, memoryVars, mainVars, toolRead, escaped, recoveryVars>>

ToolSettles(t) ==
  /\ ToolGoto(t, "settling", "over")
  /\ Settle(t)
  /\ UNCHANGED <<part, closed, mainVars, toolRead, escaped, recoveryVars>>
-------------------------------------------------------------------------------
(* The process dies with all its fibers; the database stays.  The next     *)
(* instance of the project reconciles the messages left open.              *)
Crash ==
  /\ main' = "dead"
  /\ main \notin {"ended", "dead"} \/ recovery = "found"
  /\ entry' = [t \in Tools |-> FALSE] /\ done' = [t \in Tools |-> FALSE]
  /\ tool' = [t \in Tools |-> "over"] /\ toolRead' = [t \in Tools |-> "none"]
  /\ recovery' = "none" /\ rows' = {}
  /\ call' = NoTool /\ keys' = {}
  /\ UNCHANGED <<part, closed, streamVars, escaped>>

(* Mutant of RecoveryReads: the status of a part is not looked at. *)
RecoveryReadsAll ==
  /\ ~Alive /\ recovery = "none" /\ ~closed
  /\ recovery' = "found"
  /\ rows' = {t \in Tools : part[t] # "none"}
  /\ UNCHANGED <<part, closed, memoryVars, mainVars, toolVars>>

RecoveryReads ==
  /\ ~Alive /\ recovery = "none" /\ ~closed
  /\ recovery' = "found"
  /\ rows' = {t \in Tools : part[t] \in Unfinished}
  /\ UNCHANGED <<part, closed, memoryVars, mainVars, toolVars>>

RecoveryMarks(t) ==
  /\ recovery = "found" /\ t \in rows
  /\ UpdatePart(t, "aborted")
  /\ rows' = rows \ {t}
  /\ UNCHANGED <<closed, memoryVars, mainVars, toolVars, recovery>>

RecoveryCloses ==
  /\ recovery = "found" /\ rows = {}
  /\ recovery' = "marked"
  /\ closed' = TRUE
  /\ UNCHANGED <<part, memoryVars, mainVars, toolVars, rows>>

StreamStep ==
  \/ \E t \in Tools : EnsureToolCall(t) \/ HandlesCall(t) \/ HandlesResult(t)
  \/ CallKnown \/ CallRuns \/ CallFinishes \/ CallSettles \/ StreamRetries \/ BackoffEnds \/ StreamEnds

Cleanup == CleanupWaits \/ SweepMarks \/ CleanupEnds \/ \E t \in Tools : SweepReads(t)

ToolStep(t) ==
  \/ ToolStarts(t) \/ ProgressReads(t) \/ ProgressSaves(t)
  \/ ToolEnds(t) \/ ToolReads(t) \/ ToolCompletes(t) \/ ToolSettles(t)

Recovery == RecoveryReads \/ RecoveryCloses \/ \E t \in Tools : RecoveryMarks(t)

ProcessorNext == StreamStep \/ Cleanup \/ (\E t \in Tools : ToolStep(t)) \/ Crash \/ Recovery

(* The runtime goes on with a cleanup that has begun; a tool, and a        *)
(* stream, may go on for ever.                                             *)
ProcessorFairness == WF_processorVars(Cleanup)

ProcessorSpec == ProcessorInit /\ [][ProcessorNext]_processorVars /\ ProcessorFairness
-------------------------------------------------------------------------------
(* A message is closed, by the cleanup or by the reconciliation after a    *)
(* crash, when all its tool parts have ended: nothing would end them later.*)
(* (processor.ts 571-596, session.ts 926-956.)  Two kinds of parts escape: *)
(* one that the fiber had just saved when it was interrupted, and one that *)
(* a tool sets running again, which it had read before the end.            *)
ClosedLast ==
  closed => \A t \in Tools : part[t] \in Unfinished => t \in escaped

(* The result of a tool is kept, although the cleanup marks calls as       *)
(* aborted whatever their status (a settled call has no entry) and the     *)
(* reconciliation goes through all parts of the message.  There are two    *)
(* exceptions, and in both the cleanup may still mark the part: a call     *)
(* that it had found just before the tool settled it, and one whose part   *)
(* is saved as completed but which has not left ctx.toolcalls yet.         *)
(* (processor.ts 123-184, 577-594; session.ts 936-950.)                    *)
SettledStays ==
  [][\A t \in Tools :
       part[t] = "completed" /\ ~entry[t] /\ ~(main = "mark" /\ call = t)
       => part'[t] = "completed"]_processorVars

(* A step that has been interrupted ends although its tools do not: they   *)
(* are waited for 250 ms at most.  The cleanup's other waits, the patch of *)
(* the snapshot (540-553) and the database, are taken to return.           *)
(* (processor.ts 571-575.)                                                 *)
ProcessEnds == main = "wait" ~> main \in {"ended", "dead"}

(* A stream is tried again only while nothing of it has been seen: what    *)
(* the tools of the attempts given up still do, and they may have started  *)
(* unseen, reaches neither the message nor the calls in memory, and a      *)
(* later attempt finds no part of theirs.  (processor.ts 664-671.)         *)
RetriesClean == \A t \in abandoned : part[t] = "none" /\ ~entry[t]
===============================================================================
