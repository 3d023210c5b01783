# SwiftCoder: TLA+ models, model checking and proofs

SwiftCoder is a coding agent: a server (package `opencode`, TypeScript on the
Effect runtime) that keeps sessions, runs a prompt loop against a language
model, executes tools with the user's permission, and serves terminal, web and
desktop clients. This directory holds TLA+ models of its concurrent core, the
TLC runs that check them on small instances, and theorems about them checked
by TLAPS. Paths below are relative to `packages/opencode/src` unless a package
is named.

## Inventory

The server is one JavaScript process. Concurrency is that of Effect fibers: one
fiber runs at a time, it gives up the processor where it waits (a Deferred, a
latch, I/O, publishing an event), and the runtime may also preempt it between
two effects. Plain JavaScript between two effects is atomic.

| component | state | operations | what is hard | correct when |
|---|---|---|---|---|
| Runner, `effect/runner.ts` | Idle / Running / Shell / ShellThenRun in a SynchronizedRef; run, shell and pending handles; Deferreds and a latch | `ensureRunning`, `startShell`, `cancel`, finalizers `finishRun`, `finishShell` | effects run after the lock is released; a cancel empties the ref before its fiber has unwound; fibers interrupted before they start | work is serial, no caller hangs unless a call was interrupted, outcomes are true, cancelled queues stay dead |
| SessionRunState, `session/run-state.ts`, and SessionStatus, `session/status.ts` | map session -> Runner, map session -> status | `ensureRunning`, `startShell`, `cancel`, `assertNotBusy`, hooks `onIdle`, `onBusy` | get-or-create without a lock, hooks that outlive their Runner | one Runner per session at work, busy iff working |
| Permission, `permission/index.ts` | `pending` map, `approved` rules | `ask`, `reply`, `list`, finalizer | replies race, sweeps iterate the live map over awaits, interruption, disposal | each ask answered once, nothing granted without a reason |
| Question, `question/index.ts` | `pending` map | `ask`, `reply`, `reject`, finalizer | as Permission | each question answered once |
| InstanceStore, `project/instance-store.ts`; InstanceState, `effect/instance-state.ts` | cache directory -> Deferred of a context; per-directory service state | `load`, `reload`, `dispose*` | disposal overlaps loads and reloads, failed boots | boots are undisturbed, the cache finds what runs, state belongs to its instance |
| SessionPrompt, `session/prompt.ts` | messages (database) | `prompt`, `runLoop`, `shell` | the exit decision against messages saved meanwhile; messages named early and saved late | every message a run has read complete was in an input, none is answered twice |
| SessionProcessor, `session/processor.ts`; SessionRetry, `session/retry.ts` | tool calls and parts of one assistant message | stream events, `cleanup`, retry | late tool results, 250 ms limit, retry over partial output, a crash | every tool part ends completed or error, results stay |
| SessionCompaction, SessionRevert | messages, snapshots | compact, revert, unrevert | a run starting after `assertNotBusy`, a stale revert point | the cleanup removes only what was reverted |
| TaskTool, `tool/task.ts`; background jobs | subagent sessions, jobs | start, extend, promote, cancel | cancel against completion and promotion | no job left running |
| ShareNext, `share/share-next.ts` | queue per session, cached share | sync, flush, create, remove | stale cache, lost flush, posts out of order | the latest data reaches the share, or its loss has a known cause |
| Workspace, `control-plane/workspace.ts` | connections, sync fibers | startSync, stopSync, waitUntilSynced | check-then-run, missed event, backoff | one loop per workspace |
| Event bridge, session store, LLM, providers, MCP, LSP, snapshots, worktrees, plugins, routes, ACP, auth, account, CLI, TUI, app, desktop, codemode | | | I/O, conversion or user interface | not modelled, see the end |

How they interact: an HTTP handler calls SessionPrompt, which saves a message and
calls SessionRunState with the prompt loop as the work; SessionRunState finds the
session's Runner; the Runner forks the work and joins later callers to it; the
work calls the processor, whose tool fibers call Permission and Question and wait
there until another HTTP request replies. Cancelling goes the same way down:
`cancel` interrupts the run's fiber, which interrupts the tools and their asks.
All per-directory state lives in InstanceState and is disposed by InstanceStore.
`PROJECT.json` lists the hazards of this code line by line.

## Modules

**Runner** models all of `effect/runner.ts`. A member of `Ops` is a call; what it
creates (run, shell, pending run, their Deferreds) carries its name, which plays
the role of `next()`. `state[o]` is the content of the ref of Runner `o`: the four
tags are `Idle`, `Running(r)`, `Shell(s)`, `ShellThenRun(s, r)`. A function passed
to `SynchronizedRef.modify` is one action (JoinRun, QueueRun, StartRun,
RejectShell, Cancel, FinishRun, FinishShell); `startShell` holds `lock` while it
runs `onBusy` (EnterShell, ForkShell). The effects such a function returns run
later, in steps of their own: `pc[c]` follows the calling fiber, `fpc[c]` the fiber
forked for its work. `held[c]` is what a returned effect has captured, and may be
out of date. `exit`, `done`, `latch`, `marked`, `signal` are the Exit, the Deferred,
the ready latch, the Deferred `cancelled` and the pending interruption. Work ends
in any way: success, failure, interrupted, or interrupted together with other
errors, the last two only after an interruption. Calls in `Impatient` may be
interrupted themselves (Abandon). An `onIdle` takes two steps, which the owner
refines. `Hangs` says that a cancel waits for the latch of a shell whose caller was
interrupted before the shell was scheduled: nothing opens that latch.

**WorkSlot** is what a Runner promises: a slot with one active and at most one
queued piece of work, each of which passes through once; cancelling empties it.
`Runner!Slot` is the refinement mapping: work is active or queued if the ref says
so, cancelled if some cancel has taken it out of the ref.

**SessionRunState** extends Runner with the map of Runners of one session (sessions
share nothing here), the lookup that precedes each call, the hooks and the status.
The Runner made by call `c` is named `c`. `Preempt = FALSE` leaves out preemption
between two effects that do not wait, so what goes wrong there goes wrong on every
scheduler: a step is then taken by a call that is ready, if there is one, and by any
of them when a lock that several waited for is released.

**Permission** models `ask`, `reply` and the finalizer. A step ends where the code
may lose the processor; `pending` is a JavaScript Map, kept as the set of its keys
with, for each, the keys before it, because the sweeps iterate it live and in
order. Rules match by `*` or literally. Approvals are all "allow" rules, so their
order does not matter and they form a set.

**InstanceStore** models `project/instance-store.ts` for one directory, with the
state of one service (`effect/instance-state.ts`). A call that makes a cache entry
gives its name to the entry, its Deferred, the fiber forked for it and the context it
boots. `load`, `reload` and the three disposals are actions up to their next wait;
`fpc[e]` follows the fiber of an entry. `disposeAll` is cached with a TTL of zero: a
call joins one that is in flight. The disposers drop the state when they are started
and then take their time. A load that returns goes on as a request (`provide`) that
may get the state with its instance long after that instance was replaced: `stray`
says that the state was made so, or by a boot that failed. The next boot then finds
it in place. The code allows that, and FreshState names it as the exception.

**Question** extends InstanceStore with `ask`, `reply` and `reject`. `pending` is the
state `cell` stands for; a step of the store that drops the cell runs the finalizer.
Getting the state and entering the question are one step, as no wait is between them.

**SessionPrompt** models `prompt`, `summarize`, `revert`, `unrevert`, `cancel` and the
`runLoop` they lead to. A message is its place in the order of creation, with role,
parent, finish and author. Serialisation of runs is that of WorkSlot, which the
Runner is shown to implement; the second Runner a session may get (see the finding
below) is left out here. A request is a `stage`, a run a place in `loop`; `task`
keeps what a run has read, since it acts on it after other requests have saved or
removed messages. A user message is saved before its parts, each write a publish, and
is `bare` until the last part is saved (Fills, LoopFills); the loop sees a bare message,
the input for the model leaves it out (`message-v2.ts` 196). `shown` are the messages
that were in an input for a reply, `passed` those that a run may have passed over: its
parts came when a run had answered it or a later one (Late), or a compaction took it
for history (SummaryStarts). A compaction retains no tail. `Objs` is one Runner
(PromptAssumption).

**SessionProcessor** models the tool parts of one assistant message. `main` is the
fiber that reads the stream and cleans up, `tool[t]` an execution, `recovery` the
reconciliation that the next server process begins with (`run-state.ts` 39). Reading
a part and saving what becomes of it are two steps everywhere, as in the code. The AI
SDK, external, executes a call when it arrives, possibly before the fiber hears of
it; calls that the provider executes are executions without progress. `escaped` are
the calls whose part no entry leads to any more, for the two reasons given there. The
ids of calls, which the model provider makes, are taken to differ between attempts.

**ShareNext** models `share/share-next.ts` for a session whose content is a version
number. The users of `getCached` (sync, flush, remove) read the database and fill the
cache in two steps. `full` after a creation may sync or fail. `lost` collects the
versions that were given up, each where the code does so.

**MCMessage** checks SessionProcessor and ShareNext in one run. They share no state:
`checked` says which of them moves, and the other stays in its initial state.

**RunnerProofs**, **RunnerSlotProofs**, **SessionProofs**, **PermissionProofs**,
**StoreProofs** (InstanceStore and Question), **PromptProofs**, **ProcessorProofs** and
**ShareProofs** hold the theorems; **MCRunner**,
**MCSessionRunState**, **MCPermission**, **MCQuestion** and **MCPrompt** the symmetry
sets, orders, bounds and inputs for TLC.
Operators introduced as "Mutant of X" are the code with a plausible mistake; no
specification uses them, and each shows that a property would notice the mistake.

## Runs

Bounds of the runs of Runner, SessionRunState, Permission and Question: the number of
calls (`Ops`), asks and replies. Nothing else is unbounded there. The longest scenarios
the code comments and tests mention take four calls (a shell, a run queued behind it, a
cancel, and replacement work), so four calls are used where the state space allows;
three are enough for two pieces of work and a cancel that may each be abandoned. In
`session` and `runner_live` work ends by success or by interruption alone (`MCExits`):
how it ended matters only to what callers hear, which `runner` checks. Deadlock checking is off: a system in which all
calls have returned stops.

| run | instance | shows |
|---|---|---|
| runner | 4 calls, none abandoned | TypeOK, HandlesAlive, Exclusive, CancelledQueueNeverStarts, NoStrandedCaller, OutcomesTrue |
| runner_live | 3 calls, all may be abandoned, fair | HandlesAlive and NoStrandedCaller in spite of that; ImplementsSlot (refinement of WorkSlot); CancelReturns, CancelResolvesCallers, QueuedRunServed |
| session | 4 calls, no preemption | SessionTypeOK, NothingLeftBehind, SerialUnlessReplaced |
| session_preempt | 3 calls, preemption | NothingLeftBehind |
| session_busy | 4 calls, no preemption | violates AssertNotBusySound, see below |
| permission | 3 asks, 2 replies, preemption, replies interrupted | PermissionTypeOK, AnsweredOnce, GrantJustified |
| permission_sweep | 3 asks and 2 replies, all may be interrupted, no preemption | AlwaysReleases, NoStrandedAsk |
| permission_live | 2 asks, 2 replies, fair | RejectCascades, RepliedAskReturns |
| question | 4 calls of the store, or 3 and a question with 2 answers | BootAlone, CacheTruthful, FreshState, ReloadRejects, QuestionReachable, QuestionAnsweredOnce |
| prompt | 2 prompts and one other request, 6 messages | ReadIncluded, AnsweredOnce, CleanupSpares |
| prompt_submitted | the same instance | violates SubmittedIncluded, see below |
| message | 2 tool calls, 2 attempts; 2 versions, 2 shares, 2 flushes | ClosedLast, SettledStays, RetriesClean, ProcessEnds; CacheAgrees, NothingForgotten, FlushComes |

Three asks let a sweep pass one request, settle another and meet a third that
arrives meanwhile; two replies are what a race needs. The four requests of
MCPermission differ in session, in rules that ask, allow and deny, and in whether
an approval covers them wholly, in part or not at all.

Four calls of the store are a first load, a reload, a second reload or load behind
it, and a disposal that is late for either; with a question one call fewer, as the
question is asked and answered through one of the loads. Calls and replies are
interchangeable, so they begin in the order of their names (`InOrder`). The same is
done in `prompt` and in `runner_live`, where liveness rules out symmetry; nobody is
assumed to call, so the order leaves the fairness as it is. The liveness properties of
Runner say what holds in the end (`<>[]`): the calls are finitely many, so in the end
each has come to where it stays.

In `prompt` the session begins with an answered prompt. Two prompts are what a race
between a run's exit and a message needs, and the third request compacts, reverts,
unreverts or cancels. Six messages leave room for two prompts and two replies, or a
compaction and its summary; one less where the third request saves none, or once a
loop has failed, which leaves a message as it is and ends a run. The
compaction that is asked for is an automatic one: a plain one does what it does without
the replay.

Two calls let one settle while another is open; with two attempts the tools of the
first meet the second. Two versions, shares and flushes let an old version, an old
share or an older request come last. ShareNext was also checked alone with three
versions, one share and two flushes (105,945 states, no violation).

What the exceptions in the properties say of the code:

- Runner: when the caller of a shell with a latch is interrupted while the shell is only
  forked, the ref stays Shell, and the next cancel waits for ever at `runner.ts` 110;
  with it wait the callers of a run queued behind that shell. A cancel that is itself
  interrupted leaves the callers of the run it took.
- Permission: a reply interrupted between deletion and answer leaves its ask waiting.
- InstanceStore: a boot that failed, or a request that comes late, leaves state that
  the next boot finds.
- SessionPrompt: a message whose parts are complete only when a run has answered it or
  a later one, and one that a compaction took for history, is in no input for a reply.
  A message may be answered again by a run that a cancel has detached or by the
  successor of such a run, or when a cleanup removes messages under a run. A cleanup
  repeated with a revert point inside a message removes what another prompt has saved
  since.
- SessionProcessor: a tool that saves progress it computed before the end sets its part
  running again. A completed call that has not left `ctx.toolcalls`, or that the cleanup
  had just found, may be marked as aborted.
- ShareNext: data is lost with a failed request, and the newest version is not sent when
  `full` fails, which is only logged (`share-next.ts` 331-334).

What these say of prompts is the second finding below. None of the others contradicts a
comment, test or document of the repository, so they are stated in the properties and
not as findings.

The proofs changed a statement which held in the six messages of the run and in no
larger instance. AnsweredOnce used to allow a second answer only after a removal between
the two answers; but a removal before the first one may hide it as well, so the removals
counted are those after the message that is answered. ReadIncluded speaks of the moment
in which a run decides that it is done, since a later cleanup may remove what was then
there.

**Fairness.** ProcessEnds assumes only that the cleanup of the processor goes on
(`ProcessorFairness`): it is uninterruptible, being a finalizer, its wait for the tools
is bounded by 250 ms, and its other waits, the patch of the snapshot and the database,
are taken to return. Nothing is assumed of streams and tools. The other liveness runs
assume that the runtime schedules every fiber that can take a step (Effect's
scheduler is a FIFO queue), that hooks end, and that interrupted work unwinds
(`Unwind`). They do not assume that work ends by itself, that anybody calls, or that
the user replies. Shells with a latch open it: the effect that opens it is
uninterruptible and ensured in `session/prompt.ts` 454-529, once the shell has been
scheduled.

**Finding** (`session_busy`). A late idle hook deletes a newer Runner. A cancel takes
the run out of Runner R1 and waits for its fiber. R1 is Idle meanwhile and serves
another run, which deregisters R1 when it ends. The next prompt registers R2. Now
the cancel comes back, finds R1 Idle, and its `onIdle` (`run-state.ts` 64) deletes
R2 from the map and shows the session idle while R2's run is going on.
`assertNotBusy` then passes, `cancel` finds nothing to cancel, and the next prompt
starts a second run. SerialUnlessReplaced shows that this is the only way: unless a
Runner was given new work behind the back of a cancel, work of a session never
overlaps and assertNotBusy is right.

**Finding** (`prompt_submitted`). `packages/opencode/test/session/prompt.test.ts` 1405
says "prompt submitted during an active run is included in the next LLM input". There
are three ways in which it is in no input, though nothing is compacted or cancelled. A
run that has found the last message answered (`prompt.ts` 1131) occupies the Runner
until `finishRun`: a prompt saved in between joins that run and is given the old reply.
A prompt whose files take long to read is saved late (660, 1049) with an ID older than
that of the message just answered; the loop looks at the newest ID only. And a message
is saved before its parts (1049, 1050): a run that reads it in between replies with it
as the parent, without its text in the input, and it counts as answered when the text
is there. ReadIncluded is what remains true: whatever a run has read complete before
it decides to end was in an input, but for the exceptions above.

With preemption AlwaysReleases and NoStrandedAsk would fail as well: an ask evaluated
before an approval may enter `pending` after the sweep, and one evaluated before the
finalizer of the instance may enter a map that nobody reads any more, and wait for ever.
That needs the runtime to preempt the ask between two effects that do not wait, so both
are stated without preemption and not as findings.

## Proofs

Every safety property of the runs is a theorem, for every set of calls, Runners, asks,
replies, requests, rules, messages, tools, versions, shares and flushes, with
preemption and interruption unless said otherwise. The assumptions are the named
ASSUMEs of the modules: `NoOp` and `None` are not calls (nor, for `NoOp`, a Runner),
`Impatient` is a set of calls, asks are not replies, patterns are sequences of
strings, a session's prompts share one Runner. Each invariant below was checked by
TLC on the instance of its run before it was proved.

RunnerProofs: `TypeCorrect`, `ExclusiveWork`, `LiveHandles`, `CancelledQueue`.
Exclusive is not inductive. The invariant `Inv` adds what the code relies on
silently: a handle in the ref belongs to a call on that Runner and no cancel holds
it (HandlesNamed), cancels hold only runs and shells (HeldNamed), the pc values of
calls agree with what they called (CallsConsistent), and every fiber that is not
finished is named by the ref or detached by a cancel (FibersTracked), from which
Exclusive follows because the ref names one piece of active work. The proof has one
lemma per group of actions; steps that leave the ref and the handles alone go
through QuietStep.

RunnerSlotProofs: `CallersAnswered`, `HonestOutcomes`, `RunnerImplementsSlot`. What a
caller awaits is a run (CallersNamed), a pending Deferred has somebody who will
complete it (RunsAnswered), and a Deferred says what the exit of the fiber says
(ExitsStand, AnswersTrue). The refinement maps each step to submit, start, finish or
cancel of WorkSlot, or to no step; that a cancelled handle is in no ref, from
HandlesNamed, is what makes the phases well defined.

SessionProofs: `SessionTyped`, `SessionRunsRunners`, `NothingStaysBehind`,
`SerialWithoutPreemption`. A session implements Spec of Runner, so the theorems about
Runner hold of it; `Stages` says that a call acts on the Runner it found.
NothingLeftBehind follows from two facts: a registered Runner is in use, about to be
used, or has an idle hook coming (Registered), and a busy status has one coming
(ShownBusy). The second needs that a cancel has interrupted what it holds
(CancelsHold), as the loop of a run that is not interrupted may still show busy.
SerialUnlessReplaced needs `Preempt = FALSE` and the invariant `Serial`: the Runner
with work, with a shell in `onBusy` or with a cancel under way is the registered one,
as is the one that a waiting call has found, and when an idle hook is due nothing else
can move (HookAlone). The last is what preemption breaks. As soon as a Runner is given
new work behind a cancel the statement is Replaced, and stays so (ReplacedStays).

PermissionProofs: `TypeCorrect`, `NoAskStranded`, `OneAnswer`, `GrantsJustified`,
`AlwaysReleasesPending`.
`SettleInv` adds to the type and AnsweredOnce that a waiting request is pending or with a
reply that took it (Known), that a request not yet pending has no trace (Fresh), that a
request has one reply at most and none while pending (OneReply), and what a reply
halfway still owes (Owed). NoStrandedAsk needs `Preempt = FALSE`, and then that what is
pending is in the map of a live instance (MapLives). `GrantInv` adds that patterns are examined in
order (Examined), that a sweep settles only covered requests (Swept), and that a
Deferred completed with "allowed" was justified (Granted); approvals are never
withdrawn, so all this is stable (Stable). AlwaysReleases needs `Preempt = FALSE`: an
ask that was found to need an answer still needs one when it is inserted (Evaluating).
From then on every set of replies that together cover it contains one whose sweep has
not passed it (SweepsReach); a set of finished replies contains none. Several replies
may cover a request only together, which is why the invariant is about sets.

StoreProofs: `TrueCache`, `OwnStateAlways`, `BootsAlone`, `StoreWithin`,
`ReachableAlways`, `AnsweredOnceAlways`, `RejectedAlways`. `StoreInv` follows the fiber
of an entry and the chain of `previous`: one entry boots or waits for the one before
it, the others have come to their end, and what a disposal means is known. `QuestionInv`
puts on top what a reply has taken and owes, as in Permission. StoreWithin, the
implementation of the store by the store with questions, carries the first over.

PromptProofs: `AnsweredOnceAlways`, `PromptsAnswered`, `CleanupSparesAlways`. `PromptInv`:
one run holds the slot and the others are detached or over (OneRun), the identifiers
taken by requests and runs differ (NamesApart), revert points and what was read with
them stay in the past (PointsStand), a message answers an earlier one (Parented, Later),
a run works on a message whose answers it has seen, but for removals and detached runs
(Forward), and for each complete message that is not `passed`, an assistant message that
answers it or a later one implies that it was `shown`, and a run that is about to write
such an answer has it in what it is going to show (Inputs). Induction over the naturals
is used once, to name a largest element.

ProcessorProofs: `ClosedLastAlways`, `RetriesCleanAlways`, `ResultsStay`. `ProcessorInv`
says for each part who may still write it: a call in memory, a tool that has read it,
the fiber that is at it, or the recovery (PartsKnown, TurnsTaken, OpenLed).

ShareProofs: `FlushAlwaysComes`, `CacheAlwaysAgrees`, `NewestAlwaysCarried`. `ShareInv`
adds that the cache differs from the row only while somebody is about to fill or drop
it (CacheTraced); the model's own bounds play no part.

Only model-checked: the liveness properties CancelReturns, CancelResolvesCallers,
QueuedRunServed, RejectCascades, RepliedAskReturns and ProcessEnds, since fairness and
ENABLED are out of reach of the prover; and AssertNotBusySound and SubmittedIncluded,
which are violated.
WorkSlot is proved to be implemented but has no theorem of its own. No module uses
RECURSIVE.

## Plan

1. Runner, WorkSlot, SessionRunState, Permission with their runs and first proofs:
   done.
2. InstanceStore, Question, SessionPrompt with compaction and revert,
   SessionProcessor with retry and recovery, ShareNext: done.
3. Proofs of the safety properties: done.
4. Next: what the refinement gives. The runs of SessionPrompt as a refinement of the
   slot under the prompts; SessionRunState with impatient callers, where the status may
   stay busy; BootAlone and the share protocol against abstract specifications of
   their own.

## Not modelled

Packages outside the repository's server (`@swiftscale/core`: events, database, job
registry; the Effect runtime; the AI SDK) are modelled only as far as the code relies
on them: a publish may suspend, a fiber interrupted before it starts runs no
finalizer, completing a Deferred twice has no effect. Within the components above:

- SessionRunState: `cancelBackgroundJobs`, the instance finalizer, the retry status;
- Permission: the builders of rulesets;
- SessionPrompt: shells, commands, subtasks, structured output, titles, what
  the parts hold; SessionCompaction: prune, the retained tail, which message is replayed;
  SessionRevert: files and diffs;
- SessionProcessor: text, reasoning, snapshots, usage, the doom loop;
- SessionRetry: the length of the delay and which errors are worth it, sequential
  functions with unit tests;
- ShareNext: the disposal of the instance, which drops the queue;
- Session store: reconciliation beside live work. It selects messages by project and
  runs once per directory, so the first instance of a second directory of a project
  marks the open message of a live run in the first one as interrupted. The model has
  one directory, where nothing is live when it runs.

TaskTool, background jobs and Workspace sync are left out whole: what is hard there
(starting, extending and promoting a job, the remote log) is state of external
packages, and a model would be of these and not of this code. LLM, providers, MCP,
LSP, snapshots, worktrees, plugins, routes, ACP, auth, account, CLI, TUI, app,
desktop and codemode are conversions, I/O, user interfaces or sequential interpreters
around this core; they are by far the largest part of the repository, and the reason
why the models stand for a small share of its lines.
