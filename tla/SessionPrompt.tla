---------------------------- MODULE SessionPrompt ----------------------------
(* The prompt loop of one session, session/prompt.ts, with the compaction  *)
(* of its history (session/compaction.ts) and its revert point             *)
(* (session/revert.ts).  The Runner that serialises the runs of the        *)
(* session is taken as what it implements, a WorkSlot; shells are left out.*)
(*                                                                         *)
(* A message is named by its place in the order of creation: MessageID and *)
(* time.created are taken together and increase.  A user message gets its  *)
(* name when createUserMessage begins and is saved when its parts have     *)
(* been resolved, files and MCP resources read: others may come between.   *)
(*                                                                         *)
(* Of a message the loop looks at its role, parent, finish and error.  A   *)
(* user message is saved before its parts: it is "bare" until the last of  *)
(* them is saved, and only then a prompt or a request to compact.  What is *)
(* bare is in no input for the model.  A finish is "tools" when tool       *)
(* results have to go back to the model, "failed" when the message has an  *)
(* error as well; without a finish an error tells the loop nothing.        *)
EXTENDS WorkSlot, Naturals, FiniteSetsExt

CONSTANT MaxMessages

(* There is one Runner for the session. *)
ASSUME PromptAssumption ==
  /\ NoOp \notin Ops /\ \A o, p \in Objs : o = p
  /\ MaxMessages \in Nat /\ MaxMessages >= 2

VARIABLES
  clock,   \* the last message name given
  msgs,    \* the messages of the session
  point,   \* session.revert
  stage,   \* stage[c]: where request c is
  mine,    \* mine[c]: the user message of c
  role,    \* role[c]: what c saves: a prompt or a request to compact
  known,   \* known[c]: session.revert as c read it
  gone,    \* gone[c]: the messages the cleanup of c has still to remove
  loop,    \* loop[f]: where the runLoop of run f is
  task,    \* task[f]: what f is about to do, or does, and what it read
  shown,   \* the user messages that were in a model input for a reply
  passed   \* the user messages that a run may have passed over: see Late, SummaryStarts

inputVars == <<shown, passed>>
dbVars == <<clock, msgs, inputVars>>
requestVars == <<point, stage, mine, role, known, gone>>
loopVars == <<loop, task>>
promptVars == <<dbVars, requestVars, loopVars>>
vars == <<slotVars, promptVars>>

Messages == 1..MaxMessages

Absent == [role |-> "none", parent |-> 0, finish |-> "none", by |-> NoOp]

UserMessage(r) == [Absent EXCEPT !.role = r]

(* session.revert: the message, and whether its first parts stay. *)
NoPoint == [id |-> 0, keep |-> FALSE]

NoTask == [parent |-> 0, sees |-> {}, id |-> 0, auto |-> FALSE]

(* The session begins with a prompt that has been answered. *)
Reply == [role |-> "reply", parent |-> 1, finish |-> "stop", by |-> NoOp]

PromptInit ==
  /\ Init
  /\ clock = 2 /\ shown = {1} /\ passed = {}
  /\ msgs = [i \in Messages |-> CASE i = 1 -> UserMessage("user") [] i = 2 -> Reply [] OTHER -> Absent]
  /\ point = NoPoint
  /\ stage = [c \in Ops |-> "new"]
  /\ mine = [c \in Ops |-> 0]
  /\ role = [c \in Ops |-> "none"]
  /\ known = [c \in Ops |-> NoPoint]
  /\ gone = [c \in Ops |-> {}]
  /\ loop = [f \in Ops |-> "none"]
  /\ task = [f \in Ops |-> NoTask]

Saved == {i \in Messages : msgs[i].role # "none"}
Requests == {"compact", "autoCompact"}
UserMessages == {i \in Saved : msgs[i].role \in Requests \cup {"user", "bare"}}
Complete == {i \in UserMessages : msgs[i].role # "bare"}
Assistants == Saved \ UserMessages

Latest(S) == IF S = {} THEN 0 ELSE Max(S)

(* Another message can be named. *)
Named == clock < MaxMessages /\ clock' = clock + 1

Save(i, m) == msgs' = [msgs EXCEPT ![i] = m]

(* A user message is named and saved, without its parts. *)
SaveBare == Named /\ Save(clock', UserMessage("bare"))

(* A run has answered message m or a later one, or is about to. *)
Late(m) ==
  \/ \E i \in Assistants : msgs[i].parent >= m
  \/ \E f \in Ops : loop[f] \in {"prepare", "summarize", "model", "summary"} /\ task[f].parent >= m

(* The last part of message m is saved, if no cleanup has removed m. *)
Fill(m, r) ==
  IF msgs[m].role = "bare"
    THEN /\ Save(m, UserMessage(r))
         /\ passed' = IF Late(m) THEN passed \cup {m} ELSE passed
    ELSE UNCHANGED <<msgs, passed>>

StageGoto(c, from, to) == stage[c] = from /\ stage' = [stage EXCEPT ![c] = to]
-------------------------------------------------------------------------------
(* A request: prompt, or summarize, which saves a request to compact       *)
(* instead.  Each first removes what was reverted.                         *)

RequestBegins(c) ==
  /\ StageGoto(c, "new", IF point = NoPoint THEN "create" ELSE "cleanup")
  /\ known' = [known EXCEPT ![c] = point]
  /\ \E r \in {"user", "compact", "autoCompact"} : role' = [role EXCEPT ![c] = r]
  /\ UNCHANGED <<slotVars, dbVars, point, mine, gone, loopVars>>

(* Mutant of Reverted: slice with the index -1 of a missing message. *)
RevertedUnguarded(p) ==
  IF p.id \in Saved THEN {i \in Saved : i > p.id \/ (i = p.id /\ ~p.keep)} ELSE {Latest(Saved)} \ {0}

Reverted(p) ==
  IF p.id \in Saved THEN {i \in Saved : i > p.id \/ (i = p.id /\ ~p.keep)} ELSE {}

(* cleanup works with session.revert as the request read it. *)
CleanupReads(c) ==
  /\ StageGoto(c, "cleanup", "remove")
  /\ gone' = [gone EXCEPT ![c] = Reverted(known[c])]
  /\ UNCHANGED <<slotVars, dbVars, point, mine, role, known, loopVars>>

CleanupRemoves(c) ==
  /\ stage[c] = "remove" /\ gone[c] # {}
  /\ LET i == Min(gone[c]) IN
     /\ Save(i, Absent)
     /\ gone' = [gone EXCEPT ![c] = @ \ {i}]
  /\ UNCHANGED <<slotVars, clock, inputVars, point, stage, mine, role, known, loopVars>>

CleanupEnds(c) ==
  /\ gone[c] = {}
  /\ StageGoto(c, "remove", "create")
  /\ point' = NoPoint
  /\ UNCHANGED <<slotVars, dbVars, mine, role, known, gone, loopVars>>

(* createUserMessage takes the name of the message ... *)
Creates(c) ==
  /\ role[c] = "user"
  /\ StageGoto(c, "create", "save")
  /\ Named
  /\ mine' = [mine EXCEPT ![c] = clock']
  /\ UNCHANGED <<slotVars, msgs, inputVars, point, role, known, gone, loopVars>>

(* ... and saves it when the parts are ready, and after it the parts. *)
Saves(c) ==
  /\ StageGoto(c, "save", "fill")
  /\ Save(mine[c], UserMessage("bare"))
  /\ UNCHANGED <<slotVars, clock, inputVars, point, mine, role, known, gone, loopVars>>

(* compaction.create names and saves its message at once. *)
RequestsCompaction(c) ==
  /\ role[c] \in Requests
  /\ StageGoto(c, "create", "fill")
  /\ SaveBare
  /\ mine' = [mine EXCEPT ![c] = clock']
  /\ UNCHANGED <<slotVars, inputVars, point, role, known, gone, loopVars>>

Fills(c) ==
  /\ StageGoto(c, "fill", "loop")
  /\ Fill(mine[c], role[c])
  /\ UNCHANGED <<slotVars, clock, shown, point, mine, role, known, gone, loopVars>>

(* With noReply the prompt ends here; a later run will read it. *)
NoReply(c) ==
  /\ role[c] = "user"
  /\ StageGoto(c, "loop", "quiet")
  /\ UNCHANGED <<slotVars, dbVars, point, mine, role, known, gone, loopVars>>

(* ensureRunning starts a run or joins the one that is active. *)
Loops(c) ==
  /\ StageGoto(c, "loop", "over")
  /\ \/ /\ \E o \in Objs : Start(c, o)
        /\ loop' = [loop EXCEPT ![c] = "top"]
     \/ /\ \E r \in Ops : phase[r] = "active"
        /\ UNCHANGED <<slotVars, loop>>
  /\ UNCHANGED <<dbVars, point, mine, role, known, gone, task>>

(* What a cancel detaches is interrupted later: LoopInterrupted. *)
Cancels(c) ==
  /\ StageGoto(c, "new", "over")
  /\ \E o \in Objs : CancelSlot(o)
  /\ UNCHANGED <<dbVars, point, mine, role, known, gone, loopVars>>
-------------------------------------------------------------------------------
(* revert and unrevert look once whether the session is busy. *)

RevertChecks(c) ==
  /\ \A r \in Ops : phase[r] # "active"
  /\ \E to \in {"revert", "unrevert"} : StageGoto(c, "new", to)
  /\ UNCHANGED <<slotVars, dbVars, point, mine, role, known, gone, loopVars>>

(* It reads the messages, then restores the files; a point inside a        *)
(* message keeps the parts before it.                                      *)
RevertReads(c) ==
  /\ StageGoto(c, "revert", "restore")
  /\ \E i \in Saved, keep \in BOOLEAN :
       /\ ~keep => i \in UserMessages
       /\ known' = [known EXCEPT ![c] = [id |-> i, keep |-> keep]]
  /\ UNCHANGED <<slotVars, dbVars, point, mine, role, gone, loopVars>>

SetsRevert(c) ==
  /\ StageGoto(c, "restore", "over")
  /\ point' = known[c]
  /\ UNCHANGED <<slotVars, dbVars, mine, role, known, gone, loopVars>>

ClearsRevert(c) ==
  /\ StageGoto(c, "unrevert", "over")
  /\ point' = NoPoint
  /\ UNCHANGED <<slotVars, dbVars, mine, role, known, gone, loopVars>>
-------------------------------------------------------------------------------
(* runLoop, the work of a run *)

LoopGoto(f, from, to) == loop[f] = from /\ loop' = [loop EXCEPT ![f] = to]

(* MessageV2.filterCompacted, without the tail that a compaction retains. *)
Completed(j) ==
  /\ msgs[j].role \in Requests
  /\ \E s \in Saved : msgs[s].role = "summary" /\ msgs[s].parent = j /\ msgs[s].finish = "stop"

Visible ==
  LET completed == {j \in Saved : Completed(j)} IN {i \in Saved : \A j \in completed : i >= j}

(* MessageV2.latest *)
LastUser == Latest(Visible \cap UserMessages)
LastAssistant == Latest(Visible \cap Assistants)
LastFinished == Latest({i \in Visible \cap Assistants : msgs[i].finish # "none"})
Tasks == {i \in Visible : msgs[i].role \in Requests /\ i > LastFinished}

Final == {"stop", "failed"}

(* Mutants of Answered: whichever message the reply was for; only what     *)
(* this run has said itself.                                               *)
AnsweredAnyone(f) == LastAssistant # 0 /\ msgs[LastAssistant].finish \in Final

AnsweredHere(f) ==
  /\ LastAssistant # 0 /\ LastAssistant = task[f].id
  /\ msgs[LastAssistant].finish \in Final
  /\ msgs[LastAssistant].parent = LastUser

(* The test that ends the loop. *)
Answered(f) ==
  /\ LastAssistant # 0
  /\ msgs[LastAssistant].finish \in Final
  /\ msgs[LastAssistant].parent = LastUser

(* The task of the next step, or what the last step has read; messages     *)
(* without parts are left out of the input (message-v2.ts 196).            *)
TaskOf(f, auto) ==
  [task[f] EXCEPT !.parent = LastUser, !.sees = Visible \cap Complete, !.auto = auto]

LoopExits(f) ==
  /\ LoopGoto(f, "top", "decided")
  /\ LastUser # 0 /\ Answered(f)
  /\ task' = [task EXCEPT ![f] = TaskOf(f, FALSE)]
  /\ UNCHANGED <<slotVars, dbVars, requestVars>>

(* A compaction is for the last user message, whichever asked for it. *)
LoopCompacts(f) ==
  /\ LoopGoto(f, "top", "summarize")
  /\ LastUser # 0 /\ ~Answered(f) /\ Tasks # {}
  /\ task' = [task EXCEPT ![f] = TaskOf(f, msgs[Max(Tasks)].role = "autoCompact")]
  /\ UNCHANGED <<slotVars, dbVars, requestVars>>

(* Whether the last finished step overflowed is the model's affair. *)
LoopOverflows(f) ==
  /\ LoopGoto(f, "top", "overflow")
  /\ LastUser # 0 /\ ~Answered(f) /\ Tasks = {}
  /\ LastFinished # 0 /\ msgs[LastFinished].role # "summary"
  /\ task' = [task EXCEPT ![f] = TaskOf(f, FALSE)]
  /\ UNCHANGED <<slotVars, dbVars, requestVars>>

LoopPrepares(f) ==
  /\ LoopGoto(f, "top", "prepare")
  /\ LastUser # 0 /\ ~Answered(f) /\ Tasks = {}
  /\ task' = [task EXCEPT ![f] = TaskOf(f, FALSE)]
  /\ UNCHANGED <<slotVars, dbVars, requestVars>>

(* The assistant message as the processor of run f holds it in memory. *)
Held(f, finish) ==
  [role |-> IF loop[f] \in {"prepare", "model"} THEN "reply" ELSE "summary",
   parent |-> task[f].parent, finish |-> finish, by |-> f]

Starts(f) ==
  /\ Named
  /\ Save(clock', Held(f, "none"))
  /\ task' = [task EXCEPT ![f].id = clock']
  /\ UNCHANGED <<slotVars, requestVars>>

ReplyStarts(f) ==
  /\ LoopGoto(f, "prepare", "model")
  /\ Starts(f)
  /\ shown' = shown \cup task[f].sees
  /\ UNCHANGED passed

(* What the run has read is history to the summary, answered or not. *)
SummaryStarts(f) ==
  /\ LoopGoto(f, "summarize", "summary")
  /\ Starts(f)
  /\ passed' = passed \cup task[f].sees
  /\ UNCHANGED shown

(* process answers continue, stop (a tool was rejected, or there is an     *)
(* error) or compact.  The message is saved as it is held, even if it has  *)
(* been removed.                                                           *)
ReplyEnds(f) ==
  /\ \E to \in {"top", "stopped", "overflow"}, e \in {"none", "tools", "stop", "failed"} :
       /\ e = "failed" => to = "stopped"
       /\ LoopGoto(f, "model", to)
       /\ Save(task[f].id, Held(f, e))
  /\ UNCHANGED <<slotVars, clock, inputVars, requestVars, task>>

(* A summary that cannot be made ends the run. *)
SummaryFails(f) ==
  /\ LoopGoto(f, "summary", "stopped")
  /\ \E e \in {"none", "failed"} : Save(task[f].id, Held(f, e))
  /\ UNCHANGED <<slotVars, clock, inputVars, requestVars, task>>

(* After an automatic compaction a user message is replayed, or the model  *)
(* told to go on, unless a plugin prevents it.                             *)
SummaryEnds(f) ==
  /\ \/ LoopGoto(f, "summary", "top")
     \/ task[f].auto /\ LoopGoto(f, "summary", "continue")
  /\ \E e \in {"none", "stop"} : Save(task[f].id, Held(f, e))
  /\ UNCHANGED <<slotVars, clock, inputVars, requestVars, task>>

Replays(f) ==
  /\ LoopGoto(f, "continue", "replay")
  /\ SaveBare
  /\ task' = [task EXCEPT ![f].id = clock']
  /\ UNCHANGED <<slotVars, inputVars, requestVars>>

(* compaction.create, by the loop. *)
CreatesCompaction(f) ==
  /\ LoopGoto(f, "overflow", "request")
  /\ SaveBare
  /\ task' = [task EXCEPT ![f].id = clock']
  /\ UNCHANGED <<slotVars, inputVars, requestVars>>

(* The parts of the message that the run has saved. *)
LoopFills(f) ==
  /\ \/ LoopGoto(f, "replay", "top") /\ Fill(task[f].id, "user")
     \/ LoopGoto(f, "request", "top") /\ Fill(task[f].id, "autoCompact")
  /\ UNCHANGED <<slotVars, clock, shown, requestVars, task>>

(* No user message, no such model, no such agent, a tool that cannot be    *)
(* resolved: the assistant message, if there is one, stays as it is.       *)
LoopFails(f) ==
  /\ \E from \in {"top", "prepare", "summarize", "model", "summary"} :
       /\ LoopGoto(f, from, "failed")
       /\ from = "top" => LastUser = 0
  /\ UNCHANGED <<slotVars, dbVars, requestVars, task>>

(* finalizeInterruptedAssistant, or the processor's own onInterrupt: the   *)
(* message has an error, and a finish if the step had one.                 *)
LoopInterrupted(f) ==
  /\ phase[f] = "cancelled"
  /\ \E from \in {"top", "prepare", "summarize", "overflow", "model", "summary",
                   "continue", "replay", "request"} : LoopGoto(f, from, "interrupted")
  /\ IF loop[f] \in {"model", "summary"}
     THEN \E e \in {"none", "failed"} \cup (IF loop[f] = "model" THEN {"tools"} ELSE {}) : Save(task[f].id, Held(f, e))
     ELSE UNCHANGED msgs
  /\ UNCHANGED <<slotVars, clock, inputVars, requestVars, task>>

(* The loop is over, the last assistant message read, and the slot free. *)
RunEnds(f) ==
  /\ loop[f] \in {"decided", "stopped", "failed"}
  /\ Finish(f)
  /\ UNCHANGED promptVars

HandleRequest(c) ==
  \/ RequestBegins(c) \/ CleanupReads(c) \/ CleanupRemoves(c) \/ CleanupEnds(c)
  \/ Creates(c) \/ Saves(c) \/ RequestsCompaction(c) \/ Fills(c) \/ NoReply(c) \/ Loops(c)
  \/ Cancels(c)
  \/ RevertChecks(c) \/ RevertReads(c) \/ SetsRevert(c) \/ ClearsRevert(c)

RunLoop(f) ==
  \/ LoopExits(f) \/ LoopCompacts(f) \/ LoopOverflows(f) \/ LoopPrepares(f)
  \/ ReplyStarts(f) \/ SummaryStarts(f) \/ ReplyEnds(f) \/ SummaryFails(f)
  \/ SummaryEnds(f) \/ Replays(f) \/ CreatesCompaction(f) \/ LoopFills(f) \/ LoopFails(f)
  \/ LoopInterrupted(f) \/ RunEnds(f)

PromptNext == \E c \in Ops : HandleRequest(c) \/ RunLoop(c)

PromptSpec == PromptInit /\ [][PromptNext]_vars
-------------------------------------------------------------------------------
(* "prompt submitted during an active run is included in the next LLM      *)
(* input": when a run ends because it has nothing left to answer, each     *)
(* prompt that started or joined it was in the input for a reply.  (Where  *)
(* no other run was before, so that none other can have taken the prompt,  *)
(* and nothing is compacted.)                                              *)
SubmittedIncluded ==
  [][\A f \in Ops :
       /\ loop[f] = "decided" /\ phase[f] = "active" /\ phase'[f] = "finished"
       /\ \A r \in Ops : r # f => phase[r] = "new"
       /\ \A i \in Saved : msgs[i].role # "summary"
       => \A c \in Ops : role[c] = "user" /\ stage[c] = "over" /\ mine[c] \in Saved
                         => mine[c] \in shown]_vars

(* What of that is true: when a run decides that nothing is left to answer *)
(* (prompt.ts 1114-1133), each user message it has just read with all its  *)
(* parts was in the input for a reply, of this run or another.  There are  *)
(* two exceptions: a message whose parts were complete only when a run had *)
(* answered it or a later message, or was about to (Late), and one that a  *)
(* compaction took for part of the history (SummaryStarts).  And what is   *)
(* saved after that last read is not promised anything.                    *)
ReadIncluded ==
  [][\A f \in Ops :
       loop[f] # "decided" /\ loop'[f] = "decided" => task'[f].sees \subseteq shown \cup passed]_vars

(* The runs that a cancel has detached. *)
Detached == {f \in Ops : phase[f] = "cancelled"}

(* A cleanup has removed message k. *)
Removed(k) == k <= clock /\ k \notin Saved /\ \A c \in Ops : stage[c] = "save" => mine[c] # k

(* A user message that has its final answer, even a failed one, is not     *)
(* answered again: one run at a time looks for the next message to answer, *)
(* and it sees what those before have answered.  (prompt.ts 1114-1133.)    *)
(* Only a run that a cancel has already detached, and a cleanup that       *)
(* removes messages under a run, can make the loop answer a message again. *)
AnsweredOnce ==
  \A i, j \in Assistants :
    i < j /\ msgs[i].finish \in Final /\ msgs[j].parent = msgs[i].parent
    => \E k \in (msgs[i].parent + 1)..j : Removed(k) \/ (k >= i /\ msgs[k].by \in Detached)

(* Of two prompts that come after one revert, the second removes nothing   *)
(* the first has saved, although it cleans up by what it read before.      *)
(* (revert.ts 101-124.)  A point inside a message is the exception: the    *)
(* message stays, and what follows it is removed again.                    *)
CleanupSpares ==
  [][\A c, d \in Ops :
       /\ stage[c] = "cleanup" /\ stage'[c] = "remove"
       /\ stage[d] \in {"fill", "loop", "quiet", "over"} /\ known[d] = known[c] /\ ~known[c].keep
       => mine[d] \notin gone'[c]]_vars
===============================================================================
