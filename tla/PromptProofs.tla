---------------------------- MODULE PromptProofs ----------------------------
(* Theorems about SessionPrompt, for any number of requests and messages.  *)
EXTENDS SessionPrompt, TLAPS, WellFoundedInduction

Roles == {"none", "bare", "user", "reply", "summary"} \cup Requests

MessageRecords ==
  [role : Roles, parent : Nat, finish : {"none", "tools"} \cup Final, by : Ops \cup {NoOp}]

Stages ==
  {"new", "cleanup", "remove", "create", "save", "fill", "loop", "quiet", "over", "revert", "restore", "unrevert"}

Working ==
  {"top", "prepare", "summarize", "overflow", "model", "summary", "continue", "replay", "request"}

Points == [id : Nat, keep : BOOLEAN]

TaskRecords == [parent : Nat, sees : SUBSET Messages, id : Nat, auto : BOOLEAN]

MessageTypes ==
  /\ clock \in Nat
  /\ msgs \in [Messages -> MessageRecords]
  /\ shown \subseteq Messages

RequestTypes ==
  /\ stage \in [Ops -> Stages]
  /\ mine \in [Ops -> Nat]
  /\ role \in [Ops -> {"none", "user"} \cup Requests]
  /\ gone \in [Ops -> SUBSET Messages]
  /\ \A c \in Ops : stage[c] \in {"save", "fill"} => role[c] # "none"

PointTypes ==
  /\ point \in Points
  /\ known \in [Ops -> Points]

RunTypes ==
  /\ phase \in [Ops -> Phases]
  /\ slot \in [Ops -> Objs \cup {NoOp}]
  /\ loop \in [Ops -> Working \cup {"none", "decided", "stopped", "failed", "interrupted"}]

TaskTypes == task \in [Ops -> TaskRecords]

PromptTypeOK == MessageTypes /\ RequestTypes /\ PointTypes /\ RunTypes /\ TaskTypes

(* Run f is active, about to name an assistant message, or writing one. *)
Active(f) == phase[f] = "active"
Planning(f) == loop[f] \in {"prepare", "summarize"}
Writing(f) == loop[f] \in {"model", "summary"}
(* Run f, or request c, still holds the name k and will save it. *)
Writes(f, k) == Writing(f) /\ task[f].id = k
Pends(c, k) == stage[c] = "save" /\ mine[c] = k

(* One run is active; what a cancel has detached may still be at work. *)
OneRun ==
  /\ \A f \in Ops : phase[f] # "queued"
  /\ \A f \in Ops : loop[f] \in Working => phase[f] \in {"active", "cancelled"}
  /\ \A f \in Ops : Active(f) => slot[f] \in Objs
  /\ \A f, g \in Ops : Active(f) /\ Active(g) => f = g

(* Every name that somebody is about to save is his alone. *)
NamesApart ==
  /\ clock <= MaxMessages
  /\ \A i \in Saved : i <= clock
  /\ \A c \in Ops : stage[c] = "save" => mine[c] \in 1..clock /\ mine[c] \notin Saved
  /\ \A c, d \in Ops : stage[c] = "save" /\ stage[d] = "save" /\ c # d => mine[c] # mine[d]
  /\ \A f \in Ops : Writing(f) => task[f].id \in 1..clock /\ task[f].id \notin UserMessages
  /\ \A f, c \in Ops : Writing(f) /\ stage[c] = "save" => task[f].id # mine[c]
  /\ \A f, g \in Ops : Writing(f) /\ Writing(g) /\ f # g => task[f].id # task[g].id

(* Nobody holds the name k. *)
Unwritten(k) ==
  /\ \A c \in Ops : ~Pends(c, k)
  /\ \A f \in Ops : ~Writes(f, k)

(* A point that removes its message names one that was saved for good. *)
Settled(p) == p.keep \/ (p.id <= clock /\ Unwritten(p.id))

(* A request that has cleaned up has removed the message of its point.     *)
PointsStand ==
  /\ Settled(point)
  /\ \A c \in Ops : Settled(known[c])
  /\ \A c \in Ops : stage[c] \notin {"save", "fill", "loop", "quiet", "over"} => mine[c] = 0
  /\ \A c \in Ops : stage[c] = "remove" => known[c].keep \/ known[c].id \notin Saved \/ known[c].id \in gone[c]
  /\ \A c \in Ops : stage[c] \in {"create", "save", "fill", "loop"} \/ mine[c] # 0 => known[c].keep \/ known[c].id \notin Saved

(* Message k was named, is not there, and never will be. *)
Lost(k) == k \in 1..clock /\ k \notin Saved /\ Unwritten(k)

(* A user message, or one that was. *)
Asked(q) == q \in 1..clock /\ (q \in UserMessages \/ Lost(q))

(* Every answer, saved or planned, comes after what it answers. *)
Parented ==
  /\ \A i \in Assistants : msgs[i].parent < i /\ Asked(msgs[i].parent)
  /\ \A f \in Ops : Planning(f) \/ Writing(f) => Asked(task[f].parent)
  /\ \A f \in Ops : Writing(f) => task[f].parent < task[f].id

(* While the active run writes, only detached ones have written later ones. *)
Later ==
  \A f \in Ops : Writing(f) /\ Active(f) =>
    \A i \in Assistants : i > task[f].id => msgs[i].by \in Detached

(* Message k was removed, or a detached run wrote it, and the active run   *)
(* does not hold it: this remains so.                                      *)
Spent(k) ==
  /\ Removed(k) \/ (k \in Assistants /\ msgs[k].by \in Detached)
  /\ \A f \in Ops : Active(f) => ~Writes(f, k)

(* What AnsweredOnce excuses, of an answer i to p and a later message l,   *)
(* in a form that every step keeps.                                        *)
Exempt(p, i, l) == \E k \in (p + 1)..l : Lost(k) \/ (k >= i /\ Spent(k))

(* A message l for q may come after the answer i to p: q comes after p, or *)
(* there is an excuse.                                                     *)
Follows(p, i, q, l) == q <= p => Exempt(p, i, l) \/ (q # p /\ Lost(p))

Answers == {i \in Assistants : msgs[i].finish \in Final}

(* Once a message has its final answer, what is saved, written or planned  *)
(* after that is for later messages.                                       *)
Forward ==
  /\ \A i \in Answers : \A l \in Assistants : i < l => Follows(msgs[i].parent, i, msgs[l].parent, l)
  /\ \A f \in Ops : Writing(f) /\ Active(f) =>
       \A i \in Answers : i < task[f].id => Follows(msgs[i].parent, i, task[f].parent, task[f].id)
  /\ \A f \in Ops : Planning(f) /\ Active(f) =>
       \A i \in Answers : Follows(msgs[i].parent, i, task[f].parent, clock)

(* Whoever answers message m or a later one has shown it to the model, or  *)
(* has it in what he is about to show.                                     *)
Included(m) ==
  /\ \A i \in Assistants : msgs[i].parent >= m => m \in shown
  /\ \A f \in Ops : Writing(f) /\ task[f].parent >= m => m \in shown
  /\ \A f \in Ops : Planning(f) /\ task[f].parent >= m => m \in task[f].sees \cup shown

Inputs == \A m \in Complete \ passed : Included(m)

PromptInv == PromptTypeOK /\ OneRun /\ NamesApart /\ PointsStand /\ Parented /\ Later /\ Forward /\ Inputs
-------------------------------------------------------------------------------
(* A nonempty set of naturals has a least element. *)
LEMMA LeastElement ==
  ASSUME NEW S \in SUBSET Nat, S # {}
  PROVE  \E m \in S : \A x \in S : m <= x
<1> DEFINE R == OpToRel(<, Nat)
<1>1. IsWellFoundedOn(R, Nat)
  BY NatLessThanWellFounded
<1>2. R = {ss \in Nat \X Nat : ss[1] < ss[2]}
  BY DEF OpToRel
<1> HIDE DEF R
<1>3. \E m \in S : \A x \in S : ~(<<x, m>> \in R)
  BY <1>1, WFMin
<1>4. \A x, m \in Nat : x < m => <<x, m>> \in R
  BY <1>2
<1>5. PICK m \in S : \A x \in S : ~(<<x, m>> \in R)
  BY <1>3
<1>6. ASSUME NEW x \in S PROVE m <= x
  <2>1. x \in Nat /\ m \in Nat
    OBVIOUS
  <2>2. ~(x < m)
    BY <1>4, <1>5, <2>1
  <2> QED
    BY <2>1, <2>2
<1> QED
  BY <1>6

(* Min picks the least element of a nonempty set of messages, ... *)
LEMMA MinOfSome ==
  ASSUME NEW S \in SUBSET Messages, S # {}
  PROVE  Min(S) \in S
<1>1. PICK m \in S : \A x \in S : m <= x
  BY LeastElement DEF Messages
<1> QED
  BY <1>1 DEF Min

(* ... and Latest the greatest, or 0 if there is none. *)
LEMMA LatestOfSome ==
  ASSUME NEW S \in SUBSET Messages
  PROVE  /\ S = {} => Latest(S) = 0
         /\ S # {} => Latest(S) \in S
         /\ \A x \in S : x <= Latest(S)
<1> USE PromptAssumption DEF Messages
<1> DEFINE B == {MaxMessages - x : x \in S}
<1>1. B \in SUBSET Nat
  OBVIOUS
<1>2. CASE S # {}
  <2>1. B # {}
    BY <1>2
  <2>2. PICK b \in B : \A y \in B : b <= y
    BY <1>1, <2>1, LeastElement
  <2>3. PICK m \in S : b = MaxMessages - m
    OBVIOUS
  <2>4. \A x \in S : x <= m
    BY <2>2, <2>3
  <2>5. Max(S) \in S /\ \A x \in S : Max(S) >= x
    BY <2>4 DEF Max
  <2> QED
    BY <1>2, <2>5 DEF Latest
<1> QED
  BY <1>2 DEF Latest

(* What a loop reads is named. *)
LEMMA LoopReads ==
  ASSUME PromptTypeOK
  PROVE  /\ LastUser \in Nat
         /\ LastUser # 0 => LastUser \in Visible \cap UserMessages
         /\ \A i \in Visible \cap UserMessages : i <= LastUser
         /\ LastAssistant # 0 => LastAssistant \in Visible \cap Assistants
         /\ \A i \in Visible \cap Assistants : i <= LastAssistant
         /\ Visible \subseteq Messages
<1>1. Visible \subseteq Messages
  BY DEF Visible, Saved
<1>2. Visible \cap UserMessages \in SUBSET Messages /\ Visible \cap Assistants \in SUBSET Messages
  BY <1>1
<1> QED
  BY <1>1, <1>2, LatestOfSome DEF LastUser, LastAssistant, Messages

(* What the requests and the runs save is a message, ... *)
LEMMA UserTyped ==
  ASSUME NEW r \in {"bare", "user"} \cup Requests
  PROVE  UserMessage(r) \in MessageRecords
BY DEF UserMessage, Absent, MessageRecords, Roles, Requests

(* whoever holds it, ... *)
LEMMA HeldTyped ==
  ASSUME TaskTypes, NEW c \in Ops, NEW e \in {"none", "tools"} \cup Final
  PROVE  /\ Held(c, e) \in MessageRecords
         /\ Held(c, e).role \in {"reply", "summary"}
         /\ Held(c, e).by = c /\ Held(c, e).parent = task[c].parent /\ Held(c, e).finish = e
BY DEF Held, TaskTypes, TaskRecords, MessageRecords, Roles

(* ... and what a run reads makes a task. *)
LEMMA TaskTyped ==
  ASSUME PromptTypeOK, NEW c \in Ops
  PROVE  /\ \A auto \in BOOLEAN : TaskOf(c, auto) \in TaskRecords
         /\ \A n \in Nat : [task[c] EXCEPT !.id = n] \in TaskRecords
<1>1. LastUser \in Nat /\ Visible \cap Complete \in SUBSET Messages
  BY LoopReads
<1> QED
  BY <1>1 DEF TaskOf, PromptTypeOK, TaskTypes, TaskRecords

(* When the parts of a message are complete, it is a prompt or a request.  *)
LEMMA FillsTold ==
  ASSUME PromptTypeOK, NEW c \in Ops, Fills(c) \/ LoopFills(c)
  PROVE  /\ UNCHANGED <<slotVars, clock, shown, point, mine, role, known, gone, task>>
         /\ passed \subseteq passed' /\ msgs' \in [Messages -> MessageRecords]
         /\ Saved' = Saved /\ UserMessages' = UserMessages
         /\ \A k \in Messages :
              \/ msgs'[k] = msgs[k]
              \/ k \in UserMessages /\ msgs'[k].role \in {"user"} \cup Requests /\ (k \in passed' \/ ~Late(k))
<1>1. \E m \in Nat, r \in {"user"} \cup Requests : Fill(m, r)
  <2>1. CASE Fills(c)
    <3>1. mine[c] \in Nat /\ role[c] \in {"user"} \cup Requests /\ Fill(mine[c], role[c])
      BY <2>1 DEF Fills, StageGoto, PromptTypeOK, RequestTypes
    <3> QED
      BY <3>1
  <2>2. CASE LoopFills(c)
    <3>1. task[c].id \in Nat
      BY DEF PromptTypeOK, TaskTypes, TaskRecords
    <3> QED
      BY <2>2, <3>1 DEF LoopFills, Requests
  <2> QED
    BY <2>1, <2>2
<1>2. PICK m \in Nat, r \in {"user"} \cup Requests : Fill(m, r)
  BY <1>1
<1>3. /\ passed \subseteq passed'
      /\ msgs' = msgs \/ (msgs[m].role = "bare" /\ msgs' = [msgs EXCEPT ![m] = UserMessage(r)])
      /\ msgs' = msgs \/ m \in passed' \/ ~Late(m)
  BY <1>2 DEF Fill, Save
<1>4. UserMessage(r) \in MessageRecords /\ UserMessage(r).role = r
  BY UserTyped DEF UserMessage, Absent
<1>5. msgs' \in [Messages -> MessageRecords]
  BY <1>3, <1>4 DEF PromptTypeOK, MessageTypes
<1>6. \A k \in Messages : msgs'[k] = msgs[k] \/ (k = m /\ msgs[k].role = "bare" /\ msgs'[k].role = r /\ (m \in passed' \/ ~Late(m)))
  BY <1>3, <1>4 DEF PromptTypeOK, MessageTypes
<1>7. UNCHANGED <<slotVars, clock, shown, point, mine, role, known, gone, task>>
  BY DEF Fills, LoopFills, requestVars, loopVars
<1> QED
  BY <1>3, <1>5, <1>6, <1>7 DEF Saved, UserMessages, Requests

(* Every step keeps the types of the requests. *)
LEMMA RequestTypesKept ==
  ASSUME PromptTypeOK, NEW c \in Ops, HandleRequest(c) \/ RunLoop(c)
  PROVE  RequestTypes'
<1> USE PromptAssumption DEF RequestTypes, PromptTypeOK, Stages, Messages, Requests, Saved, Reverted
<1>1. CASE RequestBegins(c)
  BY <1>1 DEF RequestBegins, StageGoto, loopVars, dbVars
<1>2. CASE CleanupReads(c)
  BY <1>2 DEF CleanupReads, StageGoto, loopVars, dbVars
<1>3. CASE CleanupRemoves(c)
  BY <1>3 DEF CleanupRemoves, Save, loopVars
<1>4. CASE CleanupEnds(c)
  BY <1>4 DEF CleanupEnds, StageGoto, loopVars, dbVars
<1>5. CASE Creates(c)
  BY <1>5 DEF Creates, StageGoto, loopVars, dbVars, Named, MessageTypes
<1>6. CASE Saves(c)
  BY <1>6 DEF Saves, StageGoto, Save, loopVars
<1>7. CASE RequestsCompaction(c)
  BY <1>7 DEF RequestsCompaction, SaveBare, StageGoto, Save, Named, loopVars, MessageTypes
<1>8. CASE Fills(c)
  BY <1>8, FillsTold DEF Fills, StageGoto, loopVars
<1>9. CASE NoReply(c)
  BY <1>9 DEF NoReply, StageGoto, loopVars, dbVars
<1>10. CASE Loops(c)
  BY <1>10 DEF Loops, StageGoto, dbVars, Start, In
<1>11. CASE Cancels(c)
  BY <1>11 DEF Cancels, StageGoto, loopVars, dbVars, CancelSlot, In
<1>12. CASE RevertChecks(c)
  BY <1>12 DEF RevertChecks, StageGoto, loopVars, dbVars
<1>13. CASE RevertReads(c)
  BY <1>13 DEF RevertReads, StageGoto, loopVars, dbVars
<1>14. CASE SetsRevert(c)
  BY <1>14 DEF SetsRevert, StageGoto, loopVars, dbVars
<1>15. CASE ClearsRevert(c)
  BY <1>15 DEF ClearsRevert, StageGoto, loopVars, dbVars
<1>16. CASE LoopExits(c)
  BY <1>16 DEF LoopExits, LoopGoto, dbVars, requestVars, TaskOf
<1>17. CASE LoopCompacts(c)
  BY <1>17 DEF LoopCompacts, LoopGoto, dbVars, requestVars, TaskOf
<1>18. CASE LoopOverflows(c)
  BY <1>18 DEF LoopOverflows, LoopGoto, dbVars, requestVars, TaskOf
<1>19. CASE LoopPrepares(c)
  BY <1>19 DEF LoopPrepares, LoopGoto, dbVars, requestVars, TaskOf
<1>20. CASE ReplyStarts(c)
  BY <1>20 DEF ReplyStarts, LoopGoto, requestVars, Starts, Named, Save, Held
<1>21. CASE SummaryStarts(c)
  BY <1>21 DEF SummaryStarts, LoopGoto, requestVars, Starts, Named, Save, Held
<1>22. CASE ReplyEnds(c)
  BY <1>22 DEF ReplyEnds, LoopGoto, requestVars, Save, Held
<1>23. CASE SummaryFails(c)
  BY <1>23 DEF SummaryFails, LoopGoto, requestVars, Save, Held
<1>24. CASE SummaryEnds(c)
  BY <1>24 DEF SummaryEnds, LoopGoto, requestVars, Save, Held
<1>25. CASE Replays(c)
  BY <1>25 DEF Replays, SaveBare, LoopGoto, requestVars, Save, Named
<1>26. CASE CreatesCompaction(c)
  BY <1>26 DEF CreatesCompaction, SaveBare, LoopGoto, requestVars, Save, Named
<1>27. CASE LoopFills(c)
  BY <1>27, FillsTold DEF LoopFills, LoopGoto, requestVars
<1>28. CASE LoopFails(c)
  BY <1>28 DEF LoopFails, LoopGoto, dbVars, requestVars
<1>29. CASE LoopInterrupted(c)
  BY <1>29 DEF LoopInterrupted, LoopGoto, requestVars, Save, Held
<1>30. CASE RunEnds(c)
  BY <1>30 DEF RunEnds, Finish, In, promptVars, dbVars, requestVars, loopVars
<1> QED
  BY <1>1, <1>2, <1>3, <1>4, <1>5, <1>6, <1>7, <1>8, <1>9, <1>10, <1>11, <1>12, <1>13, <1>14, <1>15, <1>16, <1>17, <1>18, <1>19, <1>20, <1>21, <1>22, <1>23, <1>24, <1>25, <1>26, <1>27, <1>28, <1>29, <1>30 DEF HandleRequest, RunLoop

(* Every step keeps the types of the points. *)
LEMMA PointTypesKept ==
  ASSUME PromptTypeOK, NEW c \in Ops, HandleRequest(c) \/ RunLoop(c)
  PROVE  PointTypes'
<1> USE PromptAssumption DEF PointTypes, PromptTypeOK, Points, NoPoint
<1>1. CASE RequestBegins(c)
  BY <1>1 DEF RequestBegins, StageGoto, loopVars, dbVars
<1>2. CASE CleanupReads(c)
  BY <1>2 DEF CleanupReads, StageGoto, loopVars, dbVars
<1>3. CASE CleanupRemoves(c)
  BY <1>3 DEF CleanupRemoves, Save, loopVars
<1>4. CASE CleanupEnds(c)
  BY <1>4 DEF CleanupEnds, StageGoto, loopVars, dbVars
<1>5. CASE Creates(c)
  BY <1>5 DEF Creates, StageGoto, loopVars, dbVars, Named
<1>6. CASE Saves(c)
  BY <1>6 DEF Saves, StageGoto, Save, loopVars
<1>7. CASE RequestsCompaction(c)
  BY <1>7 DEF RequestsCompaction, SaveBare, StageGoto, Save, Named, loopVars
<1>8. CASE Fills(c)
  BY <1>8, FillsTold DEF Fills, StageGoto, loopVars
<1>9. CASE NoReply(c)
  BY <1>9 DEF NoReply, StageGoto, loopVars, dbVars
<1>10. CASE Loops(c)
  BY <1>10 DEF Loops, StageGoto, dbVars, Start, In
<1>11. CASE Cancels(c)
  BY <1>11 DEF Cancels, StageGoto, loopVars, dbVars, CancelSlot, In
<1>12. CASE RevertChecks(c)
  BY <1>12 DEF RevertChecks, StageGoto, loopVars, dbVars
<1>13. CASE RevertReads(c)
  BY <1>13 DEF RevertReads, StageGoto, loopVars, dbVars, Saved, Messages
<1>14. CASE SetsRevert(c)
  BY <1>14 DEF SetsRevert, StageGoto, loopVars, dbVars
<1>15. CASE ClearsRevert(c)
  BY <1>15 DEF ClearsRevert, StageGoto, loopVars, dbVars
<1>16. CASE LoopExits(c)
  BY <1>16 DEF LoopExits, LoopGoto, dbVars, requestVars, TaskOf
<1>17. CASE LoopCompacts(c)
  BY <1>17 DEF LoopCompacts, LoopGoto, dbVars, requestVars, TaskOf
<1>18. CASE LoopOverflows(c)
  BY <1>18 DEF LoopOverflows, LoopGoto, dbVars, requestVars, TaskOf
<1>19. CASE LoopPrepares(c)
  BY <1>19 DEF LoopPrepares, LoopGoto, dbVars, requestVars, TaskOf
<1>20. CASE ReplyStarts(c)
  BY <1>20 DEF ReplyStarts, LoopGoto, requestVars, Starts, Named, Save, Held
<1>21. CASE SummaryStarts(c)
  BY <1>21 DEF SummaryStarts, LoopGoto, requestVars, Starts, Named, Save, Held
<1>22. CASE ReplyEnds(c)
  BY <1>22 DEF ReplyEnds, LoopGoto, requestVars, Save, Held
<1>23. CASE SummaryFails(c)
  BY <1>23 DEF SummaryFails, LoopGoto, requestVars, Save, Held
<1>24. CASE SummaryEnds(c)
  BY <1>24 DEF SummaryEnds, LoopGoto, requestVars, Save, Held
<1>25. CASE Replays(c)
  BY <1>25 DEF Replays, SaveBare, LoopGoto, requestVars, Save, Named
<1>26. CASE CreatesCompaction(c)
  BY <1>26 DEF CreatesCompaction, SaveBare, LoopGoto, requestVars, Save, Named
<1>27. CASE LoopFills(c)
  BY <1>27, FillsTold DEF LoopFills, LoopGoto, requestVars
<1>28. CASE LoopFails(c)
  BY <1>28 DEF LoopFails, LoopGoto, dbVars, requestVars
<1>29. CASE LoopInterrupted(c)
  BY <1>29 DEF LoopInterrupted, LoopGoto, requestVars, Save, Held
<1>30. CASE RunEnds(c)
  BY <1>30 DEF RunEnds, Finish, In, promptVars, dbVars, requestVars, loopVars
<1> QED
  BY <1>1, <1>2, <1>3, <1>4, <1>5, <1>6, <1>7, <1>8, <1>9, <1>10, <1>11, <1>12, <1>13, <1>14, <1>15, <1>16, <1>17, <1>18, <1>19, <1>20, <1>21, <1>22, <1>23, <1>24, <1>25, <1>26, <1>27, <1>28, <1>29, <1>30 DEF HandleRequest, RunLoop

(* Every step keeps the types of the runs. *)
LEMMA RunTypesKept ==
  ASSUME PromptTypeOK, NEW c \in Ops, HandleRequest(c) \/ RunLoop(c)
  PROVE  RunTypes'
<1> USE PromptAssumption DEF RunTypes, PromptTypeOK, Phases, Working, slotVars
<1>1. CASE RequestBegins(c)
  BY <1>1 DEF RequestBegins, StageGoto, loopVars, dbVars
<1>2. CASE CleanupReads(c)
  BY <1>2 DEF CleanupReads, StageGoto, loopVars, dbVars
<1>3. CASE CleanupRemoves(c)
  BY <1>3 DEF CleanupRemoves, Save, loopVars
<1>4. CASE CleanupEnds(c)
  BY <1>4 DEF CleanupEnds, StageGoto, loopVars, dbVars
<1>5. CASE Creates(c)
  BY <1>5 DEF Creates, StageGoto, loopVars, dbVars, Named
<1>6. CASE Saves(c)
  BY <1>6 DEF Saves, StageGoto, Save, loopVars
<1>7. CASE RequestsCompaction(c)
  BY <1>7 DEF RequestsCompaction, SaveBare, StageGoto, Save, Named, loopVars
<1>8. CASE Fills(c)
  BY <1>8, FillsTold DEF Fills, StageGoto, loopVars
<1>9. CASE NoReply(c)
  BY <1>9 DEF NoReply, StageGoto, loopVars, dbVars
<1>10. CASE Loops(c)
  BY <1>10 DEF Loops, StageGoto, dbVars, Start, In
<1>11. CASE Cancels(c)
  BY <1>11 DEF Cancels, StageGoto, loopVars, dbVars, CancelSlot, In
<1>12. CASE RevertChecks(c)
  BY <1>12 DEF RevertChecks, StageGoto, loopVars, dbVars
<1>13. CASE RevertReads(c)
  BY <1>13 DEF RevertReads, StageGoto, loopVars, dbVars
<1>14. CASE SetsRevert(c)
  BY <1>14 DEF SetsRevert, StageGoto, loopVars, dbVars
<1>15. CASE ClearsRevert(c)
  BY <1>15 DEF ClearsRevert, StageGoto, loopVars, dbVars
<1>16. CASE LoopExits(c)
  BY <1>16 DEF LoopExits, LoopGoto, dbVars, requestVars, TaskOf
<1>17. CASE LoopCompacts(c)
  BY <1>17 DEF LoopCompacts, LoopGoto, dbVars, requestVars, TaskOf
<1>18. CASE LoopOverflows(c)
  BY <1>18 DEF LoopOverflows, LoopGoto, dbVars, requestVars, TaskOf
<1>19. CASE LoopPrepares(c)
  BY <1>19 DEF LoopPrepares, LoopGoto, dbVars, requestVars, TaskOf
<1>20. CASE ReplyStarts(c)
  BY <1>20 DEF ReplyStarts, LoopGoto, requestVars, Starts, Named, Save, Held
<1>21. CASE SummaryStarts(c)
  BY <1>21 DEF SummaryStarts, LoopGoto, requestVars, Starts, Named, Save, Held
<1>22. CASE ReplyEnds(c)
  BY <1>22 DEF ReplyEnds, LoopGoto, requestVars, Save, Held
<1>23. CASE SummaryFails(c)
  BY <1>23 DEF SummaryFails, LoopGoto, requestVars, Save, Held
<1>24. CASE SummaryEnds(c)
  BY <1>24 DEF SummaryEnds, LoopGoto, requestVars, Save, Held
<1>25. CASE Replays(c)
  BY <1>25 DEF Replays, SaveBare, LoopGoto, requestVars, Save, Named
<1>26. CASE CreatesCompaction(c)
  BY <1>26 DEF CreatesCompaction, SaveBare, LoopGoto, requestVars, Save, Named
<1>27. CASE LoopFills(c)
  BY <1>27, FillsTold DEF LoopFills, LoopGoto, requestVars
<1>28. CASE LoopFails(c)
  BY <1>28 DEF LoopFails, LoopGoto, dbVars, requestVars
<1>29. CASE LoopInterrupted(c)
  BY <1>29 DEF LoopInterrupted, LoopGoto, requestVars, Save, Held
<1>30. CASE RunEnds(c)
  BY <1>30 DEF RunEnds, Finish, In, promptVars, dbVars, requestVars, loopVars
<1> QED
  BY <1>1, <1>2, <1>3, <1>4, <1>5, <1>6, <1>7, <1>8, <1>9, <1>10, <1>11, <1>12, <1>13, <1>14, <1>15, <1>16, <1>17, <1>18, <1>19, <1>20, <1>21, <1>22, <1>23, <1>24, <1>25, <1>26, <1>27, <1>28, <1>29, <1>30 DEF HandleRequest, RunLoop

(* Every step keeps the types of the tasks. *)
LEMMA TaskTypesKept ==
  ASSUME PromptTypeOK, NEW c \in Ops, HandleRequest(c) \/ RunLoop(c)
  PROVE  TaskTypes'
<1> USE PromptAssumption DEF TaskTypes, PromptTypeOK, TaskRecords, Messages
<1>1. CASE RequestBegins(c)
  BY <1>1 DEF RequestBegins, StageGoto, loopVars, dbVars
<1>2. CASE CleanupReads(c)
  BY <1>2 DEF CleanupReads, StageGoto, loopVars, dbVars
<1>3. CASE CleanupRemoves(c)
  BY <1>3 DEF CleanupRemoves, Save, loopVars
<1>4. CASE CleanupEnds(c)
  BY <1>4 DEF CleanupEnds, StageGoto, loopVars, dbVars
<1>5. CASE Creates(c)
  BY <1>5 DEF Creates, StageGoto, loopVars, dbVars, Named
<1>6. CASE Saves(c)
  BY <1>6 DEF Saves, StageGoto, Save, loopVars
<1>7. CASE RequestsCompaction(c)
  BY <1>7 DEF RequestsCompaction, SaveBare, StageGoto, Save, Named, loopVars
<1>8. CASE Fills(c)
  BY <1>8, FillsTold DEF Fills, StageGoto, loopVars
<1>9. CASE NoReply(c)
  BY <1>9 DEF NoReply, StageGoto, loopVars, dbVars
<1>10. CASE Loops(c)
  BY <1>10 DEF Loops, StageGoto, dbVars, Start, In
<1>11. CASE Cancels(c)
  BY <1>11 DEF Cancels, StageGoto, loopVars, dbVars, CancelSlot, In
<1>12. CASE RevertChecks(c)
  BY <1>12 DEF RevertChecks, StageGoto, loopVars, dbVars
<1>13. CASE RevertReads(c)
  BY <1>13 DEF RevertReads, StageGoto, loopVars, dbVars
<1>14. CASE SetsRevert(c)
  BY <1>14 DEF SetsRevert, StageGoto, loopVars, dbVars
<1>15. CASE ClearsRevert(c)
  BY <1>15 DEF ClearsRevert, StageGoto, loopVars, dbVars
<1>16. CASE LoopExits(c)
  BY <1>16, TaskTyped DEF LoopExits
<1>17. CASE LoopCompacts(c)
  BY <1>17, TaskTyped DEF LoopCompacts
<1>18. CASE LoopOverflows(c)
  BY <1>18, TaskTyped DEF LoopOverflows
<1>19. CASE LoopPrepares(c)
  BY <1>19, TaskTyped DEF LoopPrepares
<1>20. CASE ReplyStarts(c)
  <2>1. clock' = clock + 1 /\ task' = [task EXCEPT ![c] = [task[c] EXCEPT !.id = clock']]
    BY <1>20 DEF ReplyStarts, Starts, Named, TaskTypes
  <2>2. [task[c] EXCEPT !.id = clock'] \in TaskRecords
    BY <2>1, TaskTyped DEF MessageTypes
  <2> QED
    BY <2>1, <2>2
<1>21. CASE SummaryStarts(c)
  <2>1. clock' = clock + 1 /\ task' = [task EXCEPT ![c] = [task[c] EXCEPT !.id = clock']]
    BY <1>21 DEF SummaryStarts, Starts, Named, TaskTypes
  <2>2. [task[c] EXCEPT !.id = clock'] \in TaskRecords
    BY <2>1, TaskTyped DEF MessageTypes
  <2> QED
    BY <2>1, <2>2
<1>22. CASE ReplyEnds(c)
  BY <1>22 DEF ReplyEnds, LoopGoto, requestVars, Save, Held
<1>23. CASE SummaryFails(c)
  BY <1>23 DEF SummaryFails, LoopGoto, requestVars, Save, Held
<1>24. CASE SummaryEnds(c)
  BY <1>24 DEF SummaryEnds, LoopGoto, requestVars, Save, Held
<1>25. CASE Replays(c)
  <2>1. clock' = clock + 1 /\ task' = [task EXCEPT ![c] = [task[c] EXCEPT !.id = clock']]
    BY <1>25 DEF Replays, SaveBare, Named, TaskTypes
  <2>2. [task[c] EXCEPT !.id = clock'] \in TaskRecords
    BY <2>1, TaskTyped DEF MessageTypes
  <2> QED
    BY <2>1, <2>2
<1>26. CASE CreatesCompaction(c)
  <2>1. clock' = clock + 1 /\ task' = [task EXCEPT ![c] = [task[c] EXCEPT !.id = clock']]
    BY <1>26 DEF CreatesCompaction, SaveBare, Named, TaskTypes
  <2>2. [task[c] EXCEPT !.id = clock'] \in TaskRecords
    BY <2>1, TaskTyped DEF MessageTypes
  <2> QED
    BY <2>1, <2>2
<1>27. CASE LoopFills(c)
  BY <1>27, FillsTold DEF LoopFills, LoopGoto, requestVars
<1>28. CASE LoopFails(c)
  BY <1>28 DEF LoopFails, LoopGoto, dbVars, requestVars
<1>29. CASE LoopInterrupted(c)
  BY <1>29 DEF LoopInterrupted, LoopGoto, requestVars, Save, Held
<1>30. CASE RunEnds(c)
  BY <1>30 DEF RunEnds, Finish, In, promptVars, dbVars, requestVars, loopVars
<1> QED
  BY <1>1, <1>2, <1>3, <1>4, <1>5, <1>6, <1>7, <1>8, <1>9, <1>10, <1>11, <1>12, <1>13, <1>14, <1>15, <1>16, <1>17, <1>18, <1>19, <1>20, <1>21, <1>22, <1>23, <1>24, <1>25, <1>26, <1>27, <1>28, <1>29, <1>30 DEF HandleRequest, RunLoop

(* Every step keeps the types of the messages. *)
LEMMA MessageTypesKept ==
  ASSUME PromptTypeOK, NEW c \in Ops, HandleRequest(c) \/ RunLoop(c)
  PROVE  MessageTypes'
<1> USE PromptAssumption DEF MessageTypes, PromptTypeOK, inputVars
<1>1. CASE RequestBegins(c)
  BY <1>1 DEF RequestBegins, StageGoto, loopVars, dbVars
<1>2. CASE CleanupReads(c)
  BY <1>2 DEF CleanupReads, StageGoto, loopVars, dbVars
<1>3. CASE CleanupRemoves(c)
  BY <1>3 DEF CleanupRemoves, Save, loopVars, MessageRecords, Roles, Final, Absent
<1>4. CASE CleanupEnds(c)
  BY <1>4 DEF CleanupEnds, StageGoto, loopVars, dbVars
<1>5. CASE Creates(c)
  BY <1>5 DEF Creates, StageGoto, loopVars, dbVars, Named
<1>6. CASE Saves(c)
  BY <1>6, UserTyped DEF Saves, Save, loopVars
<1>7. CASE RequestsCompaction(c)
  <2>1. clock' = clock + 1 /\ msgs' = [msgs EXCEPT ![clock'] = UserMessage("bare")] /\ shown' = shown
    BY <1>7 DEF RequestsCompaction, SaveBare, Save, Named
  <2>2. UserMessage("bare") \in MessageRecords
    BY UserTyped
  <2>3. msgs' \in [Messages -> MessageRecords]
    BY <2>1, <2>2
  <2>4. clock' \in Nat
    BY <2>1
  <2> QED
    BY <2>1, <2>3, <2>4
<1>8. CASE Fills(c)
  BY <1>8, FillsTold DEF Fills, StageGoto, loopVars
<1>9. CASE NoReply(c)
  BY <1>9 DEF NoReply, StageGoto, loopVars, dbVars
<1>10. CASE Loops(c)
  BY <1>10 DEF Loops, StageGoto, dbVars, Start, In
<1>11. CASE Cancels(c)
  BY <1>11 DEF Cancels, StageGoto, loopVars, dbVars, CancelSlot, In
<1>12. CASE RevertChecks(c)
  BY <1>12 DEF RevertChecks, StageGoto, loopVars, dbVars
<1>13. CASE RevertReads(c)
  BY <1>13 DEF RevertReads, StageGoto, loopVars, dbVars
<1>14. CASE SetsRevert(c)
  BY <1>14 DEF SetsRevert, StageGoto, loopVars, dbVars
<1>15. CASE ClearsRevert(c)
  BY <1>15 DEF ClearsRevert, StageGoto, loopVars, dbVars
<1>16. CASE LoopExits(c)
  BY <1>16 DEF LoopExits, LoopGoto, dbVars, requestVars, TaskOf
<1>17. CASE LoopCompacts(c)
  BY <1>17 DEF LoopCompacts, LoopGoto, dbVars, requestVars, TaskOf
<1>18. CASE LoopOverflows(c)
  BY <1>18 DEF LoopOverflows, LoopGoto, dbVars, requestVars, TaskOf
<1>19. CASE LoopPrepares(c)
  BY <1>19 DEF LoopPrepares, LoopGoto, dbVars, requestVars, TaskOf
<1>20. CASE ReplyStarts(c)
  <2>1. clock' = clock + 1 /\ msgs' = [msgs EXCEPT ![clock'] = Held(c, "none")]
    BY <1>20 DEF ReplyStarts, Starts, Save, Named
  <2>2. Held(c, "none") \in MessageRecords
    BY HeldTyped
  <2>3. shown' \subseteq Messages
    BY <1>20 DEF ReplyStarts, TaskTypes, TaskRecords
  <2>4. msgs' \in [Messages -> MessageRecords]
    BY <2>1, <2>2
  <2>5. clock' \in Nat
    BY <2>1
  <2> QED
    BY <2>3, <2>4, <2>5
<1>21. CASE SummaryStarts(c)
  <2>1. clock' = clock + 1 /\ msgs' = [msgs EXCEPT ![clock'] = Held(c, "none")]
    BY <1>21 DEF SummaryStarts, Starts, Save, Named
  <2>2. Held(c, "none") \in MessageRecords
    BY HeldTyped
  <2>3. shown' \subseteq Messages
    BY <1>21 DEF SummaryStarts, TaskTypes, TaskRecords
  <2>4. msgs' \in [Messages -> MessageRecords]
    BY <2>1, <2>2
  <2>5. clock' \in Nat
    BY <2>1
  <2> QED
    BY <2>3, <2>4, <2>5
<1>22. CASE ReplyEnds(c)
  <2>1. PICK e \in {"none", "tools", "stop", "failed"} : msgs' = [msgs EXCEPT ![task[c].id] = Held(c, e)]
    BY <1>22 DEF ReplyEnds, Save
  <2>2. clock' = clock /\ shown' = shown
    BY <1>22 DEF ReplyEnds
  <2>3. Held(c, e) \in MessageRecords
    BY HeldTyped DEF Final
  <2> QED
    BY <2>1, <2>2, <2>3
<1>23. CASE SummaryFails(c)
  <2>1. PICK e \in {"none", "failed"} : msgs' = [msgs EXCEPT ![task[c].id] = Held(c, e)]
    BY <1>23 DEF SummaryFails, Save
  <2>2. clock' = clock /\ shown' = shown
    BY <1>23 DEF SummaryFails
  <2>3. Held(c, e) \in MessageRecords
    BY HeldTyped DEF Final
  <2> QED
    BY <2>1, <2>2, <2>3
<1>24. CASE SummaryEnds(c)
  <2>1. PICK e \in {"none", "stop"} : msgs' = [msgs EXCEPT ![task[c].id] = Held(c, e)]
    BY <1>24 DEF SummaryEnds, Save
  <2>2. clock' = clock /\ shown' = shown
    BY <1>24 DEF SummaryEnds
  <2>3. Held(c, e) \in MessageRecords
    BY HeldTyped DEF Final
  <2> QED
    BY <2>1, <2>2, <2>3
<1>25. CASE Replays(c)
  <2>1. clock' = clock + 1 /\ msgs' = [msgs EXCEPT ![clock'] = UserMessage("bare")] /\ shown' = shown
    BY <1>25 DEF Replays, SaveBare, Save, Named
  <2>2. UserMessage("bare") \in MessageRecords
    BY UserTyped
  <2>3. msgs' \in [Messages -> MessageRecords]
    BY <2>1, <2>2
  <2>4. clock' \in Nat
    BY <2>1
  <2> QED
    BY <2>1, <2>3, <2>4
<1>26. CASE CreatesCompaction(c)
  <2>1. clock' = clock + 1 /\ msgs' = [msgs EXCEPT ![clock'] = UserMessage("bare")] /\ shown' = shown
    BY <1>26 DEF CreatesCompaction, SaveBare, Save, Named
  <2>2. UserMessage("bare") \in MessageRecords
    BY UserTyped
  <2>3. msgs' \in [Messages -> MessageRecords]
    BY <2>1, <2>2
  <2>4. clock' \in Nat
    BY <2>1
  <2> QED
    BY <2>1, <2>3, <2>4
<1>27. CASE LoopFills(c)
  BY <1>27, FillsTold DEF LoopFills, LoopGoto, requestVars
<1>28. CASE LoopFails(c)
  BY <1>28 DEF LoopFails, LoopGoto, dbVars, requestVars
<1>29. CASE LoopInterrupted(c)
  BY <1>29, HeldTyped DEF LoopInterrupted, Save, Final
<1>30. CASE RunEnds(c)
  BY <1>30 DEF RunEnds, Finish, In, promptVars, dbVars, requestVars, loopVars
<1> QED
  BY <1>1, <1>2, <1>3, <1>4, <1>5, <1>6, <1>7, <1>8, <1>9, <1>10, <1>11, <1>12, <1>13, <1>14, <1>15, <1>16, <1>17, <1>18, <1>19, <1>20, <1>21, <1>22, <1>23, <1>24, <1>25, <1>26, <1>27, <1>28, <1>29, <1>30 DEF HandleRequest, RunLoop

(* No step starts a second run. *)
LEMMA OneRunKept ==
  ASSUME PromptTypeOK, OneRun, NEW c \in Ops, HandleRequest(c) \/ RunLoop(c)
  PROVE  OneRun'
<1> USE PromptAssumption DEF OneRun, PromptTypeOK, RunTypes, Working, Active, slotVars
<1>1. CASE RequestBegins(c)
  BY <1>1 DEF RequestBegins, StageGoto, loopVars, dbVars
<1>2. CASE CleanupReads(c)
  BY <1>2 DEF CleanupReads, StageGoto, loopVars, dbVars
<1>3. CASE CleanupRemoves(c)
  BY <1>3 DEF CleanupRemoves, Save, loopVars
<1>4. CASE CleanupEnds(c)
  BY <1>4 DEF CleanupEnds, StageGoto, loopVars, dbVars
<1>5. CASE Creates(c)
  BY <1>5 DEF Creates, StageGoto, loopVars, dbVars, Named
<1>6. CASE Saves(c)
  BY <1>6 DEF Saves, StageGoto, Save, loopVars
<1>7. CASE RequestsCompaction(c)
  BY <1>7 DEF RequestsCompaction, SaveBare, StageGoto, Save, Named, loopVars
<1>8. CASE Fills(c)
  BY <1>8, FillsTold DEF Fills, StageGoto, loopVars
<1>9. CASE NoReply(c)
  BY <1>9 DEF NoReply, StageGoto, loopVars, dbVars
<1>10. CASE Loops(c)
  BY <1>10 DEF Loops, StageGoto, dbVars, Start, In
<1>11. CASE Cancels(c)
  BY <1>11 DEF Cancels, StageGoto, loopVars, dbVars, CancelSlot, In
<1>12. CASE RevertChecks(c)
  BY <1>12 DEF RevertChecks, StageGoto, loopVars, dbVars
<1>13. CASE RevertReads(c)
  BY <1>13 DEF RevertReads, StageGoto, loopVars, dbVars
<1>14. CASE SetsRevert(c)
  BY <1>14 DEF SetsRevert, StageGoto, loopVars, dbVars
<1>15. CASE ClearsRevert(c)
  BY <1>15 DEF ClearsRevert, StageGoto, loopVars, dbVars
<1>16. CASE LoopExits(c)
  BY <1>16 DEF LoopExits, LoopGoto, dbVars, requestVars, TaskOf
<1>17. CASE LoopCompacts(c)
  BY <1>17 DEF LoopCompacts, LoopGoto, dbVars, requestVars, TaskOf
<1>18. CASE LoopOverflows(c)
  BY <1>18 DEF LoopOverflows, LoopGoto, dbVars, requestVars, TaskOf
<1>19. CASE LoopPrepares(c)
  BY <1>19 DEF LoopPrepares, LoopGoto, dbVars, requestVars, TaskOf
<1>20. CASE ReplyStarts(c)
  BY <1>20 DEF ReplyStarts, LoopGoto, requestVars, Starts, Named, Save, Held
<1>21. CASE SummaryStarts(c)
  BY <1>21 DEF SummaryStarts, LoopGoto, requestVars, Starts, Named, Save, Held
<1>22. CASE ReplyEnds(c)
  BY <1>22 DEF ReplyEnds, LoopGoto, requestVars, Save, Held
<1>23. CASE SummaryFails(c)
  BY <1>23 DEF SummaryFails, LoopGoto, requestVars, Save, Held
<1>24. CASE SummaryEnds(c)
  BY <1>24 DEF SummaryEnds, LoopGoto, requestVars, Save, Held
<1>25. CASE Replays(c)
  BY <1>25 DEF Replays, SaveBare, LoopGoto, requestVars, Save, Named
<1>26. CASE CreatesCompaction(c)
  BY <1>26 DEF CreatesCompaction, SaveBare, LoopGoto, requestVars, Save, Named
<1>27. CASE LoopFills(c)
  BY <1>27, FillsTold DEF LoopFills, LoopGoto, requestVars
<1>28. CASE LoopFails(c)
  BY <1>28 DEF LoopFails, LoopGoto, dbVars, requestVars
<1>29. CASE LoopInterrupted(c)
  BY <1>29 DEF LoopInterrupted, LoopGoto, requestVars, Save, Held
<1>30. CASE RunEnds(c)
  BY <1>30 DEF RunEnds, Finish, In, promptVars, dbVars, requestVars, loopVars
<1> QED
  BY <1>1, <1>2, <1>3, <1>4, <1>5, <1>6, <1>7, <1>8, <1>9, <1>10, <1>11, <1>12, <1>13, <1>14, <1>15, <1>16, <1>17, <1>18, <1>19, <1>20, <1>21, <1>22, <1>23, <1>24, <1>25, <1>26, <1>27, <1>28, <1>29, <1>30 DEF HandleRequest, RunLoop

(* Every step names what it saves anew, or saves what it alone has named. *)
LEMMA NamesApartKept ==
  ASSUME PromptTypeOK, MessageTypes', OneRun, NamesApart, NEW c \in Ops, HandleRequest(c) \/ RunLoop(c)
  PROVE  NamesApart'
<1> USE PromptAssumption DEF NamesApart, PromptTypeOK, MessageTypes, RequestTypes, TaskTypes, RunTypes, Writing, Saved, UserMessages, UserMessage, Absent, Requests, Messages, slotVars
<1>1. CASE RequestBegins(c)
  BY <1>1 DEF RequestBegins, StageGoto, loopVars, dbVars
<1>2. CASE CleanupReads(c)
  BY <1>2 DEF CleanupReads, StageGoto, loopVars, dbVars
<1>3. CASE CleanupRemoves(c)
  BY <1>3 DEF CleanupRemoves, Save, loopVars
<1>4. CASE CleanupEnds(c)
  BY <1>4 DEF CleanupEnds, StageGoto, loopVars, dbVars
<1>5. CASE Creates(c)
  BY <1>5 DEF Creates, StageGoto, loopVars, dbVars, Named
<1>6. CASE Saves(c)
  BY <1>6 DEF Saves, StageGoto, Save, loopVars
<1>7. CASE RequestsCompaction(c)
  BY <1>7 DEF RequestsCompaction, SaveBare, StageGoto, Save, Named, loopVars
<1>8. CASE Fills(c)
  <2> HIDE DEF Saved, UserMessages
  <2>1. /\ stage[c] = "fill" /\ stage' = [stage EXCEPT ![c] = "loop"] /\ UNCHANGED <<clock, mine, loop, task>>
        /\ Saved' = Saved /\ UserMessages' = UserMessages
    BY <1>8, FillsTold DEF Fills, StageGoto, loopVars
  <2> QED
    BY <2>1
<1>9. CASE NoReply(c)
  BY <1>9 DEF NoReply, StageGoto, loopVars, dbVars
<1>10. CASE Loops(c)
  BY <1>10 DEF Loops, StageGoto, dbVars, Start, In
<1>11. CASE Cancels(c)
  BY <1>11 DEF Cancels, StageGoto, loopVars, dbVars, CancelSlot, In
<1>12. CASE RevertChecks(c)
  BY <1>12 DEF RevertChecks, StageGoto, loopVars, dbVars
<1>13. CASE RevertReads(c)
  BY <1>13 DEF RevertReads, StageGoto, loopVars, dbVars
<1>14. CASE SetsRevert(c)
  BY <1>14 DEF SetsRevert, StageGoto, loopVars, dbVars
<1>15. CASE ClearsRevert(c)
  BY <1>15 DEF ClearsRevert, StageGoto, loopVars, dbVars
<1>16. CASE LoopExits(c)
  BY <1>16 DEF LoopExits, LoopGoto, dbVars, requestVars, TaskOf
<1>17. CASE LoopCompacts(c)
  BY <1>17 DEF LoopCompacts, LoopGoto, dbVars, requestVars, TaskOf
<1>18. CASE LoopOverflows(c)
  BY <1>18 DEF LoopOverflows, LoopGoto, dbVars, requestVars, TaskOf
<1>19. CASE LoopPrepares(c)
  BY <1>19 DEF LoopPrepares, LoopGoto, dbVars, requestVars, TaskOf
<1>20. CASE ReplyStarts(c)
  BY <1>20 DEF ReplyStarts, LoopGoto, requestVars, Starts, Named, Save, Held
<1>21. CASE SummaryStarts(c)
  BY <1>21 DEF SummaryStarts, LoopGoto, requestVars, Starts, Named, Save, Held
<1>22. CASE ReplyEnds(c)
  BY <1>22 DEF ReplyEnds, LoopGoto, requestVars, Save, Held
<1>23. CASE SummaryFails(c)
  BY <1>23 DEF SummaryFails, LoopGoto, requestVars, Save, Held
<1>24. CASE SummaryEnds(c)
  <2>1. PICK e \in {"none", "stop"} : msgs' = [msgs EXCEPT ![task[c].id] = Held(c, e)]
    BY <1>24 DEF SummaryEnds, Save
  <2>2. /\ loop[c] = "summary" /\ \E to \in {"top", "continue"} : loop' = [loop EXCEPT ![c] = to]
        /\ UNCHANGED <<clock, stage, mine, task>>
    BY <1>24 DEF SummaryEnds, LoopGoto, requestVars
  <2>3. Held(c, e).role = "summary"
    BY <2>2 DEF Held
  <2> QED
    BY <2>1, <2>2, <2>3
<1>25. CASE Replays(c)
  BY <1>25 DEF Replays, SaveBare, LoopGoto, requestVars, Save, Named
<1>26. CASE CreatesCompaction(c)
  BY <1>26 DEF CreatesCompaction, SaveBare, LoopGoto, requestVars, Save, Named
<1>27. CASE LoopFills(c)
  <2> HIDE DEF Saved, UserMessages
  <2>1. /\ ~Writing(c) /\ \E to \in Working : loop' = [loop EXCEPT ![c] = to] /\ to \notin {"model", "summary"}
        /\ UNCHANGED <<clock, stage, mine, task>> /\ Saved' = Saved /\ UserMessages' = UserMessages
    BY <1>27, FillsTold DEF LoopFills, LoopGoto, requestVars, Working
  <2> QED
    BY <2>1
<1>28. CASE LoopFails(c)
  BY <1>28 DEF LoopFails, LoopGoto, dbVars, requestVars
<1>29. CASE LoopInterrupted(c)
  <2>1. /\ loop[c] \in Working /\ loop' = [loop EXCEPT ![c] = "interrupted"]
        /\ clock' = clock /\ stage' = stage /\ mine' = mine /\ task' = task /\ phase' = phase
    BY <1>29 DEF LoopInterrupted, LoopGoto, requestVars, slotVars, Working
  <2>2. \/ ~Writing(c) /\ msgs' = msgs
        \/ /\ Writing(c)
           /\ \E e \in {"none", "failed", "tools"} : msgs' = [msgs EXCEPT ![task[c].id] = Held(c, e)]
    BY <1>29 DEF LoopInterrupted, Save, Writing
  <2>3. \A e : Held(c, e).role \in {"reply", "summary"}
    BY DEF Held
  <2>4. CASE ~Writing(c) /\ msgs' = msgs
    BY <2>1, <2>4
  <2>5. ASSUME Writing(c), NEW e, msgs' = [msgs EXCEPT ![task[c].id] = Held(c, e)]
        PROVE  NamesApart'
    BY <2>1, <2>3, <2>5
  <2> QED
    BY <2>2, <2>4, <2>5
<1>30. CASE RunEnds(c)
  BY <1>30 DEF RunEnds, Finish, In, promptVars, dbVars, requestVars, loopVars
<1> QED
  BY <1>1, <1>2, <1>3, <1>4, <1>5, <1>6, <1>7, <1>8, <1>9, <1>10, <1>11, <1>12, <1>13, <1>14, <1>15, <1>16, <1>17, <1>18, <1>19, <1>20, <1>21, <1>22, <1>23, <1>24, <1>25, <1>26, <1>27, <1>28, <1>29, <1>30 DEF HandleRequest, RunLoop

(* A message whose name nobody holds is at most removed, and for good. *)
LEMMA NobodySaves ==
  ASSUME PromptTypeOK, NamesApart, NEW c \in Ops, HandleRequest(c) \/ RunLoop(c)
  PROVE  /\ clock <= clock'
         /\ \A k \in Nat : k <= clock /\ Unwritten(k) => Unwritten(k)' /\ (k \in Saved' => k \in Saved)
         /\ \A k \in Messages : k <= clock /\ Unwritten(k) =>
              msgs'[k] = msgs[k] \/ msgs'[k].role \in {"none", "user"} \cup Requests
<1> USE PromptAssumption DEF NamesApart, PromptTypeOK, MessageTypes, RequestTypes, TaskTypes, RunTypes, Unwritten, Pends, Writes, Writing, Saved, UserMessage, Absent, Requests, Messages, slotVars
<1>1. CASE RequestBegins(c)
  BY <1>1 DEF RequestBegins, StageGoto, loopVars, dbVars
<1>2. CASE CleanupReads(c)
  BY <1>2 DEF CleanupReads, StageGoto, loopVars, dbVars
<1>3. CASE CleanupRemoves(c)
  BY <1>3 DEF CleanupRemoves, Save, loopVars
<1>4. CASE CleanupEnds(c)
  BY <1>4 DEF CleanupEnds, StageGoto, loopVars, dbVars
<1>5. CASE Creates(c)
  BY <1>5 DEF Creates, StageGoto, loopVars, dbVars, Named
<1>6. CASE Saves(c)
  BY <1>6 DEF Saves, StageGoto, Save, loopVars
<1>7. CASE RequestsCompaction(c)
  BY <1>7 DEF RequestsCompaction, SaveBare, StageGoto, Save, Named, loopVars
<1>8. CASE Fills(c)
  <2> HIDE DEF Saved, UserMessages
  <2>1. /\ stage[c] = "fill" /\ stage' = [stage EXCEPT ![c] = "loop"] /\ UNCHANGED <<clock, mine, loop, task>>
        /\ Saved' = Saved /\ UserMessages' = UserMessages
    BY <1>8, FillsTold DEF Fills, StageGoto, loopVars
  <2>2. \A k \in Messages : msgs'[k] = msgs[k] \/ msgs'[k].role \in {"user"} \cup Requests
    BY <1>8, FillsTold
  <2> QED
    BY <2>1, <2>2
<1>9. CASE NoReply(c)
  BY <1>9 DEF NoReply, StageGoto, loopVars, dbVars
<1>10. CASE Loops(c)
  BY <1>10 DEF Loops, StageGoto, dbVars, Start, In
<1>11. CASE Cancels(c)
  BY <1>11 DEF Cancels, StageGoto, loopVars, dbVars, CancelSlot, In
<1>12. CASE RevertChecks(c)
  BY <1>12 DEF RevertChecks, StageGoto, loopVars, dbVars
<1>13. CASE RevertReads(c)
  BY <1>13 DEF RevertReads, StageGoto, loopVars, dbVars
<1>14. CASE SetsRevert(c)
  BY <1>14 DEF SetsRevert, StageGoto, loopVars, dbVars
<1>15. CASE ClearsRevert(c)
  BY <1>15 DEF ClearsRevert, StageGoto, loopVars, dbVars
<1>16. CASE LoopExits(c)
  BY <1>16 DEF LoopExits, LoopGoto, dbVars, requestVars, TaskOf
<1>17. CASE LoopCompacts(c)
  BY <1>17 DEF LoopCompacts, LoopGoto, dbVars, requestVars, TaskOf
<1>18. CASE LoopOverflows(c)
  BY <1>18 DEF LoopOverflows, LoopGoto, dbVars, requestVars, TaskOf
<1>19. CASE LoopPrepares(c)
  BY <1>19 DEF LoopPrepares, LoopGoto, dbVars, requestVars, TaskOf
<1>20. CASE ReplyStarts(c)
  BY <1>20 DEF ReplyStarts, LoopGoto, requestVars, Starts, Named, Save, Held
<1>21. CASE SummaryStarts(c)
  BY <1>21 DEF SummaryStarts, LoopGoto, requestVars, Starts, Named, Save, Held
<1>22. CASE ReplyEnds(c)
  BY <1>22 DEF ReplyEnds, LoopGoto, requestVars, Save, Held
<1>23. CASE SummaryFails(c)
  BY <1>23 DEF SummaryFails, LoopGoto, requestVars, Save, Held
<1>24. CASE SummaryEnds(c)
  BY <1>24 DEF SummaryEnds, LoopGoto, requestVars, Save, Held
<1>25. CASE Replays(c)
  BY <1>25 DEF Replays, SaveBare, LoopGoto, requestVars, Save, Named
<1>26. CASE CreatesCompaction(c)
  BY <1>26 DEF CreatesCompaction, SaveBare, LoopGoto, requestVars, Save, Named
<1>27. CASE LoopFills(c)
  <2> HIDE DEF Saved, UserMessages
  <2>1. /\ ~Writing(c) /\ \E to \in Working : loop' = [loop EXCEPT ![c] = to] /\ to \notin {"model", "summary"}
        /\ UNCHANGED <<clock, stage, mine, task>> /\ Saved' = Saved /\ UserMessages' = UserMessages
    BY <1>27, FillsTold DEF LoopFills, LoopGoto, requestVars, Working
  <2>2. \A k \in Messages : msgs'[k] = msgs[k] \/ msgs'[k].role \in {"user"} \cup Requests
    BY <1>27, FillsTold
  <2> QED
    BY <2>1, <2>2
<1>28. CASE LoopFails(c)
  BY <1>28 DEF LoopFails, LoopGoto, dbVars, requestVars
<1>29. CASE LoopInterrupted(c)
  <2>1. /\ loop[c] \in Working /\ loop' = [loop EXCEPT ![c] = "interrupted"]
        /\ clock' = clock /\ stage' = stage /\ mine' = mine /\ task' = task /\ phase' = phase
    BY <1>29 DEF LoopInterrupted, LoopGoto, requestVars, slotVars, Working
  <2>2. \/ ~Writing(c) /\ msgs' = msgs
        \/ /\ Writing(c)
           /\ \E e \in {"none", "failed", "tools"} : msgs' = [msgs EXCEPT ![task[c].id] = Held(c, e)]
    BY <1>29 DEF LoopInterrupted, Save, Writing
  <2>3. \A e : Held(c, e).role \in {"reply", "summary"}
    BY DEF Held
  <2>4. CASE ~Writing(c) /\ msgs' = msgs
    BY <2>1, <2>4 DEF Working
  <2>5. ASSUME Writing(c), NEW e, msgs' = [msgs EXCEPT ![task[c].id] = Held(c, e)]
        PROVE  /\ clock <= clock'
               /\ \A k \in Nat : k <= clock /\ Unwritten(k) => Unwritten(k)' /\ (k \in Saved' => k \in Saved)
               /\ \A k \in Messages : k <= clock /\ Unwritten(k) =>
                    msgs'[k] = msgs[k] \/ msgs'[k].role \in {"none", "user"} \cup Requests
    BY <2>1, <2>3, <2>5
  <2> QED
    BY <2>2, <2>4, <2>5
<1>30. CASE RunEnds(c)
  BY <1>30 DEF RunEnds, Finish, In, promptVars, dbVars, requestVars, loopVars
<1> QED
  BY <1>1, <1>2, <1>3, <1>4, <1>5, <1>6, <1>7, <1>8, <1>9, <1>10, <1>11, <1>12, <1>13, <1>14, <1>15, <1>16, <1>17, <1>18, <1>19, <1>20, <1>21, <1>22, <1>23, <1>24, <1>25, <1>26, <1>27, <1>28, <1>29, <1>30 DEF HandleRequest, RunLoop

(* A point inside no message names a message that nobody is about to save. *)
LEMMA PointsSettled ==
  ASSUME PromptTypeOK, NamesApart, PointsStand, NEW c \in Ops, HandleRequest(c) \/ RunLoop(c)
  PROVE  Settled(point)' /\ \A d \in Ops : Settled(known[d])'
<1>1. /\ clock \in Nat /\ clock' \in Nat /\ clock <= clock'
      /\ \A k \in Nat : k <= clock /\ Unwritten(k) => Unwritten(k)'
  BY NobodySaves, MessageTypesKept DEF PromptTypeOK, MessageTypes
<1>2. point \in Points /\ known \in [Ops -> Points]
  BY DEF PromptTypeOK, PointTypes
<1>3. Settled(point) /\ \A d \in Ops : Settled(known[d])
  BY DEF PointsStand
<1>4. ASSUME NEW p \in Points, Settled(p)
      PROVE  p.keep \/ (p.id <= clock' /\ Unwritten(p.id)')
  BY <1>1, <1>4 DEF Settled, Points
<1>5. \/ known' = known
      \/ RequestBegins(c) /\ known' = [known EXCEPT ![c] = point]
      \/ RevertReads(c)
  BY DEF HandleRequest, RunLoop, RequestBegins, CleanupReads, CleanupRemoves, CleanupEnds, Creates,
         Saves, RequestsCompaction, Fills, NoReply, Loops, Cancels, RevertChecks, SetsRevert, ClearsRevert,
         LoopExits, LoopCompacts, LoopOverflows, LoopPrepares, ReplyStarts, SummaryStarts, Starts,
         ReplyEnds, SummaryFails, SummaryEnds, Replays, CreatesCompaction, LoopFills, LoopFails, LoopInterrupted, RunEnds,
         requestVars, promptVars
<1>6. \/ point' = point \/ point' = NoPoint \/ point' = known[c]
  BY DEF HandleRequest, RunLoop, RequestBegins, CleanupReads, CleanupRemoves, CleanupEnds, Creates,
         Saves, RequestsCompaction, Fills, NoReply, Loops, Cancels, RevertChecks, RevertReads, SetsRevert, ClearsRevert,
         LoopExits, LoopCompacts, LoopOverflows, LoopPrepares, ReplyStarts, SummaryStarts, Starts,
         ReplyEnds, SummaryFails, SummaryEnds, Replays, CreatesCompaction, LoopFills, LoopFails, LoopInterrupted, RunEnds,
         requestVars, promptVars
<1>7. NoPoint \in Points /\ Settled(NoPoint)
  BY <1>1 DEF NoPoint, Points, Settled, Unwritten, Pends, Writes, NamesApart
<1>8. ASSUME RevertReads(c)
      PROVE  \E p \in Points : Settled(p) /\ known' = [known EXCEPT ![c] = p]
  <2>1. PICK i \in Saved, keep \in BOOLEAN :
          (~keep => i \in UserMessages) /\ known' = [known EXCEPT ![c] = [id |-> i, keep |-> keep]]
    BY <1>8 DEF RevertReads
  <2>2. [id |-> i, keep |-> keep] \in Points
    BY DEF Points, Saved, Messages
  <2>3. i <= clock /\ (i \in UserMessages => Unwritten(i))
    BY DEF NamesApart, Unwritten, Pends, Writes
  <2> QED
    BY <2>1, <2>2, <2>3 DEF Settled
<1>9. \A d \in Ops : known'[d] \in Points /\ Settled(known'[d])
  BY <1>2, <1>3, <1>5, <1>8
<1>10. point' \in Points /\ Settled(point')
  BY <1>2, <1>3, <1>6, <1>7
<1>11. point'.keep \/ (point'.id <= clock' /\ Unwritten(point.id)')
  BY <1>4, <1>10
<1>12. \A d \in Ops : known'[d].keep \/ (known'[d].id <= clock' /\ Unwritten(known[d].id)')
  BY <1>4, <1>9
<1> QED
  BY <1>11, <1>12 DEF Settled

(* What a request has removed stays removed. *)
LEMMA PointsStandKept ==
  ASSUME PromptTypeOK, MessageTypes', NamesApart, PointsStand, NEW c \in Ops, HandleRequest(c) \/ RunLoop(c)
  PROVE  PointsStand'
<1> DEFINE Passed(d) == stage[d] \in {"create", "save", "fill", "loop"} \/ mine[d] # 0
<1> DEFINE Empty(d) == known[d].keep \/ known[d].id \notin Saved
<1>a. /\ known \in [Ops -> Points] /\ stage \in [Ops -> Stages] /\ mine \in [Ops -> Nat] /\ gone \in [Ops -> SUBSET Messages]
  BY DEF PromptTypeOK, RequestTypes, PointTypes
<1>b. /\ \A d \in Ops : stage[d] \notin {"save", "fill", "loop", "quiet", "over"} => mine[d] = 0
      /\ \A d \in Ops : stage[d] = "remove" => Empty(d) \/ known[d].id \in gone[d]
      /\ \A d \in Ops : Passed(d) => Empty(d)
  BY DEF PointsStand
<1>c. \A d \in Ops : known'[d] = known[d] /\ Empty(d) => Empty(d)'
  <2>1. \A d \in Ops : known[d].keep \/ (known[d].id <= clock /\ Unwritten(known[d].id))
    BY DEF PointsStand, Settled
  <2>2. \A d \in Ops : known[d].id \in Nat
    BY <1>a DEF Points
  <2>3. \A d \in Ops : known[d].keep \/ (known[d].id \in Saved' => known[d].id \in Saved)
    BY <2>1, <2>2, NobodySaves
  <2> QED
    BY <2>3
<1> DEFINE Goal == /\ \A d \in Ops : stage'[d] \notin {"save", "fill", "loop", "quiet", "over"} => mine'[d] = 0
                   /\ \A d \in Ops : stage'[d] = "remove" => Empty(d)' \/ known'[d].id \in gone'[d]
                   /\ \A d \in Ops : Passed(d)' => Empty(d)'
<1>d. Goal => PointsStand'
  BY PointsSettled DEF PointsStand
<1>e. clock \in Nat
  BY DEF PromptTypeOK, MessageTypes
<1> HIDE DEF Empty
<1>f. RunLoop(c) => UNCHANGED <<stage, mine, known, gone>>
  BY DEF RunLoop, LoopExits, LoopCompacts, LoopOverflows, LoopPrepares, ReplyStarts, SummaryStarts, Starts,
         ReplyEnds, SummaryFails, SummaryEnds, Replays, CreatesCompaction, LoopFills, LoopFails, LoopInterrupted, RunEnds,
         requestVars, promptVars
<1>0. CASE RunLoop(c)
  BY <1>0, <1>b, <1>c, <1>d, <1>f
<1>1. CASE RequestBegins(c)
  <2>1. /\ stage[c] = "new" /\ stage' = [stage EXCEPT ![c] = IF point = NoPoint THEN "create" ELSE "cleanup"]
        /\ known' = [known EXCEPT ![c] = point] /\ mine' = mine /\ gone' = gone /\ msgs' = msgs
    BY <1>1 DEF RequestBegins, StageGoto, dbVars
  <2>2. point = NoPoint => Empty(c)'
    BY <2>1, <1>a DEF Empty, NoPoint, Saved, Messages
  <2>3. stage'[c] \in {"create", "cleanup"} /\ (stage'[c] = "create" => point = NoPoint)
    BY <2>1, <1>a
  <2>4. mine'[c] = 0
    BY <2>1, <1>b
  <2>5. \A d \in Ops : d # c => stage'[d] = stage[d] /\ known'[d] = known[d]
    BY <2>1, <1>a
  <2> QED
    BY <2>1, <2>2, <2>3, <2>4, <2>5, <1>b, <1>c, <1>d
<1>2. CASE CleanupReads(c)
  <2>1. /\ stage[c] = "cleanup" /\ stage' = [stage EXCEPT ![c] = "remove"]
        /\ gone' = [gone EXCEPT ![c] = Reverted(known[c])] /\ known' = known /\ mine' = mine /\ msgs' = msgs
    BY <1>2 DEF CleanupReads, StageGoto, dbVars
  <2>2. Empty(c) \/ known[c].id \in Reverted(known[c])
    BY DEF Empty, Reverted
  <2> QED
    BY <2>1, <2>2, <1>a, <1>b, <1>c, <1>d
<1>3. CASE CleanupRemoves(c)
  <2>1. Min(gone[c]) \in gone[c]
    BY <1>3, <1>a, MinOfSome DEF CleanupRemoves
  <2>2. PICK i \in gone[c] : /\ msgs' = [msgs EXCEPT ![i] = Absent]
                             /\ gone' = [gone EXCEPT ![c] = gone[c] \ {i}]
    BY <1>3, <2>1 DEF CleanupRemoves, Save
  <2>3. stage' = stage /\ known' = known /\ mine' = mine
    BY <1>3 DEF CleanupRemoves
  <2>4. i \notin Saved'
    BY <2>2, <1>a DEF Saved, Absent, PromptTypeOK, MessageTypes
  <2>5. known[c].id = i => Empty(c)'
    BY <2>3, <2>4 DEF Empty
  <2>6. Empty(c)' \/ known[c].id \in gone'[c] \/ stage[c] # "remove"
    BY <2>2, <2>5, <1>a, <1>b, <1>c, <2>3
  <2> QED
    BY <2>2, <2>3, <2>6, <1>a, <1>b, <1>c, <1>d
<1>4. CASE CleanupEnds(c)
  BY <1>4, <1>a, <1>b, <1>c, <1>d, <1>e DEF CleanupEnds, StageGoto, loopVars, dbVars
<1>5. CASE Creates(c)
  BY <1>5, <1>a, <1>b, <1>c, <1>d, <1>e DEF Creates, StageGoto, loopVars, dbVars, Named
<1>6. CASE Saves(c)
  BY <1>6, <1>a, <1>b, <1>c, <1>d, <1>e DEF Saves, StageGoto, Save, loopVars
<1>7. CASE RequestsCompaction(c)
  BY <1>7, <1>a, <1>b, <1>c, <1>d, <1>e DEF RequestsCompaction, SaveBare, StageGoto, Save, Named, loopVars
<1>8. CASE Fills(c)
  BY <1>8, <1>a, <1>b, <1>c, <1>d, <1>e DEF Fills, StageGoto, loopVars
<1>9. CASE NoReply(c)
  BY <1>9, <1>a, <1>b, <1>c, <1>d, <1>e DEF NoReply, StageGoto, loopVars, dbVars
<1>10. CASE Loops(c)
  BY <1>10, <1>a, <1>b, <1>c, <1>d, <1>e DEF Loops, StageGoto, dbVars, Start, In
<1>11. CASE Cancels(c)
  BY <1>11, <1>a, <1>b, <1>c, <1>d, <1>e DEF Cancels, StageGoto, loopVars, dbVars, CancelSlot, In
<1>12. CASE RevertChecks(c)
  BY <1>12, <1>a, <1>b, <1>c, <1>d, <1>e DEF RevertChecks, StageGoto, loopVars, dbVars
<1>13. CASE RevertReads(c)
  BY <1>13, <1>a, <1>b, <1>c, <1>d, <1>e DEF RevertReads, StageGoto, loopVars, dbVars
<1>14. CASE SetsRevert(c)
  BY <1>14, <1>a, <1>b, <1>c, <1>d, <1>e DEF SetsRevert, StageGoto, loopVars, dbVars
<1>15. CASE ClearsRevert(c)
  BY <1>15, <1>a, <1>b, <1>c, <1>d, <1>e DEF ClearsRevert, StageGoto, loopVars, dbVars
<1> QED
  BY <1>0, <1>1, <1>2, <1>3, <1>4, <1>5, <1>6, <1>7, <1>8, <1>9, <1>10, <1>11, <1>12, <1>13, <1>14, <1>15 DEF HandleRequest

(* Where the tasks of the runs come from. *)
Plans(c) ==
  /\ loop[c] = "top" /\ LastUser # 0 /\ ~Answered(c) /\ task'[c].parent = LastUser
  /\ task'[c].sees = Visible \cap Complete
  /\ UNCHANGED <<clock, msgs, phase, stage, mine>>

Begins(c) ==
  /\ Planning(c) /\ Writing(c)' /\ phase' = phase
  /\ clock' = clock + 1 /\ task'[c].id = clock + 1 /\ task'[c].parent = task[c].parent

(* A run writes after it has planned, and plans after it has looked. *)
LEMMA TasksTold ==
  ASSUME PromptTypeOK, OneRun, NEW c \in Ops, HandleRequest(c) \/ RunLoop(c)
  PROVE  /\ \A f \in Ops : Writing(f)' => (Writing(f) /\ task'[f] = task[f]) \/ (f = c /\ Begins(c))
         /\ \A f \in Ops : Planning(f)' => (Planning(f) /\ task'[f] = task[f]) \/ (f = c /\ Plans(c))
         /\ \A f \in Ops : Active(f)' => Active(f) \/ (~Writing(f)' /\ ~Planning(f)')
         /\ Detached \subseteq Detached'
<1> USE DEF PromptTypeOK, MessageTypes, TaskTypes, TaskRecords, RunTypes, OneRun, Plans, Begins, Writing, Planning, Active, Detached, Working, slotVars
<1>1. CASE RequestBegins(c)
  BY <1>1 DEF RequestBegins, StageGoto, loopVars, dbVars
<1>2. CASE CleanupReads(c)
  BY <1>2 DEF CleanupReads, StageGoto, loopVars, dbVars
<1>3. CASE CleanupRemoves(c)
  BY <1>3 DEF CleanupRemoves, Save, loopVars
<1>4. CASE CleanupEnds(c)
  BY <1>4 DEF CleanupEnds, StageGoto, loopVars, dbVars
<1>5. CASE Creates(c)
  BY <1>5 DEF Creates, StageGoto, loopVars, dbVars, Named
<1>6. CASE Saves(c)
  BY <1>6 DEF Saves, StageGoto, Save, loopVars
<1>7. CASE RequestsCompaction(c)
  BY <1>7 DEF RequestsCompaction, SaveBare, StageGoto, Save, Named, loopVars
<1>8. CASE Fills(c)
  BY <1>8, FillsTold DEF Fills, StageGoto, loopVars
<1>9. CASE NoReply(c)
  BY <1>9 DEF NoReply, StageGoto, loopVars, dbVars
<1>10. CASE Loops(c)
  BY <1>10 DEF Loops, StageGoto, dbVars, Start, In
<1>11. CASE Cancels(c)
  BY <1>11 DEF Cancels, StageGoto, loopVars, dbVars, CancelSlot, In
<1>12. CASE RevertChecks(c)
  BY <1>12 DEF RevertChecks, StageGoto, loopVars, dbVars
<1>13. CASE RevertReads(c)
  BY <1>13 DEF RevertReads, StageGoto, loopVars, dbVars
<1>14. CASE SetsRevert(c)
  BY <1>14 DEF SetsRevert, StageGoto, loopVars, dbVars
<1>15. CASE ClearsRevert(c)
  BY <1>15 DEF ClearsRevert, StageGoto, loopVars, dbVars
<1>16. CASE LoopExits(c)
  BY <1>16 DEF LoopExits, LoopGoto, dbVars, requestVars, TaskOf
<1>17. CASE LoopCompacts(c)
  BY <1>17 DEF LoopCompacts, LoopGoto, dbVars, requestVars, TaskOf
<1>18. CASE LoopOverflows(c)
  BY <1>18 DEF LoopOverflows, LoopGoto, dbVars, requestVars, TaskOf
<1>19. CASE LoopPrepares(c)
  BY <1>19 DEF LoopPrepares, LoopGoto, dbVars, requestVars, TaskOf
<1>20. CASE ReplyStarts(c)
  BY <1>20 DEF ReplyStarts, LoopGoto, requestVars, Starts, Named, Save, Held
<1>21. CASE SummaryStarts(c)
  BY <1>21 DEF SummaryStarts, LoopGoto, requestVars, Starts, Named, Save, Held
<1>22. CASE ReplyEnds(c)
  BY <1>22 DEF ReplyEnds, LoopGoto, requestVars, Save, Held
<1>23. CASE SummaryFails(c)
  BY <1>23 DEF SummaryFails, LoopGoto, requestVars, Save, Held
<1>24. CASE SummaryEnds(c)
  BY <1>24 DEF SummaryEnds, LoopGoto, requestVars, Save, Held
<1>25. CASE Replays(c)
  BY <1>25 DEF Replays, SaveBare, LoopGoto, requestVars, Save, Named
<1>26. CASE CreatesCompaction(c)
  BY <1>26 DEF CreatesCompaction, SaveBare, LoopGoto, requestVars, Save, Named
<1>27. CASE LoopFills(c)
  BY <1>27, FillsTold DEF LoopFills, LoopGoto, requestVars
<1>28. CASE LoopFails(c)
  BY <1>28 DEF LoopFails, LoopGoto, dbVars, requestVars
<1>29. CASE LoopInterrupted(c)
  BY <1>29 DEF LoopInterrupted, LoopGoto, requestVars, Save, Held
<1>30. CASE RunEnds(c)
  BY <1>30 DEF RunEnds, Finish, In, promptVars, dbVars, requestVars, loopVars
<1> QED
  BY <1>1, <1>2, <1>3, <1>4, <1>5, <1>6, <1>7, <1>8, <1>9, <1>10, <1>11, <1>12, <1>13, <1>14, <1>15, <1>16, <1>17, <1>18, <1>19, <1>20, <1>21, <1>22, <1>23, <1>24, <1>25, <1>26, <1>27, <1>28, <1>29, <1>30 DEF HandleRequest, RunLoop

(* Where the messages of the runs come from. *)
Finishes(c) ==
  /\ Active(c) => Active(c)'
  /\ msgs'[task[c].id].parent = task[c].parent /\ msgs'[task[c].id].by = c
  /\ ~Writing(c)' /\ ~Planning(c)' /\ clock <= clock'

(* An assistant message is what it was, or its run has just written it. *)
LEMMA AssistantsTold ==
  ASSUME PromptTypeOK, OneRun, NamesApart, NEW c \in Ops, HandleRequest(c) \/ RunLoop(c)
  PROVE  \A l \in Assistants' :
           \/ l \in Assistants /\ msgs'[l] = msgs[l]
           \/ l = task[c].id /\ Writing(c) /\ Finishes(c)
           \/ /\ l = clock + 1 /\ Begins(c) /\ msgs'[l].finish = "none"
              /\ msgs'[l].parent = task[c].parent /\ msgs'[l].by = c
<1> USE PromptAssumption DEF PromptTypeOK, MessageTypes, TaskTypes, TaskRecords, RunTypes, OneRun, NamesApart, Finishes, Begins, Writing, Planning, Active, Working, Assistants, UserMessages, Saved, UserMessage, Absent, Requests, Messages, slotVars
<1>1. CASE RequestBegins(c)
  BY <1>1 DEF RequestBegins, StageGoto, loopVars, dbVars
<1>2. CASE CleanupReads(c)
  BY <1>2 DEF CleanupReads, StageGoto, loopVars, dbVars
<1>3. CASE CleanupRemoves(c)
  BY <1>3 DEF CleanupRemoves, Save, loopVars
<1>4. CASE CleanupEnds(c)
  BY <1>4 DEF CleanupEnds, StageGoto, loopVars, dbVars
<1>5. CASE Creates(c)
  BY <1>5 DEF Creates, StageGoto, loopVars, dbVars, Named
<1>6. CASE Saves(c)
  BY <1>6 DEF Saves, StageGoto, Save, loopVars
<1>7. CASE RequestsCompaction(c)
  BY <1>7 DEF RequestsCompaction, SaveBare, StageGoto, Save, Named, loopVars
<1>8. CASE Fills(c)
  BY <1>8, FillsTold DEF Fills, StageGoto, loopVars
<1>9. CASE NoReply(c)
  BY <1>9 DEF NoReply, StageGoto, loopVars, dbVars
<1>10. CASE Loops(c)
  BY <1>10 DEF Loops, StageGoto, dbVars, Start, In
<1>11. CASE Cancels(c)
  BY <1>11 DEF Cancels, StageGoto, loopVars, dbVars, CancelSlot, In
<1>12. CASE RevertChecks(c)
  BY <1>12 DEF RevertChecks, StageGoto, loopVars, dbVars
<1>13. CASE RevertReads(c)
  BY <1>13 DEF RevertReads, StageGoto, loopVars, dbVars
<1>14. CASE SetsRevert(c)
  BY <1>14 DEF SetsRevert, StageGoto, loopVars, dbVars
<1>15. CASE ClearsRevert(c)
  BY <1>15 DEF ClearsRevert, StageGoto, loopVars, dbVars
<1>16. CASE LoopExits(c)
  BY <1>16 DEF LoopExits, LoopGoto, dbVars, requestVars, TaskOf
<1>17. CASE LoopCompacts(c)
  BY <1>17 DEF LoopCompacts, LoopGoto, dbVars, requestVars, TaskOf
<1>18. CASE LoopOverflows(c)
  BY <1>18 DEF LoopOverflows, LoopGoto, dbVars, requestVars, TaskOf
<1>19. CASE LoopPrepares(c)
  BY <1>19 DEF LoopPrepares, LoopGoto, dbVars, requestVars, TaskOf
<1>20. CASE ReplyStarts(c)
  BY <1>20 DEF ReplyStarts, LoopGoto, requestVars, Starts, Named, Save, Held
<1>21. CASE SummaryStarts(c)
  BY <1>21 DEF SummaryStarts, LoopGoto, requestVars, Starts, Named, Save, Held
<1>22. CASE ReplyEnds(c)
  BY <1>22 DEF ReplyEnds, LoopGoto, requestVars, Save, Held
<1>23. CASE SummaryFails(c)
  BY <1>23 DEF SummaryFails, LoopGoto, requestVars, Save, Held
<1>24. CASE SummaryEnds(c)
  BY <1>24 DEF SummaryEnds, LoopGoto, requestVars, Save, Held
<1>25. CASE Replays(c)
  BY <1>25 DEF Replays, SaveBare, LoopGoto, requestVars, Save, Named
<1>26. CASE CreatesCompaction(c)
  BY <1>26 DEF CreatesCompaction, SaveBare, LoopGoto, requestVars, Save, Named
<1>27. CASE LoopFills(c)
  BY <1>27, FillsTold DEF LoopFills, LoopGoto, requestVars
<1>28. CASE LoopFails(c)
  BY <1>28 DEF LoopFails, LoopGoto, dbVars, requestVars
<1>29. CASE LoopInterrupted(c)
  <2>1. /\ loop[c] \in Working /\ loop' = [loop EXCEPT ![c] = "interrupted"]
        /\ clock' = clock /\ stage' = stage /\ mine' = mine /\ task' = task /\ phase' = phase
    BY <1>29 DEF LoopInterrupted, LoopGoto, requestVars, slotVars, Working
  <2>2. \/ ~Writing(c) /\ msgs' = msgs
        \/ /\ Writing(c)
           /\ \E e \in {"none", "failed", "tools"} : msgs' = [msgs EXCEPT ![task[c].id] = Held(c, e)]
    BY <1>29 DEF LoopInterrupted, Save, Writing
  <2>3. \A e : Held(c, e).role \in {"reply", "summary"}
    BY DEF Held
  <2>4. CASE ~Writing(c) /\ msgs' = msgs
    BY <2>1, <2>4
  <2>5. CASE Writing(c)
    <3>1. PICK e \in {"none", "failed", "tools"} : msgs' = [msgs EXCEPT ![task[c].id] = Held(c, e)]
      BY <2>2, <2>5
    <3>2. Held(c, e).parent = task[c].parent /\ Held(c, e).by = c
      BY DEF Held
    <3> QED
      BY <2>1, <2>3, <2>5, <3>1, <3>2
  <2> QED
    BY <2>2, <2>4, <2>5
<1>30. CASE RunEnds(c)
  BY <1>30 DEF RunEnds, Finish, In, promptVars, dbVars, requestVars, loopVars
<1> QED
  BY <1>1, <1>2, <1>3, <1>4, <1>5, <1>6, <1>7, <1>8, <1>9, <1>10, <1>11, <1>12, <1>13, <1>14, <1>15, <1>16, <1>17, <1>18, <1>19, <1>20, <1>21, <1>22, <1>23, <1>24, <1>25, <1>26, <1>27, <1>28, <1>29, <1>30 DEF HandleRequest, RunLoop

(* A message that is lost stays lost, ... *)
LEMMA LostStays ==
  ASSUME PromptTypeOK, NamesApart, NEW c \in Ops, HandleRequest(c) \/ RunLoop(c), NEW k, Lost(k)
  PROVE  Lost(k)'
<1>1. clock \in Nat /\ clock' \in Nat /\ clock <= clock'
  BY NobodySaves, MessageTypesKept DEF PromptTypeOK, MessageTypes
<1>2. k \in Nat /\ k <= clock /\ k \notin Saved /\ Unwritten(k)
  BY <1>1 DEF Lost
<1>3. k \notin Saved' /\ Unwritten(k)'
  BY <1>2, NobodySaves
<1> QED
  BY <1>1, <1>2, <1>3 DEF Lost

(* ... and what has been asked is there or lost. *)
LEMMA AskedStays ==
  ASSUME PromptTypeOK, NamesApart, NEW c \in Ops, HandleRequest(c) \/ RunLoop(c), NEW q, Asked(q)
  PROVE  Asked(q)'
<1>1. clock \in Nat /\ clock' \in Nat /\ clock <= clock' /\ q \in 1..clock /\ q \in 1..clock'
  BY NobodySaves, MessageTypesKept DEF PromptTypeOK, MessageTypes, Asked
<1>2. CASE Lost(q)
  BY <1>1, <1>2, LostStays DEF Asked
<1>3. CASE q \in UserMessages
  <2>1. q \in Messages /\ q \in Saved /\ q <= clock
    BY <1>1, <1>3 DEF UserMessages, Saved
  <2>2. Unwritten(q)
    BY <1>3, <2>1 DEF NamesApart, Unwritten, Pends, Writes
  <2>3. Unwritten(q)' /\ (msgs'[q] = msgs[q] \/ msgs'[q].role \in {"none", "user"} \cup Requests)
    BY <1>1, <2>1, <2>2, NobodySaves
  <2>4. q \notin Saved' \/ q \in UserMessages'
    BY <1>3, <2>1, <2>3 DEF UserMessages, Saved
  <2> QED
    BY <1>1, <2>3, <2>4 DEF Asked, Lost
<1> QED
  BY <1>2, <1>3 DEF Asked

(* Every answer comes after what it answers. *)
LEMMA ParentedKept ==
  ASSUME PromptTypeOK, OneRun, NamesApart, Parented, NEW c \in Ops, HandleRequest(c) \/ RunLoop(c)
  PROVE  Parented'
<1>1. clock \in Nat /\ \A f \in Ops : task[f].parent \in Nat /\ task[f].id \in Nat
  BY DEF PromptTypeOK, MessageTypes, TaskTypes, TaskRecords
<1>2. ASSUME NEW l \in Assistants'
      PROVE  msgs'[l].parent < l /\ Asked(msgs[l].parent)'
  <2>1. PICK q \in Nat : msgs'[l].parent = q /\ q < l /\ Asked(q)
    <3>1. CASE l \in Assistants /\ msgs'[l] = msgs[l]
      BY <3>1 DEF Parented, PromptTypeOK, MessageTypes, MessageRecords, Assistants, Saved
    <3>2. CASE l = task[c].id /\ Writing(c) /\ Finishes(c)
      BY <1>1, <3>2 DEF Parented, Finishes
    <3>3. CASE l = clock + 1 /\ Begins(c) /\ msgs'[l].parent = task[c].parent
      BY <1>1, <3>3 DEF Parented, Begins, Asked
    <3> QED
      BY <3>1, <3>2, <3>3, AssistantsTold
  <2>2. Asked(q)'
    BY <2>1, AskedStays
  <2> QED
    BY <2>1, <2>2
<1>3. ASSUME NEW f \in Ops, Planning(f)' \/ Writing(f)'
      PROVE  Asked(task[f].parent)'
  <2>1. PICK q \in Nat : task'[f].parent = q /\ Asked(q)
    <3>1. CASE Plans(c) /\ f = c
      <4>1. LastUser \in Nat /\ LastUser \in UserMessages
        BY <3>1, LoopReads DEF Plans
      <4>2. LastUser \in 1..clock
        BY <1>1, <4>1 DEF NamesApart, UserMessages, Saved, Messages
      <4> QED
        BY <3>1, <4>1, <4>2 DEF Plans, Asked
    <3>2. CASE (Planning(f) \/ Writing(f)) /\ task'[f].parent = task[f].parent
      BY <1>1, <3>2 DEF Parented
    <3> QED
      BY <1>3, <3>1, <3>2, TasksTold DEF Begins
  <2>2. Asked(q)'
    BY <2>1, AskedStays
  <2> QED
    BY <2>1, <2>2
<1>4. ASSUME NEW f \in Ops, Writing(f)'
      PROVE  task'[f].parent < task'[f].id
  BY <1>1, <1>4, TasksTold DEF Begins, Parented, Asked
<1> QED
  BY <1>2, <1>3, <1>4 DEF Parented

(* A user message is what it was, or has the newest name, or was prepared. *)
LEMMA UsersTold ==
  ASSUME PromptTypeOK, NamesApart, NEW c \in Ops, HandleRequest(c) \/ RunLoop(c)
  PROVE  /\ \A k \in UserMessages' : k \in UserMessages \/ k = clock + 1 \/ \E d \in Ops : Pends(d, k)
         /\ \A d \in Ops, k \in Nat : Pends(d, k)' => Pends(d, k) \/ k = clock + 1
<1> USE PromptAssumption DEF PromptTypeOK, MessageTypes, RequestTypes, TaskTypes, TaskRecords, NamesApart, Writing, UserMessages, Saved, UserMessage, Absent, Requests, Messages, Pends, slotVars
<1>1. CASE RequestBegins(c)
  BY <1>1 DEF RequestBegins, StageGoto, loopVars, dbVars
<1>2. CASE CleanupReads(c)
  BY <1>2 DEF CleanupReads, StageGoto, loopVars, dbVars
<1>3. CASE CleanupRemoves(c)
  BY <1>3 DEF CleanupRemoves, Save, loopVars
<1>4. CASE CleanupEnds(c)
  BY <1>4 DEF CleanupEnds, StageGoto, loopVars, dbVars
<1>5. CASE Creates(c)
  BY <1>5 DEF Creates, StageGoto, loopVars, dbVars, Named
<1>6. CASE Saves(c)
  BY <1>6 DEF Saves, StageGoto, Save, loopVars
<1>7. CASE RequestsCompaction(c)
  BY <1>7 DEF RequestsCompaction, SaveBare, StageGoto, Save, Named, loopVars
<1>8. CASE Fills(c)
  BY <1>8, FillsTold DEF Fills, StageGoto, loopVars
<1>9. CASE NoReply(c)
  BY <1>9 DEF NoReply, StageGoto, loopVars, dbVars
<1>10. CASE Loops(c)
  BY <1>10 DEF Loops, StageGoto, dbVars, Start, In
<1>11. CASE Cancels(c)
  BY <1>11 DEF Cancels, StageGoto, loopVars, dbVars, CancelSlot, In
<1>12. CASE RevertChecks(c)
  BY <1>12 DEF RevertChecks, StageGoto, loopVars, dbVars
<1>13. CASE RevertReads(c)
  BY <1>13 DEF RevertReads, StageGoto, loopVars, dbVars
<1>14. CASE SetsRevert(c)
  BY <1>14 DEF SetsRevert, StageGoto, loopVars, dbVars
<1>15. CASE ClearsRevert(c)
  BY <1>15 DEF ClearsRevert, StageGoto, loopVars, dbVars
<1>16. CASE LoopExits(c)
  BY <1>16 DEF LoopExits, LoopGoto, dbVars, requestVars, TaskOf
<1>17. CASE LoopCompacts(c)
  BY <1>17 DEF LoopCompacts, LoopGoto, dbVars, requestVars, TaskOf
<1>18. CASE LoopOverflows(c)
  BY <1>18 DEF LoopOverflows, LoopGoto, dbVars, requestVars, TaskOf
<1>19. CASE LoopPrepares(c)
  BY <1>19 DEF LoopPrepares, LoopGoto, dbVars, requestVars, TaskOf
<1>20. CASE ReplyStarts(c)
  BY <1>20 DEF ReplyStarts, LoopGoto, requestVars, Starts, Named, Save, Held
<1>21. CASE SummaryStarts(c)
  BY <1>21 DEF SummaryStarts, LoopGoto, requestVars, Starts, Named, Save, Held
<1>22. CASE ReplyEnds(c)
  BY <1>22 DEF ReplyEnds, LoopGoto, requestVars, Save, Held
<1>23. CASE SummaryFails(c)
  BY <1>23 DEF SummaryFails, LoopGoto, requestVars, Save, Held
<1>24. CASE SummaryEnds(c)
  BY <1>24 DEF SummaryEnds, LoopGoto, requestVars, Save, Held
<1>25. CASE Replays(c)
  BY <1>25 DEF Replays, SaveBare, LoopGoto, requestVars, Save, Named
<1>26. CASE CreatesCompaction(c)
  BY <1>26 DEF CreatesCompaction, SaveBare, LoopGoto, requestVars, Save, Named
<1>27. CASE LoopFills(c)
  BY <1>27, FillsTold DEF LoopFills, LoopGoto, requestVars
<1>28. CASE LoopFails(c)
  BY <1>28 DEF LoopFails, LoopGoto, dbVars, requestVars
<1>29. CASE LoopInterrupted(c)
  <2>1. /\ loop[c] \in Working /\ loop' = [loop EXCEPT ![c] = "interrupted"]
        /\ clock' = clock /\ stage' = stage /\ mine' = mine /\ task' = task /\ phase' = phase
    BY <1>29 DEF LoopInterrupted, LoopGoto, requestVars, slotVars, Working
  <2>2. \/ ~Writing(c) /\ msgs' = msgs
        \/ /\ Writing(c)
           /\ \E e \in {"none", "failed", "tools"} : msgs' = [msgs EXCEPT ![task[c].id] = Held(c, e)]
    BY <1>29 DEF LoopInterrupted, Save, Writing
  <2>3. \A e : Held(c, e).role \in {"reply", "summary"}
    BY DEF Held
  <2>4. CASE ~Writing(c) /\ msgs' = msgs
    BY <2>1, <2>4
  <2>5. CASE Writing(c)
    <3>1. PICK e \in {"none", "failed", "tools"} : msgs' = [msgs EXCEPT ![task[c].id] = Held(c, e)]
      BY <2>2, <2>5
    <3> QED
      BY <2>1, <2>3, <2>5, <3>1
  <2> QED
    BY <2>2, <2>4, <2>5
<1>30. CASE RunEnds(c)
  BY <1>30 DEF RunEnds, Finish, In, promptVars, dbVars, requestVars, loopVars
<1> QED
  BY <1>1, <1>2, <1>3, <1>4, <1>5, <1>6, <1>7, <1>8, <1>9, <1>10, <1>11, <1>12, <1>13, <1>14, <1>15, <1>16, <1>17, <1>18, <1>19, <1>20, <1>21, <1>22, <1>23, <1>24, <1>25, <1>26, <1>27, <1>28, <1>29, <1>30 DEF HandleRequest, RunLoop

(* A run that writes or plans is active or detached, and one is active. *)
LEMMA OthersDetached ==
  ASSUME PromptTypeOK, OneRun, NEW f \in Ops, Writing(f) \/ Planning(f), NEW g \in Ops, Active(g), f # g
  PROVE  f \in Detached
BY DEF OneRun, Writing, Planning, Working, Detached, Active

(* While a run writes, only detached ones have written later messages. *)
LEMMA LaterKept ==
  ASSUME PromptTypeOK, OneRun, NamesApart, NamesApart', Later, NEW c \in Ops, HandleRequest(c) \/ RunLoop(c)
  PROVE  Later'
<1> SUFFICES ASSUME NEW f \in Ops, Writing(f)', Active(f)', NEW i \in Assistants', i > task'[f].id
             PROVE  msgs'[i].by \in Detached'
  BY DEF Later
<1>1. clock \in Nat
  BY DEF PromptTypeOK, MessageTypes
<1>2. CASE f = c /\ Begins(c)
  BY <1>1, <1>2 DEF Begins, NamesApart, Assistants, Messages, Saved
<1>3. CASE Writing(f) /\ task'[f] = task[f]
  <2>1. Active(f) /\ Detached \subseteq Detached'
    BY TasksTold
  <2>2. CASE i \in Assistants /\ msgs'[i] = msgs[i]
    BY <1>3, <2>1, <2>2 DEF Later
  <2>3. CASE i = task[c].id /\ Writing(c) /\ Finishes(c)
    <3>1. c # f
      BY <2>3 DEF Finishes
    <3> QED
      BY <2>1, <2>3, <3>1, OthersDetached DEF Finishes
  <2>4. CASE i = clock + 1 /\ Begins(c) /\ msgs'[i].by = c
    <3>1. c # f /\ Planning(c)
      BY <1>3, <2>4 DEF Begins, Planning, Writing
    <3> QED
      BY <2>1, <2>4, <3>1, OthersDetached
  <2> QED
    BY <2>2, <2>3, <2>4, AssistantsTold
<1> QED
  BY <1>2, <1>3, TasksTold

(* Where something was removed under a run, or a detached run wrote, that  *)
(* remains to be seen.                                                     *)
LEMMA SpentStays ==
  ASSUME PromptTypeOK, OneRun, NamesApart, NEW c \in Ops, HandleRequest(c) \/ RunLoop(c),
         NEW k \in Messages, k <= clock, Spent(k)
  PROVE  Spent(k)'
<1>1. clock \in Nat /\ clock <= clock' /\ k \in Nat /\ k # clock + 1 /\ Detached \subseteq Detached'
  BY NobodySaves, TasksTold DEF PromptTypeOK, MessageTypes, Messages
<1>2. \A f \in Ops : Active(f)' => ~Writes(f, k)'
  BY <1>1, TasksTold DEF Spent, Writes, Begins
<1>3. \A d \in Ops : ~Pends(d, k)
  BY DEF Spent, Removed, Pends, NamesApart, Assistants
<1>4. \A d \in Ops : ~Pends(d, k)'
  BY <1>1, <1>3, UsersTold
<1>5. CASE k \notin Saved'
  <2>1. Removed(k)'
    BY <1>1, <1>4, <1>5, MessageTypesKept DEF Removed, Pends, MessageTypes
  <2> QED
    BY <1>2, <2>1 DEF Spent
<1>6. CASE k \in Saved'
  <2>1. k \notin UserMessages
    BY DEF Spent, Removed, Assistants, UserMessages
  <2>2. k \in Assistants'
    BY <1>1, <1>3, <1>6, <2>1, UsersTold DEF Assistants
  <2>3. Writing(c) /\ k = task[c].id => c \in Detached
    BY DEF Spent, Writes, OneRun, Working, Writing, Detached, Active
  <2>4. CASE k \in Assistants /\ msgs'[k] = msgs[k]
    <3>1. msgs[k].by \in Detached
      BY <2>4 DEF Spent, Removed, Assistants
    <3> QED
      BY <1>1, <1>2, <2>2, <2>4, <3>1 DEF Spent
  <2>5. CASE k = task[c].id /\ Writing(c) /\ Finishes(c)
    <3>1. msgs'[k].by \in Detached'
      BY <1>1, <2>3, <2>5 DEF Finishes
    <3> QED
      BY <1>2, <2>2, <3>1 DEF Spent
  <2> QED
    BY <1>1, <2>2, <2>4, <2>5, AssistantsTold
<1> QED
  BY <1>5, <1>6

(* So an exemption holds for ever. *)
LEMMA ExemptStays ==
  ASSUME PromptTypeOK, OneRun, NamesApart, NEW c \in Ops, HandleRequest(c) \/ RunLoop(c),
         NEW p \in Nat, NEW i \in Nat, NEW l \in Nat, l <= clock, Exempt(p, i, l)
  PROVE  Exempt(p, i, l)'
<1>1. PICK k \in (p + 1)..l : Lost(k) \/ (k >= i /\ Spent(k))
  BY DEF Exempt
<1>2. k \in Messages /\ k <= clock
  BY PromptAssumption DEF Messages, NamesApart, PromptTypeOK, MessageTypes
<1>3. Lost(k)' \/ (k >= i /\ Spent(k)')
  BY <1>1, <1>2, LostStays, SpentStays
<1> QED
  BY <1>3 DEF Exempt

(* An answer stays followed by what it is followed by. *)
LEMMA FollowsStays ==
  ASSUME PromptTypeOK, OneRun, NamesApart, NEW c \in Ops, HandleRequest(c) \/ RunLoop(c),
         NEW p \in Nat, NEW i \in Nat, NEW q \in Nat, NEW l \in Nat, l <= clock, Follows(p, i, q, l),
         NEW m \in Nat, l <= m
  PROVE  Follows(p, i, q, m)'
<1>1. Lost(p) => Lost(p)'
  BY LostStays
<1>2. Exempt(p, i, l) => Exempt(p, i, l)'
  BY ExemptStays
<1>3. Exempt(p, i, l)' => Exempt(p, i, m)'
  BY DEF Exempt
<1> QED
  BY <1>1, <1>2, <1>3 DEF Follows

(* The loop goes on from the last user message: if that has an answer, the *)
(* last assistant message comes after it, for a message that is lost.      *)
LEMMA PlansFollow ==
  ASSUME PromptTypeOK, NamesApart, Parented, Forward, NEW c \in Ops, LastUser # 0, ~Answered(c), NEW i \in Answers
  PROVE  Follows(msgs[i].parent, i, LastUser, clock)
<1> DEFINE p == msgs[i].parent
<1>1. /\ clock \in Nat /\ Saved \subseteq Messages /\ Messages \subseteq Nat /\ UserMessages \subseteq Saved
      /\ \A k \in Saved : k <= clock /\ msgs[k].parent \in Nat
  BY DEF PromptTypeOK, MessageTypes, MessageRecords, Saved, UserMessages, Messages, NamesApart
<1>2. i \in Assistants /\ i \in Saved /\ msgs[i].finish \in Final
  BY DEF Answers, Assistants
<1>3. p \in Nat /\ p < i /\ Asked(p)
  BY <1>1, <1>2 DEF Parented
<1>4. LastUser \in Nat /\ LastUser \in Visible \cap UserMessages
  BY LoopReads
<1>5. SUFFICES ASSUME LastUser <= p
               PROVE  Exempt(p, i, clock) \/ (LastUser # p /\ Lost(p))
  BY DEF Follows
<1>6. CASE p \notin UserMessages
  BY <1>3, <1>4, <1>6 DEF Asked
<1>7. CASE p \in UserMessages
  <2>1. \A k \in Saved : k >= LastUser => k \in Visible
    <3>1. \A j \in Saved : Completed(j) => LastUser >= j
      BY <1>4 DEF Visible
    <3>2. \A j \in Saved : j \in Nat
      BY <1>1
    <3> QED
      BY <1>4, <3>1, <3>2 DEF Visible
  <2>2. p \in Visible /\ i \in Visible
    BY <1>1, <1>2, <1>3, <1>5, <1>7, <2>1, <1>4
  <2>3. p = LastUser
    BY <1>3, <1>4, <1>5, <1>7, <2>2, LoopReads
  <2>4. PICK m \in Assistants : m = LastAssistant /\ i <= m
    <3>1. i <= LastAssistant
      BY <1>2, <2>2, LoopReads
    <3>2. LastAssistant # 0
      BY <1>1, <1>2, <3>1 DEF Messages
    <3> QED
      BY <3>1, <3>2, LoopReads
  <2>5. m # i
    BY <1>1, <1>2, <2>3, <2>4 DEF Answered, Messages
  <2>6. m \in Nat /\ i \in Nat /\ i < m /\ m <= clock /\ msgs[m].parent \in Nat
    <3>1. m \in Saved /\ i \in Saved
      BY <1>2 DEF Assistants
    <3> QED
      BY <1>1, <2>4, <2>5, <3>1
  <2>7. Follows(p, i, msgs[m].parent, m)
    BY <2>6 DEF Forward
  <2>8. msgs[m].parent < m /\ Asked(msgs[m].parent)
    BY DEF Parented
  <2>9. ~Lost(p)
    BY <1>7, <1>1 DEF Lost
  <2>10. CASE msgs[m].parent <= p
    <3>1. Exempt(p, i, m)
      BY <2>7, <2>9, <2>10 DEF Follows
    <3> QED
      BY <1>1, <1>3, <2>6, <3>1 DEF Exempt
  <2>11. CASE msgs[m].parent > p
    <3>1. msgs[m].parent \notin UserMessages
      BY <1>1, <1>4, <2>1, <2>3, <2>6, <2>11, LoopReads
    <3>2. Lost(msgs[m].parent)
      BY <2>8, <3>1 DEF Asked
    <3> QED
      BY <1>1, <1>3, <2>6, <2>8, <2>11, <3>2 DEF Exempt
  <2> QED
    BY <1>3, <2>6, <2>10, <2>11
<1> QED
  BY <1>6, <1>7

(* What a detached run writes is exempt, ... *)
LEMMA WrittenSpent ==
  ASSUME PromptTypeOK, OneRun, NamesApart, NEW c \in Ops, HandleRequest(c) \/ RunLoop(c),
         Writing(c), Finishes(c), ~Active(c), NEW k \in Assistants', k = task[c].id
  PROVE  Spent(k)'
<1>1. c \in Detached' /\ msgs'[k].by = c
  BY TasksTold DEF OneRun, Writing, Working, Active, Detached, Finishes
<1>2. k \in 1..clock /\ clock \in Nat
  BY DEF NamesApart, PromptTypeOK, MessageTypes
<1>3. \A f \in Ops : Writing(f)' => f # c /\ task'[f].id # k
  BY <1>2, TasksTold DEF Finishes, NamesApart, Begins
<1> QED
  BY <1>1, <1>3 DEF Spent, Writes

(* ... and what it begins. *)
LEMMA BegunSpent ==
  ASSUME PromptTypeOK, OneRun, NamesApart, NEW c \in Ops, HandleRequest(c) \/ RunLoop(c),
         Begins(c), ~Active(c), NEW k \in Assistants', k = clock + 1, msgs'[k].by = c
  PROVE  Spent(k)'
<1>1. c \in Detached' /\ ~Active(c)'
  BY TasksTold DEF OneRun, Planning, Working, Active, Detached, Begins
<1>2. clock \in Nat /\ \A f \in Ops : Writing(f) => task[f].id \in 1..clock
  BY DEF NamesApart, PromptTypeOK, MessageTypes
<1>3. \A f \in Ops : Writing(f)' => f = c \/ task'[f].id # k
  BY <1>2, TasksTold
<1> QED
  BY <1>1, <1>3 DEF Spent, Writes

(* Every step keeps to what has been answered. *)
LEMMA ForwardKept ==
  ASSUME PromptTypeOK, PromptTypeOK', OneRun, NamesApart, NamesApart', Parented, Parented', Later, Forward,
         NEW c \in Ops, HandleRequest(c) \/ RunLoop(c)
  PROVE  Forward'
<1> DEFINE p(i) == msgs[i].parent
<1>a. /\ clock \in Nat
      /\ \A i \in Assistants : i \in Nat /\ i <= clock /\ p(i) \in Nat /\ p(i) < i
      /\ \A f \in Ops : task[f].parent \in Nat /\ task[f].id \in Nat
      /\ \A f \in Ops : Writing(f) => task[f].id <= clock
  <2>1. clock \in Nat /\ \A i \in Assistants : i \in Nat /\ i <= clock /\ p(i) \in Nat /\ p(i) < i
    BY DEF PromptTypeOK, MessageTypes, MessageRecords, NamesApart, Parented, Assistants, Saved, Messages
  <2>2. \A f \in Ops : task[f].parent \in Nat /\ task[f].id \in Nat
    BY DEF PromptTypeOK, TaskTypes, TaskRecords
  <2> QED
    BY <2>1, <2>2 DEF NamesApart
<1>b. /\ clock' \in Nat
      /\ \A i \in Assistants' : i \in Nat /\ i <= clock' /\ p(i)' \in Nat /\ p(i)' < i
      /\ \A f \in Ops : task'[f].parent \in Nat /\ task'[f].id \in Nat
      /\ \A f \in Ops : Writing(f)' => task'[f].id <= clock'
  BY DEF PromptTypeOK, MessageTypes, MessageRecords, TaskTypes, TaskRecords, NamesApart, Parented, Assistants, Saved, Messages
<1>1. clock <= clock'
  BY NobodySaves
<1>2. ASSUME NEW i \in Answers'
      PROVE  \/ i \in Answers /\ msgs'[i] = msgs[i]
             \/ i = task[c].id /\ Writing(c) /\ Finishes(c)
  BY AssistantsTold DEF Answers, Final
<1>3. Answers \subseteq Assistants /\ Answers' \subseteq Assistants'
  BY DEF Answers
<1>4. ASSUME NEW i \in Assistants', NEW l \in Nat, NEW k \in i..l, Spent(k)', NEW q \in Nat
      PROVE  Follows(p(i), i, q, l)'
  <2>1. p(i)' + 1 <= i /\ k \in (p(i)' + 1)..l /\ k >= i
    BY <1>b, <1>4
  <2>2. Exempt(p(i), i, l)'
    BY <1>4, <2>1 DEF Exempt
  <2> QED
    BY <2>2 DEF Follows
<1>5. ASSUME NEW i \in Answers', i = task[c].id, Writing(c), Finishes(c), ~Active(c), NEW l \in Nat, i <= l, NEW q \in Nat
      PROVE  Follows(p(i), i, q, l)'
  <2>1. Spent(i)' /\ i \in Assistants' /\ i \in i..l
    BY <1>3, <1>5, <1>b, WrittenSpent
  <2> QED
    BY <1>4, <2>1
<1>6. ASSUME NEW i \in Answers, i \in Answers', msgs'[i] = msgs[i], NEW q \in Nat, NEW l \in Nat, l <= clock,
             Follows(p(i), i, q, l), NEW m \in Nat, l <= m
      PROVE  Follows(p(i), i, q, m)'
  <2> DEFINE r == p(i)
  <2>1. r \in Nat /\ i \in Nat /\ p(i)' = r
    BY <1>3, <1>6, <1>a
  <2>2. ASSUME NEW s \in Nat, s = r PROVE Follows(s, i, q, m)'
    BY <1>6, <2>1, <2>2, FollowsStays
  <2> QED
    BY <2>1, <2>2
<1>7. ASSUME NEW f \in Ops, Writing(f), Active(f), NEW i \in Assistants, i > task[f].id
      PROVE  Spent(i)
  <2>1. msgs[i].by \in Detached
    BY <1>7 DEF Later
  <2>2. \A g \in Ops : Active(g) => g = f
    BY <1>7 DEF OneRun
  <2> QED
    BY <1>7, <1>a, <2>1, <2>2 DEF Spent, Writes
<1> HIDE DEF p
<1>8. ASSUME NEW i \in Answers', NEW l \in Assistants', i < l, NEW q \in Nat, q = p(l)'
      PROVE  Follows(p(i), i, q, l)'
  <2>1. i \in Nat /\ l \in Nat /\ i <= l /\ i \in Assistants'
    BY <1>3, <1>8, <1>b
  <2>2. CASE i \in Answers /\ msgs'[i] = msgs[i]
    <3>1. CASE l \in Assistants /\ msgs'[l] = msgs[l]
      <4>1. q = p(l) /\ Follows(p(i), i, q, l)
        BY <1>8, <2>2, <3>1 DEF Forward, p
      <4> QED
        BY <1>6, <1>8, <1>a, <2>1, <2>2, <3>1, <4>1
    <3>2. CASE l = task[c].id /\ Writing(c) /\ Finishes(c)
      <4>1. CASE Active(c)
        <5>1. q = task[c].parent
          BY <1>8, <3>2 DEF Finishes, p
        <5>2. Follows(p(i), i, q, l)
          BY <1>8, <2>2, <3>2, <4>1, <5>1 DEF Forward, p
        <5> QED
          BY <1>6, <1>8, <1>a, <2>1, <2>2, <3>2, <5>2
      <4>2. CASE ~Active(c)
        <5>1. Spent(l)' /\ l \in i..l
          BY <2>1, <3>2, <4>2, <1>8, WrittenSpent
        <5> QED
          BY <1>4, <2>1, <5>1
      <4> QED
        BY <4>1, <4>2
    <3>3. CASE l = clock + 1 /\ Begins(c) /\ msgs'[l].parent = task[c].parent /\ msgs'[l].by = c
      <4>1. CASE Active(c)
        <5>1. q = task[c].parent /\ Planning(c)
          BY <1>8, <3>3 DEF Begins, p
        <5>2. Follows(p(i), i, q, clock)
          BY <2>2, <4>1, <5>1 DEF Forward, p
        <5>3. clock <= l
          BY <3>3, <1>a
        <5> QED
          BY <1>6, <1>8, <1>a, <2>1, <2>2, <5>2, <5>3
      <4>2. CASE ~Active(c)
        <5>1. Spent(l)' /\ l \in i..l
          BY <2>1, <3>3, <4>2, <1>8, BegunSpent
        <5> QED
          BY <1>4, <2>1, <5>1
      <4> QED
        BY <4>1, <4>2
    <3> QED
      BY <3>1, <3>2, <3>3, AssistantsTold
  <2>3. CASE i = task[c].id /\ Writing(c) /\ Finishes(c)
    <3>1. CASE ~Active(c)
      BY <1>5, <2>1, <2>3, <3>1
    <3>2. CASE Active(c)
      <4>1. l \in Assistants /\ msgs'[l] = msgs[l]
        BY <1>8, <2>1, <2>3, AssistantsTold DEF Finishes, Begins
      <4>2. Spent(l)
        BY <1>7, <1>8, <2>3, <3>2, <4>1
      <4>3. l \in Messages /\ l <= clock
        BY <1>a, <4>1 DEF Assistants, Saved
      <4>4. Spent(l)' /\ l \in i..l
        BY <2>1, <4>2, <4>3, SpentStays
      <4> QED
        BY <1>4, <2>1, <4>4
    <3> QED
      BY <3>1, <3>2
  <2> QED
    BY <1>2, <2>2, <2>3
<1>9. ASSUME NEW f \in Ops, Writing(f)', Active(f)', NEW i \in Answers', NEW q \in Nat, q = task'[f].parent,
             NEW l \in Nat, l = task'[f].id, i < l
      PROVE  Follows(p(i), i, q, l)'
  <2>1. i \in Nat /\ i <= l /\ i \in Assistants'
    BY <1>3, <1>9, <1>b
  <2>2. CASE f = c /\ Begins(c)
    <3>1. i \in Answers /\ msgs'[i] = msgs[i]
      BY <1>2, <2>2 DEF Finishes, Begins
    <3>2. Planning(c) /\ Active(c) /\ q = task[c].parent /\ l = clock + 1
      BY <1>9, <2>2 DEF Begins, Active
    <3>3. Follows(p(i), i, q, clock)
      BY <3>1, <3>2 DEF Forward, p
    <3>4. clock <= l
      BY <3>2, <1>a
    <3> QED
      BY <1>6, <1>9, <1>a, <3>1, <3>3, <3>4
  <2>3. CASE Writing(f) /\ task'[f] = task[f]
    <3>1. Active(f) /\ q = task[f].parent /\ l = task[f].id /\ l <= clock
      BY <1>9, <1>a, <2>3, TasksTold
    <3>2. CASE i \in Answers /\ msgs'[i] = msgs[i]
      <4>1. Follows(p(i), i, q, l)
        BY <1>9, <2>3, <3>1, <3>2 DEF Forward, p
      <4> QED
        BY <1>6, <1>9, <3>1, <3>2, <4>1
    <3>3. CASE i = task[c].id /\ Writing(c) /\ Finishes(c)
      <4>1. ~Active(c)
        BY <1>9, <3>1, <3>3 DEF OneRun, Finishes
      <4> QED
        BY <1>5, <1>9, <2>1, <3>3, <4>1
    <3> QED
      BY <1>2, <3>2, <3>3
  <2> QED
    BY <1>9, <2>2, <2>3, TasksTold
<1>10. ASSUME NEW f \in Ops, Planning(f)', Active(f)', NEW i \in Answers', NEW q \in Nat, q = task'[f].parent,
              NEW l \in Nat, l = clock'
       PROVE  Follows(p(i), i, q, l)'
  <2>1. i \in Nat /\ i <= l /\ i \in Assistants' /\ clock <= l
    BY <1>1, <1>3, <1>10, <1>b
  <2>2. CASE f = c /\ Plans(c)
    <3>1. i \in Answers /\ msgs'[i] = msgs[i]
      BY <2>2 DEF Plans, Answers, Assistants, UserMessages, Saved
    <3>2. q = LastUser /\ LastUser # 0 /\ ~Answered(c)
      BY <1>10, <2>2 DEF Plans
    <3>3. Follows(p(i), i, q, clock)
      BY <3>1, <3>2, PlansFollow DEF p
    <3> QED
      BY <1>6, <1>a, <2>1, <3>1, <3>3
  <2>3. CASE Planning(f) /\ task'[f] = task[f]
    <3>1. Active(f) /\ q = task[f].parent
      BY <1>10, <2>3, TasksTold
    <3>2. CASE i \in Answers /\ msgs'[i] = msgs[i]
      <4>1. Follows(p(i), i, q, clock)
        BY <2>3, <3>1, <3>2 DEF Forward, p
      <4> QED
        BY <1>6, <1>a, <2>1, <3>2, <4>1
    <3>3. CASE i = task[c].id /\ Writing(c) /\ Finishes(c)
      <4>1. ~Active(c)
        BY <1>10, <3>1, <3>3 DEF OneRun, Finishes
      <4> QED
        BY <1>5, <2>1, <3>3, <4>1
    <3> QED
      BY <1>2, <3>2, <3>3
  <2> QED
    BY <1>10, <2>2, <2>3, TasksTold
<1> QED
  BY <1>3, <1>8, <1>9, <1>10, <1>b DEF Forward, p

(* What becomes complete is late or still to be answered, and what a reply  *)
(* or a summary begins with is accounted for.                              *)
LEMMA CompleteTold ==
  ASSUME PromptTypeOK, NEW c \in Ops, HandleRequest(c) \/ RunLoop(c)
  PROVE  /\ shown \subseteq shown' /\ passed \subseteq passed'
         /\ Begins(c) => task[c].sees \subseteq shown' \cup passed'
         /\ \A m \in Complete' : m \in Complete \/ m \in passed' \/ ~Late(m)
<1> USE PromptAssumption DEF PromptTypeOK, MessageTypes, TaskTypes, RunTypes, Begins, Planning, Writing, Complete, UserMessages, Saved, UserMessage, Absent, Requests, inputVars, slotVars
<1>1. CASE RequestBegins(c)
  BY <1>1 DEF RequestBegins, StageGoto, loopVars, dbVars
<1>2. CASE CleanupReads(c)
  BY <1>2 DEF CleanupReads, StageGoto, loopVars, dbVars
<1>3. CASE CleanupRemoves(c)
  BY <1>3 DEF CleanupRemoves, Save, loopVars
<1>4. CASE CleanupEnds(c)
  BY <1>4 DEF CleanupEnds, StageGoto, loopVars, dbVars
<1>5. CASE Creates(c)
  BY <1>5 DEF Creates, StageGoto, loopVars, dbVars, Named
<1>6. CASE Saves(c)
  BY <1>6 DEF Saves, StageGoto, Save, loopVars
<1>7. CASE RequestsCompaction(c)
  BY <1>7 DEF RequestsCompaction, SaveBare, StageGoto, Save, Named, loopVars
<1>8. CASE Fills(c)
  BY <1>8, FillsTold DEF Fills, StageGoto, loopVars
<1>9. CASE NoReply(c)
  BY <1>9 DEF NoReply, StageGoto, loopVars, dbVars
<1>10. CASE Loops(c)
  BY <1>10 DEF Loops, StageGoto, dbVars, Start, In
<1>11. CASE Cancels(c)
  BY <1>11 DEF Cancels, StageGoto, loopVars, dbVars, CancelSlot, In
<1>12. CASE RevertChecks(c)
  BY <1>12 DEF RevertChecks, StageGoto, loopVars, dbVars
<1>13. CASE RevertReads(c)
  BY <1>13 DEF RevertReads, StageGoto, loopVars, dbVars
<1>14. CASE SetsRevert(c)
  BY <1>14 DEF SetsRevert, StageGoto, loopVars, dbVars
<1>15. CASE ClearsRevert(c)
  BY <1>15 DEF ClearsRevert, StageGoto, loopVars, dbVars
<1>16. CASE LoopExits(c)
  BY <1>16 DEF LoopExits, LoopGoto, dbVars, requestVars, TaskOf
<1>17. CASE LoopCompacts(c)
  BY <1>17 DEF LoopCompacts, LoopGoto, dbVars, requestVars, TaskOf
<1>18. CASE LoopOverflows(c)
  BY <1>18 DEF LoopOverflows, LoopGoto, dbVars, requestVars, TaskOf
<1>19. CASE LoopPrepares(c)
  BY <1>19 DEF LoopPrepares, LoopGoto, dbVars, requestVars, TaskOf
<1>20. CASE ReplyStarts(c)
  BY <1>20 DEF ReplyStarts, LoopGoto, requestVars, Starts, Named, Save, Held
<1>21. CASE SummaryStarts(c)
  BY <1>21 DEF SummaryStarts, LoopGoto, requestVars, Starts, Named, Save, Held
<1>22. CASE ReplyEnds(c)
  BY <1>22 DEF ReplyEnds, LoopGoto, requestVars, Save, Held
<1>23. CASE SummaryFails(c)
  BY <1>23 DEF SummaryFails, LoopGoto, requestVars, Save, Held
<1>24. CASE SummaryEnds(c)
  BY <1>24 DEF SummaryEnds, LoopGoto, requestVars, Save, Held
<1>25. CASE Replays(c)
  BY <1>25 DEF Replays, SaveBare, LoopGoto, requestVars, Save, Named
<1>26. CASE CreatesCompaction(c)
  BY <1>26 DEF CreatesCompaction, SaveBare, LoopGoto, requestVars, Save, Named
<1>27. CASE LoopFills(c)
  BY <1>27, FillsTold DEF LoopFills, LoopGoto, requestVars
<1>28. CASE LoopFails(c)
  BY <1>28 DEF LoopFails, LoopGoto, dbVars, requestVars
<1>29. CASE LoopInterrupted(c)
  <2>1. /\ loop[c] \in Working /\ loop' = [loop EXCEPT ![c] = "interrupted"]
        /\ UNCHANGED <<clock, inputVars, task>>
    BY <1>29 DEF LoopInterrupted, LoopGoto, Working
  <2>2. msgs' = msgs \/ \E e : msgs' = [msgs EXCEPT ![task[c].id] = Held(c, e)]
    BY <1>29 DEF LoopInterrupted, Save
  <2>3. \A e : Held(c, e).role \in {"reply", "summary"}
    BY DEF Held
  <2> QED
    BY <2>1, <2>2, <2>3
<1>30. CASE RunEnds(c)
  BY <1>30 DEF RunEnds, Finish, In, promptVars, dbVars, requestVars, loopVars
<1> QED
  BY <1>1, <1>2, <1>3, <1>4, <1>5, <1>6, <1>7, <1>8, <1>9, <1>10, <1>11, <1>12, <1>13, <1>14, <1>15, <1>16, <1>17, <1>18, <1>19, <1>20, <1>21, <1>22, <1>23, <1>24, <1>25, <1>26, <1>27, <1>28, <1>29, <1>30 DEF HandleRequest, RunLoop

(* What is answered was in the input. *)
LEMMA InputsKept ==
  ASSUME PromptTypeOK, OneRun, NamesApart, Inputs, NEW c \in Ops, HandleRequest(c) \/ RunLoop(c)
  PROVE  Inputs'
<1> SUFFICES ASSUME NEW m \in Complete', m \notin passed'
             PROVE  Included(m)'
  BY DEF Inputs
<1>1. Included(m)
  <2>1. m \in Complete \ passed \/ ~Late(m)
    BY CompleteTold
  <2>2. ~Late(m) => Included(m)
    BY DEF Late, Included, Writing, Planning
  <2> QED
    BY <2>1, <2>2 DEF Inputs
<1>2. shown \subseteq shown' /\ (Begins(c) => task[c].sees \subseteq shown' \cup passed')
  BY CompleteTold
<1>3. ASSUME Begins(c), task[c].parent >= m
      PROVE  m \in shown'
  BY <1>1, <1>2, <1>3 DEF Included, Begins
<1>4. ASSUME NEW i \in Assistants', msgs'[i].parent >= m
      PROVE  m \in shown'
  <2>1. CASE i \in Assistants /\ msgs'[i] = msgs[i]
    BY <1>1, <1>2, <1>4, <2>1 DEF Included
  <2>2. CASE i = task[c].id /\ Writing(c) /\ Finishes(c)
    BY <1>1, <1>2, <1>4, <2>2 DEF Included, Finishes
  <2>3. CASE Begins(c) /\ msgs'[i].parent = task[c].parent
    BY <1>3, <1>4, <2>3
  <2> QED
    BY <2>1, <2>2, <2>3, AssistantsTold
<1>5. ASSUME NEW f \in Ops, Writing(f)', task'[f].parent >= m
      PROVE  m \in shown'
  <2>1. CASE Writing(f) /\ task'[f] = task[f]
    BY <1>1, <1>2, <1>5, <2>1 DEF Included
  <2>2. CASE f = c /\ Begins(c)
    BY <1>3, <1>5, <2>2 DEF Begins
  <2> QED
    BY <1>5, <2>1, <2>2, TasksTold
<1>6. ASSUME NEW f \in Ops, Planning(f)', task'[f].parent >= m
      PROVE  m \in task'[f].sees \cup shown'
  <2>1. CASE Planning(f) /\ task'[f] = task[f]
    BY <1>1, <1>2, <1>6, <2>1 DEF Included
  <2>2. CASE f = c /\ Plans(c)
    <3>1. m \in Complete /\ task'[f].sees = Visible \cap Complete
      BY <2>2 DEF Plans, Complete, UserMessages, Saved
    <3>2. CASE m \in Visible
      BY <3>1, <3>2
    <3>3. CASE m \notin Visible
      <4>1. PICK j \in Saved : Completed(j) /\ ~(m >= j)
        BY <3>1, <3>3 DEF Visible, Complete, UserMessages
      <4>2. PICK s \in Saved : msgs[s].role = "summary" /\ msgs[s].parent = j
        BY <4>1 DEF Completed
      <4>3. s \in Assistants /\ j >= m
        BY <3>1, <4>1, <4>2 DEF Assistants, UserMessages, Requests, Saved, Messages, Complete
      <4> QED
        BY <1>1, <1>2, <4>2, <4>3 DEF Included
    <3> QED
      BY <3>2, <3>3
  <2> QED
    BY <1>6, <2>1, <2>2, TasksTold
<1> QED
  BY <1>4, <1>5, <1>6 DEF Included

(* The invariant holds at first, ... *)
LEMMA InvInit == PromptInit => PromptInv
<1> SUFFICES ASSUME PromptInit PROVE PromptInv
  OBVIOUS
<1> USE PromptAssumption DEF PromptInit, Init, Messages, NoPoint, NoTask
<1>1. PromptTypeOK
  BY DEF PromptTypeOK, MessageTypes, RequestTypes, PointTypes, RunTypes, TaskTypes, MessageRecords, Roles, Requests,
         Final, Stages, Working, Phases, Points, TaskRecords, UserMessage, Absent, Reply
<1>2. OneRun
  BY DEF OneRun, Active, Working
<1>3. /\ Saved = {1, 2} /\ UserMessages = {1} /\ Assistants = {2}
      /\ msgs[2].parent = 1 /\ msgs[2].role = "reply"
  BY DEF Saved, UserMessages, Assistants, UserMessage, Absent, Reply, Requests
<1>4. \A f \in Ops : ~Writing(f) /\ ~Planning(f) /\ stage[f] = "new" /\ mine[f] = 0
  BY DEF Writing, Planning
<1>5. NamesApart
  BY <1>3, <1>4 DEF NamesApart
<1>6. PointsStand
  BY <1>4 DEF PointsStand, Settled, Unwritten, Pends, Writes
<1>7. Parented
  BY <1>3, <1>4 DEF Parented, Asked
<1>8. Later /\ Inputs
  BY <1>3, <1>4 DEF Later, Inputs, Included, Complete, Writing, Planning
<1>9. Forward
  BY <1>3, <1>4 DEF Forward, Answers
<1> QED
  BY <1>1, <1>2, <1>5, <1>6, <1>7, <1>8, <1>9 DEF PromptInv

(* ... and every step keeps it. *)
LEMMA InvNext == PromptInv /\ [PromptNext]_vars => PromptInv'
<1> SUFFICES ASSUME PromptInv, [PromptNext]_vars PROVE PromptInv'
  OBVIOUS
<1>1. CASE UNCHANGED vars
  BY <1>1 DEF vars, slotVars, promptVars, dbVars, requestVars, loopVars, PromptInv, PromptTypeOK, MessageTypes,
     RequestTypes, PointTypes, RunTypes, TaskTypes, OneRun, Active, NamesApart, Writing, PointsStand, Settled,
     Unwritten, Pends, Writes, Saved, UserMessages, Assistants, Parented, Planning, Asked, Lost, Later, Detached,
     Forward, Follows, Exempt, Spent, Removed, Answers, Inputs, Included, Complete, inputVars
<1>2. ASSUME NEW c \in Ops, HandleRequest(c) \/ RunLoop(c)
      PROVE  PromptInv'
  <2> USE <1>2 DEF PromptInv
  <2>1. PromptTypeOK'
    BY MessageTypesKept, RequestTypesKept, PointTypesKept, RunTypesKept, TaskTypesKept DEF PromptTypeOK
  <2>2. MessageTypes'
    BY <2>1 DEF PromptTypeOK
  <2>3. OneRun' /\ Inputs'
    BY OneRunKept, InputsKept
  <2>4. NamesApart'
    BY <2>2, NamesApartKept
  <2>5. PointsStand'
    BY <2>2, PointsStandKept
  <2>6. Parented' /\ Later'
    BY <2>4, ParentedKept, LaterKept
  <2>7. Forward'
    BY <2>1, <2>4, <2>6, ForwardKept
  <2> QED
    BY <2>1, <2>3, <2>4, <2>5, <2>6, <2>7
<1> QED
  BY <1>1, <1>2 DEF PromptNext

(* PromptInv holds in every reachable state.                               *)
LEMMA PromptInvariance == PromptSpec => []PromptInv
  BY InvInit, InvNext, PTL DEF PromptSpec

(* A user message that has its final answer is not answered again, unless  *)
(* a detached run does it or a message was removed under a run             *)
(* (prompt.ts 1114-1133).                                                  *)
THEOREM AnsweredOnceAlways == PromptSpec => []AnsweredOnce
<1>1. PromptInv => AnsweredOnce
  <2> SUFFICES ASSUME PromptInv, NEW i \in Assistants, NEW j \in Assistants, i < j,
                      msgs[i].finish \in Final, msgs[j].parent = msgs[i].parent
               PROVE  \E k \in (msgs[i].parent + 1)..j : Removed(k) \/ (k >= i /\ msgs[k].by \in Detached)
    BY DEF AnsweredOnce
  <2>1. msgs[i].parent \in Nat
    BY DEF PromptInv, PromptTypeOK, MessageTypes, MessageRecords, Assistants, Saved
  <2>2. Exempt(msgs[i].parent, i, j)
    BY <2>1 DEF PromptInv, Forward, Follows, Answers
  <2>3. PICK k \in (msgs[i].parent + 1)..j : Lost(k) \/ (k >= i /\ Spent(k))
    BY <2>2 DEF Exempt
  <2>4. Lost(k) => Removed(k)
    BY DEF Lost, Removed, Unwritten, Pends, PromptInv, PromptTypeOK, MessageTypes
  <2>5. Spent(k) => Removed(k) \/ msgs[k].by \in Detached
    BY DEF Spent
  <2> QED
    BY <2>3, <2>4, <2>5
<1> QED
  BY <1>1, PromptInvariance, PTL

(* A run decides that it is over at the top of its loop. *)
LEMMA ExitsTold ==
  ASSUME PromptTypeOK, NEW c \in Ops, HandleRequest(c) \/ RunLoop(c),
         NEW f \in Ops, loop[f] # "decided", loop'[f] = "decided"
  PROVE  f = c /\ LoopExits(c)
<1>a. loop \in [Ops -> Working \cup {"none", "decided", "stopped", "failed", "interrupted"}]
  BY DEF PromptTypeOK, RunTypes
<1>1. CASE RequestBegins(c)
  BY <1>1, <1>a DEF RequestBegins, StageGoto, loopVars, dbVars
<1>2. CASE CleanupReads(c)
  BY <1>2, <1>a DEF CleanupReads, StageGoto, loopVars, dbVars
<1>3. CASE CleanupRemoves(c)
  BY <1>3, <1>a DEF CleanupRemoves, Save, loopVars
<1>4. CASE CleanupEnds(c)
  BY <1>4, <1>a DEF CleanupEnds, StageGoto, loopVars, dbVars
<1>5. CASE Creates(c)
  BY <1>5, <1>a DEF Creates, StageGoto, loopVars, dbVars, Named
<1>6. CASE Saves(c)
  BY <1>6, <1>a DEF Saves, StageGoto, Save, loopVars
<1>7. CASE RequestsCompaction(c)
  BY <1>7, <1>a DEF RequestsCompaction, SaveBare, StageGoto, Save, Named, loopVars
<1>8. CASE Fills(c)
  BY <1>8, <1>a, FillsTold DEF Fills, StageGoto, loopVars
<1>9. CASE NoReply(c)
  BY <1>9, <1>a DEF NoReply, StageGoto, loopVars, dbVars
<1>10. CASE Loops(c)
  BY <1>10, <1>a DEF Loops, StageGoto, dbVars, Start, In
<1>11. CASE Cancels(c)
  BY <1>11, <1>a DEF Cancels, StageGoto, loopVars, dbVars, CancelSlot, In
<1>12. CASE RevertChecks(c)
  BY <1>12, <1>a DEF RevertChecks, StageGoto, loopVars, dbVars
<1>13. CASE RevertReads(c)
  BY <1>13, <1>a DEF RevertReads, StageGoto, loopVars, dbVars
<1>14. CASE SetsRevert(c)
  BY <1>14, <1>a DEF SetsRevert, StageGoto, loopVars, dbVars
<1>15. CASE ClearsRevert(c)
  BY <1>15, <1>a DEF ClearsRevert, StageGoto, loopVars, dbVars
<1>16. CASE LoopExits(c)
  BY <1>16, <1>a DEF LoopExits, LoopGoto, dbVars, requestVars, TaskOf
<1>17. CASE LoopCompacts(c)
  BY <1>17, <1>a DEF LoopCompacts, LoopGoto, dbVars, requestVars, TaskOf
<1>18. CASE LoopOverflows(c)
  BY <1>18, <1>a DEF LoopOverflows, LoopGoto, dbVars, requestVars, TaskOf
<1>19. CASE LoopPrepares(c)
  BY <1>19, <1>a DEF LoopPrepares, LoopGoto, dbVars, requestVars, TaskOf
<1>20. CASE ReplyStarts(c)
  BY <1>20, <1>a DEF ReplyStarts, LoopGoto, requestVars, Starts, Named, Save, Held
<1>21. CASE SummaryStarts(c)
  BY <1>21, <1>a DEF SummaryStarts, LoopGoto, requestVars, Starts, Named, Save, Held
<1>22. CASE ReplyEnds(c)
  BY <1>22, <1>a DEF ReplyEnds, LoopGoto, requestVars, Save, Held
<1>23. CASE SummaryFails(c)
  BY <1>23, <1>a DEF SummaryFails, LoopGoto, requestVars, Save, Held
<1>24. CASE SummaryEnds(c)
  BY <1>24, <1>a DEF SummaryEnds, LoopGoto, requestVars, Save, Held
<1>25. CASE Replays(c)
  BY <1>25, <1>a DEF Replays, SaveBare, LoopGoto, requestVars, Save, Named
<1>26. CASE CreatesCompaction(c)
  BY <1>26, <1>a DEF CreatesCompaction, SaveBare, LoopGoto, requestVars, Save, Named
<1>27. CASE LoopFills(c)
  BY <1>27, <1>a, FillsTold DEF LoopFills, LoopGoto, requestVars
<1>28. CASE LoopFails(c)
  BY <1>28, <1>a DEF LoopFails, LoopGoto, dbVars, requestVars
<1>29. CASE LoopInterrupted(c)
  BY <1>29, <1>a DEF LoopInterrupted, LoopGoto, requestVars, Save, Held
<1>30. CASE RunEnds(c)
  BY <1>30, <1>a DEF RunEnds, Finish, In, promptVars, dbVars, requestVars, loopVars
<1> QED
  BY <1>1, <1>2, <1>3, <1>4, <1>5, <1>6, <1>7, <1>8, <1>9, <1>10, <1>11, <1>12, <1>13, <1>14, <1>15, <1>16, <1>17, <1>18, <1>19, <1>20, <1>21, <1>22, <1>23, <1>24, <1>25, <1>26, <1>27, <1>28, <1>29, <1>30 DEF HandleRequest, RunLoop

(* When a run decides that nothing is left to answer, each user message it *)
(* has read with its parts was in the input for a reply, of this run or    *)
(* another; unless its parts were late, or it was history to a compaction  *)
(* (prompt.ts 1114-1133).                                                  *)
THEOREM PromptsAnswered == PromptSpec => ReadIncluded
<1> DEFINE AllIncluded == \A f \in Ops :
             loop[f] # "decided" /\ loop'[f] = "decided" => task'[f].sees \subseteq shown \cup passed
<1>1. PromptInv /\ [PromptNext]_vars => [AllIncluded]_vars
  <2> SUFFICES ASSUME PromptInv, PromptNext, NEW f \in Ops, loop[f] # "decided", loop'[f] = "decided",
                      NEW m \in task'[f].sees, m \notin passed
               PROVE  m \in shown
    OBVIOUS
  <2>1. LoopExits(f)
    BY ExitsTold DEF PromptNext, PromptInv
  <2>2. m \in Visible \cap Complete /\ Answered(f)
    BY <2>1 DEF LoopExits, TaskOf, PromptInv, PromptTypeOK, TaskTypes
  <2>3. PromptTypeOK /\ Included(m)
    BY <2>2 DEF PromptInv, Inputs
  <2>4. m <= LastUser /\ m \in Nat /\ LastUser \in Nat
    BY <2>2, <2>3, LoopReads DEF Complete, UserMessages, Saved, Messages
  <2>5. LastAssistant \in Assistants /\ msgs[LastAssistant].parent = LastUser
    BY <2>2, <2>3, LoopReads DEF Answered
  <2> QED
    BY <2>3, <2>4, <2>5 DEF Included
<1> HIDE DEF AllIncluded
<1>2. PromptSpec => [][AllIncluded]_vars
  BY <1>1, PromptInvariance, PTL DEF PromptSpec
<1> QED
  BY <1>2 DEF ReadIncluded, AllIncluded

(* A request reads what it has to remove when it begins to clean up. *)
LEMMA CleansTold ==
  ASSUME PromptTypeOK, NEW c \in Ops, HandleRequest(c) \/ RunLoop(c),
         NEW d \in Ops, stage[d] = "cleanup", stage'[d] = "remove"
  PROVE  gone'[d] = Reverted(known[d])
<1>a. stage \in [Ops -> Stages] /\ gone \in [Ops -> SUBSET Messages]
  BY DEF PromptTypeOK, RequestTypes
<1>0. CASE RunLoop(c)
  BY <1>0 DEF RunLoop, LoopExits, LoopCompacts, LoopOverflows, LoopPrepares, ReplyStarts, SummaryStarts, Starts,
         ReplyEnds, SummaryFails, SummaryEnds, Replays, CreatesCompaction, LoopFills, LoopFails, LoopInterrupted, RunEnds,
         requestVars, promptVars
<1>1. CASE RequestBegins(c)
  BY <1>1, <1>a DEF RequestBegins, StageGoto, loopVars, dbVars
<1>2. CASE CleanupReads(c)
  BY <1>2, <1>a DEF CleanupReads, StageGoto, loopVars, dbVars
<1>3. CASE CleanupRemoves(c)
  BY <1>3, <1>a DEF CleanupRemoves, Save, loopVars
<1>4. CASE CleanupEnds(c)
  BY <1>4, <1>a DEF CleanupEnds, StageGoto, loopVars, dbVars
<1>5. CASE Creates(c)
  BY <1>5, <1>a DEF Creates, StageGoto, loopVars, dbVars, Named
<1>6. CASE Saves(c)
  BY <1>6, <1>a DEF Saves, StageGoto, Save, loopVars
<1>7. CASE RequestsCompaction(c)
  BY <1>7, <1>a DEF RequestsCompaction, SaveBare, StageGoto, Save, Named, loopVars
<1>8. CASE Fills(c)
  BY <1>8, <1>a DEF Fills, StageGoto, loopVars
<1>9. CASE NoReply(c)
  BY <1>9, <1>a DEF NoReply, StageGoto, loopVars, dbVars
<1>10. CASE Loops(c)
  BY <1>10, <1>a DEF Loops, StageGoto, dbVars, Start, In
<1>11. CASE Cancels(c)
  BY <1>11, <1>a DEF Cancels, StageGoto, loopVars, dbVars, CancelSlot, In
<1>12. CASE RevertChecks(c)
  BY <1>12, <1>a DEF RevertChecks, StageGoto, loopVars, dbVars
<1>13. CASE RevertReads(c)
  BY <1>13, <1>a DEF RevertReads, StageGoto, loopVars, dbVars
<1>14. CASE SetsRevert(c)
  BY <1>14, <1>a DEF SetsRevert, StageGoto, loopVars, dbVars
<1>15. CASE ClearsRevert(c)
  BY <1>15, <1>a DEF ClearsRevert, StageGoto, loopVars, dbVars
<1> QED
  BY <1>0, <1>1, <1>2, <1>3, <1>4, <1>5, <1>6, <1>7, <1>8, <1>9, <1>10, <1>11, <1>12, <1>13, <1>14, <1>15 DEF HandleRequest

(* What a prompt has saved after a revert stays when another prompt cleans *)
(* up after the same revert (revert.ts 101-124).                           *)
THEOREM CleanupSparesAlways == PromptSpec => CleanupSpares
<1> DEFINE Spared == \A c, d \in Ops :
                       /\ stage[c] = "cleanup" /\ stage'[c] = "remove"
                       /\ stage[d] \in {"fill", "loop", "quiet", "over"} /\ known[d] = known[c] /\ ~known[c].keep
                       => mine[d] \notin gone'[c]
<1>1. PromptInv /\ [PromptNext]_vars => [Spared]_vars
  <2> SUFFICES ASSUME PromptInv, PromptNext, NEW c \in Ops, NEW d \in Ops,
                      stage[c] = "cleanup", stage'[c] = "remove", known[d] = known[c], ~known[c].keep
               PROVE  mine[d] \notin gone'[c]
    OBVIOUS
  <2>1. gone'[c] = Reverted(known[c])
    BY CleansTold DEF PromptNext, PromptInv
  <2>2. CASE mine[d] = 0
    BY <2>1, <2>2, PromptAssumption DEF Reverted, Saved, Messages
  <2>3. CASE mine[d] # 0
    BY <2>1, <2>3 DEF Reverted, PromptInv, PointsStand
  <2> QED
    BY <2>2, <2>3
<1> HIDE DEF Spared
<1>2. PromptSpec => [][Spared]_vars
  BY <1>1, PromptInvariance, PTL DEF PromptSpec
<1> QED
  BY <1>2 DEF CleanupSpares, Spared

=============================================================================
