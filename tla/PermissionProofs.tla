--------------------------- MODULE PermissionProofs ---------------------------
(* Theorems about Permission, for any set of asks and replies, any         *)
(* requests and rulesets, and whatever the runtime preempts or interrupts. *)
EXTENDS Permission, TLAPS

(* A request that was never pending has no Deferred, no event and no reply. *)
Fresh ==
  \A a \in Asks :
    /\ apc[a] \in {"new", "evaluating"} => deferred[a] = "none"
    /\ deferred[a] = "none" => a \notin pending /\ events[a] = <<>> /\ \A r \in Replies : item[r] # a

(* A request has at most one reply settling it, and none while pending. *)
OneReply ==
  /\ \A r \in Replies : item[r] \notin pending
  /\ \A r, q \in Replies : item[r] = item[q] /\ item[r] # None => r = q

(* What a reply that took a request still has to do for it. *)
Owed ==
  \A r \in Replies :
    /\ rpc[r] \in {"publish", "complete", "approve", "sweep"} => answer[r] \in {"once", "always", "reject"}
    /\ rpc[r] \in {"publish", "complete"} =>
         /\ item[r] \in Asks /\ deferred[item[r]] = "open"
         /\ events[item[r]] = IF rpc[r] = "publish" THEN <<>> ELSE <<answer[r]>>

(* A waiting ask has an entry, be it in the map of a disposed instance, or *)
(* a reply that took it.                                                   *)
Known ==
  \A a \in Asks : apc[a] \in {"asking", "waiting"} /\ deferred[a] = "open" =>
    a \in pending \/ \E r \in Replies : Settling(r, a) \/ (item[r] = a /\ rpc[r] = "interrupted")

SettleInv ==
  PermissionTypeOK /\ Fresh /\ OneReply /\ Owed /\ AnsweredOnce /\ Known

(* Initially nothing is pending and nothing has been asked. *)
LEMMA SettleInit == Init => SettleInv
<1> SUFFICES ASSUME Init PROVE SettleInv
  OBVIOUS
<1> USE PermissionAssumption DEF Init
<1>0. events \in [Asks -> Seq({"once", "always", "reject"})]
  OBVIOUS
<1>1. PermissionTypeOK
  BY <1>0 DEF PermissionTypeOK, AskPCs, ReplyPCs
<1>2. Fresh /\ OneReply
  BY DEF Fresh, OneReply
<1>3. Owed /\ AnsweredOnce /\ Known
  BY DEF Owed, AnsweredOnce, Known
<1> QED
  BY <1>1, <1>2, <1>3 DEF SettleInv

(* The steps of ask: evaluation touches no Deferred, and the entry is      *)
(* inserted before the ask waits and deleted when it returns.              *)
LEMMA AskSettles == ASSUME SettleInv, NEW a \in Asks, AskStep(a) PROVE SettleInv'
<1> USE PermissionAssumption DEF SettleInv, PermissionTypeOK, AskPCs, ReplyPCs, askVars, replyVars, pendingVars
<1>1. CASE EvaluateNext(a)
  BY <1>1 DEF EvaluateNext, Fresh, OneReply, Owed, AnsweredOnce, Known, Settling
<1>2. CASE AllowedByRules(a)
  <2> USE <1>2 DEF AllowedByRules, Evaluated
  <2>1. PermissionTypeOK' /\ Fresh' /\ OneReply' /\ Owed'
    BY DEF Fresh, OneReply, Owed
  <2>2. AnsweredOnce' /\ Known'
    BY DEF AnsweredOnce, Known, Settling
  <2> QED
    BY <2>1, <2>2
<1>3. CASE BecomesPending(a)
  <2> USE <1>3 DEF BecomesPending, Evaluated, Insert
  <2>1. PermissionTypeOK'
    OBVIOUS
  <2>2. deferred[a] = "none" /\ events[a] = <<>> /\ \A r \in Replies : item[r] # a
    BY DEF Fresh
  <2>3. Fresh' /\ OneReply'
    BY <2>2 DEF Fresh, OneReply
  <2>4. Owed'
    BY <2>2 DEF Owed
  <2>5. AnsweredOnce'
    BY <2>2 DEF AnsweredOnce
  <2>6. Known'
    BY DEF Known, Settling
  <2> QED
    BY <2>1, <2>3, <2>4, <2>5, <2>6
<1>4. CASE Waits(a)
  BY <1>4 DEF Waits, Fresh, OneReply, Owed, AnsweredOnce, Known, Settling
<1>5. CASE AskReturns(a)
  BY <1>5 DEF AskReturns, Delete, Fresh, OneReply, Owed, AnsweredOnce, Known, Settling
<1> QED
  BY <1>1, <1>2, <1>3, <1>4, <1>5 DEF AskStep

(* An ask is interrupted: its entry is deleted only if it was waiting.     *)
LEMMA InterruptedAskSettles == ASSUME SettleInv, NEW a \in Asks, AskInterrupted(a) PROVE SettleInv'
<1> USE PermissionAssumption DEF AskInterrupted, Delete, SettleInv, askVars, replyVars, pendingVars
<1>1. PermissionTypeOK'
  <2>1. pending' \subseteq Asks /\ older' \in [Asks -> SUBSET pending']
    <3>1. pending \subseteq Asks /\ older \in [Asks -> SUBSET pending]
      BY DEF PermissionTypeOK
    <3>2. CASE apc[a] = "waiting"
      BY <3>1, <3>2
    <3>3. CASE apc[a] # "waiting"
      BY <3>1, <3>3
    <3> QED
      BY <3>2, <3>3
  <2>2. apc' \in [Asks -> AskPCs]
    BY DEF PermissionTypeOK, AskPCs
  <2>3. UNCHANGED <<req, idx, needsAsk, rpc, target, answer, item, seen, deferred, events, disposed>>
    OBVIOUS
  <2> HIDE DEF AskInterrupted, Delete
  <2> QED
    BY <2>1, <2>2, <2>3 DEF PermissionTypeOK
<1>2. apc \in [Asks -> AskPCs] /\ apc' = [apc EXCEPT ![a] = "interrupted"] /\ pending' \subseteq pending
  BY DEF PermissionTypeOK
<1>3. Fresh' /\ OneReply' /\ Owed'
  BY <1>2 DEF Fresh, OneReply, Owed
<1>4. AnsweredOnce'
  BY <1>2 DEF AnsweredOnce
<1>5. Known'
  BY <1>2 DEF Known, Settling
<1> QED
  BY <1>1, <1>3, <1>4, <1>5

(* The steps of reply: an entry leaves `pending` before its event is       *)
(* published, and the event is published before the Deferred completes.    *)
LEMMA ReplySettles ==
  ASSUME SettleInv, NEW r \in Replies, Submit(r) \/ ReplyStep(r) \/ ReplyInterrupted(r)
  PROVE SettleInv'
<1> USE PermissionAssumption DEF SettleInv, askVars, replyVars, pendingVars
<1>t. /\ item \in [Replies -> Asks \cup {None}] /\ pending \subseteq Asks
      /\ rpc \in [Replies -> ReplyPCs] /\ deferred \in [Asks -> {"none", "open", "allowed", "rejected"}]
      /\ answer \in [Replies -> {"none", "once", "always", "reject"}]
  BY DEF PermissionTypeOK
<1>1. ASSUME NEW a \in Asks, NotFound(r, a) PROVE SettleInv'
  <2> USE <1>1, <1>t DEF NotFound
  <2>1. PermissionTypeOK'
    BY DEF PermissionTypeOK, ReplyPCs
  <2>2. Fresh' /\ OneReply' /\ Owed'
    BY DEF Fresh, OneReply, Owed
  <2>3. AnsweredOnce'
    BY DEF AnsweredOnce
  <2>4. Known'
    BY DEF Known, Settling
  <2> QED
    BY <2>1, <2>2, <2>3, <2>4
<1>2. ASSUME NEW a \in Asks, Takes(r, a) PROVE SettleInv'
  <2> USE <1>2, <1>t DEF Takes
  <2>d. pending' = pending \ {a}
    BY DEF Delete
  <2>i. \A q \in Replies : item[q] # a
    BY DEF OneReply
  <2>a. deferred[a] = "open" /\ events[a] = <<>>
    BY DEF AnsweredOnce
  <2>v. PICK v \in {"once", "always", "reject"} : answer' = [answer EXCEPT ![r] = v]
    OBVIOUS
  <2>1. PermissionTypeOK'
    BY <2>v DEF PermissionTypeOK, ReplyPCs, Delete
  <2>2. Fresh'
    BY <2>d, <2>a DEF Fresh
  <2>3. OneReply'
    BY <2>d, <2>i DEF OneReply
  <2>4. Owed'
    BY <2>d, <2>i, <2>a, <2>v DEF Owed
  <2>5. AnsweredOnce'
    BY <2>d, <2>a DEF AnsweredOnce
  <2>6. Known'
    BY <2>d, <2>a DEF Known, Settling
  <2> QED
    BY <2>1, <2>2, <2>3, <2>4, <2>5, <2>6
<1>3. CASE Publishes(r)
  <2> USE <1>3, <1>t DEF Publishes
  <2>o. item[r] \in Asks /\ deferred[item[r]] = "open" /\ events[item[r]] = <<>> /\ item[r] \notin pending
        /\ answer[r] \in {"once", "always", "reject"}
    BY DEF Owed, OneReply
  <2>e. events' = [events EXCEPT ![item[r]] = <<answer[r]>>]
    BY <2>o
  <2>u. \A q \in Replies : item[q] = item[r] => q = r
    BY <2>o DEF OneReply
  <2>1. PermissionTypeOK'
    BY <2>o, <2>e DEF PermissionTypeOK, ReplyPCs
  <2>v. events \in [Asks -> Seq({"once", "always", "reject"})]
    BY DEF PermissionTypeOK
  <2>2. Fresh'
    BY <2>o, <2>e, <2>v DEF Fresh
  <2>3. OneReply'
    BY DEF OneReply
  <2>4. Owed'
    BY <2>o, <2>u, <2>e, <2>v DEF Owed
  <2>5. AnsweredOnce'
    BY <2>o, <2>e, <2>v DEF AnsweredOnce
  <2>6. Known'
    BY <2>o DEF Known, Settling
  <2> QED
    BY <2>1, <2>2, <2>3, <2>4, <2>5, <2>6
<1>4. CASE Completes(r)
  <2> USE <1>4, <1>t DEF Completes, Complete
  <2>o. item[r] \in Asks /\ deferred[item[r]] = "open" /\ events[item[r]] = <<answer[r]>> /\ item[r] \notin pending
        /\ answer[r] \in {"once", "always", "reject"}
    BY DEF Owed, OneReply
  <2>e. deferred' = [deferred EXCEPT ![item[r]] = IF answer[r] = "reject" THEN "rejected" ELSE "allowed"]
    BY <2>o
  <2>p. rpc' = [rpc EXCEPT ![r] = rpc'[r]] /\ rpc'[r] \in {"sweep", "done", "approve"}
    OBVIOUS
  <2>u. \A q \in Replies : item[q] = item[r] => q = r
    BY <2>o DEF OneReply
  <2>1. PermissionTypeOK'
    BY <2>o, <2>e, <2>p DEF PermissionTypeOK, ReplyPCs
  <2>2. Fresh'
    BY <2>o, <2>e DEF Fresh
  <2>3. OneReply'
    BY DEF OneReply
  <2>4. Owed'
    BY <2>o, <2>u, <2>e, <2>p DEF Owed
  <2>5. AnsweredOnce'
    <3>1. ASSUME NEW b \in Asks, b # item[r]
          PROVE deferred'[b] = deferred[b] /\ \A q \in Replies : item[q] = b => rpc'[q] = rpc[q]
      BY <2>o, <2>e, <2>p, <3>1
    <3>2. deferred'[item[r]] = IF answer[r] = "reject" THEN "rejected" ELSE "allowed"
      BY <2>o, <2>e
    <3>3. UNCHANGED <<item, pending, events, answer, disposed>>
      OBVIOUS
    <3> HIDE <1>4 DEF Completes, Complete, SettleInv
    <3> SUFFICES ASSUME NEW b \in Asks
                 PROVE  /\ Len(events'[b]) <= 1
                        /\ b \in pending' => deferred'[b] = "open" /\ events'[b] = <<>>
                        /\ deferred'[b] = "allowed" => events'[b] \in {<<"once">>, <<"always">>}
                        /\ deferred'[b] = "rejected" =>
                              events'[b] = <<"reject">> \/ (events'[b] = <<>> /\ disposed')
                        /\ events'[b] # <<>> /\ deferred'[b] = "open" =>
                              \E q \in Replies : item'[q] = b /\ rpc'[q] \in {"complete", "interrupted"}
      BY DEF AnsweredOnce
    <3>4. CASE b = item[r]
      <4>1. events'[b] = <<answer[r]>> /\ b \notin pending' /\ answer[r] \in {"once", "always", "reject"}
        BY <2>o, <3>3, <3>4
      <4>2. CASE answer[r] = "reject"
        <5>1. deferred'[b] = "rejected" /\ events'[b] = <<"reject">>
          BY <3>2, <3>4, <4>1, <4>2
        <5> QED
          BY <4>1, <5>1
      <4>3. CASE answer[r] # "reject"
        <5>1. deferred'[b] = "allowed" /\ events'[b] \in {<<"once">>, <<"always">>}
          BY <3>2, <3>4, <4>1, <4>3
        <5> QED
          BY <4>1, <5>1
      <4> QED
        BY <4>2, <4>3
    <3>5. CASE b # item[r]
      <4>1. deferred'[b] = deferred[b] /\ \A q \in Replies : item[q] = b => rpc'[q] = rpc[q]
        BY <3>1, <3>5
      <4>2. AnsweredOnce
        BY DEF SettleInv
      <4> QED
        BY <3>3, <4>1, <4>2 DEF AnsweredOnce
    <3> QED
      BY <3>4, <3>5
  <2>6. Known'
    BY <2>o, <2>e, <2>p DEF Known, Settling
  <2> QED
    BY <2>1, <2>2, <2>3, <2>4, <2>5, <2>6
<1>5. CASE Approves(r)
  <2> USE <1>5, <1>t DEF Approves
  <2>1. PermissionTypeOK'
    BY DEF PermissionTypeOK, ReplyPCs
  <2>2. Fresh' /\ OneReply' /\ Owed'
    BY DEF Fresh, OneReply, Owed
  <2>3. AnsweredOnce'
    BY DEF AnsweredOnce
  <2>4. Known'
    BY DEF Known, Settling
  <2> QED
    BY <2>1, <2>2, <2>3, <2>4
<1>6. CASE SweepsNext(r)
  <2>1. CASE rpc' = [rpc EXCEPT ![r] = "done"] /\ UNCHANGED <<item, seen, pendingVars>>
    <3> USE <1>6, <1>t, <2>1 DEF SweepsNext
    <3>1. UNCHANGED <<askVars, target, answer, approved, deferred, events, disposed>>
      OBVIOUS
    <3>2. rpc[r] = "sweep"
      OBVIOUS
    <3> HIDE <1>6
    <3>3. PermissionTypeOK'
      BY <3>1, <3>2 DEF PermissionTypeOK, ReplyPCs
    <3>4. Fresh' /\ OneReply' /\ Owed'
      BY <3>1, <3>2 DEF Fresh, OneReply, Owed
    <3>5. AnsweredOnce'
      BY <3>1, <3>2 DEF AnsweredOnce
    <3>6. Known'
      BY <3>1, <3>2 DEF Known, Settling
    <3> QED
      BY <3>3, <3>4, <3>5, <3>6
  <2>2. ASSUME NEW a \in pending, rpc[r] = "sweep", Eligible(r, a),
               item' = [item EXCEPT ![r] = a], seen' = [seen EXCEPT ![r] = @ \cup older[a] \cup {a}],
               Delete({a}), rpc' = [rpc EXCEPT ![r] = "publish"],
               UNCHANGED <<askVars, target, answer, approved, deferred, events, disposed>>
        PROVE SettleInv'
    <3> USE <1>t, <2>2
    <3>d. pending' = pending \ {a} /\ a \in Asks
      BY DEF Delete
    <3>i. \A q \in Replies : item[q] # a
      BY DEF OneReply
    <3>a. deferred[a] = "open" /\ events[a] = <<>>
      BY <3>d DEF AnsweredOnce
    <3>v. answer[r] \in {"once", "always", "reject"}
      BY DEF Owed
    <3>1. PermissionTypeOK'
      BY <3>d DEF PermissionTypeOK, ReplyPCs, Delete
    <3>2. Fresh'
      BY <3>d, <3>a DEF Fresh
    <3>3. OneReply'
      BY <3>d, <3>i DEF OneReply
    <3>4. Owed'
      BY <3>d, <3>i, <3>a, <3>v DEF Owed
    <3>5. AnsweredOnce'
      BY <3>d, <3>a DEF AnsweredOnce
    <3>6. Known'
      BY <3>d, <3>a DEF Known, Settling
    <3> QED
      BY <3>1, <3>2, <3>3, <3>4, <3>5, <3>6
  <2> QED
    BY <1>6, <2>1, <2>2 DEF SweepsNext
<1>7. CASE ReplyInterrupted(r)
  <2> USE <1>7, <1>t DEF ReplyInterrupted
  <2>1. PermissionTypeOK'
    BY DEF PermissionTypeOK, ReplyPCs
  <2>2. Fresh' /\ OneReply' /\ Owed'
    BY DEF Fresh, OneReply, Owed
  <2>3. AnsweredOnce'
    BY DEF AnsweredOnce
  <2>4. Known'
    BY DEF Known, Settling
  <2> QED
    BY <2>1, <2>2, <2>3, <2>4
<1> QED
  BY <1>1, <1>2, <1>3, <1>4, <1>5, <1>6, <1>7 DEF Submit, ReplyStep

(* The finalizer rejects exactly what is pending. *)
LEMMA DisposeSettles == ASSUME SettleInv, Dispose PROVE SettleInv'
<1> USE DEF SettleInv, Dispose, Delete, askVars, replyVars
<1>1. pending' = {} /\ older' \in [Asks -> SUBSET pending']
  BY DEF PermissionTypeOK
<1>2. PermissionTypeOK'
  BY <1>1 DEF PermissionTypeOK
<1>3. Fresh' /\ OneReply'
  BY <1>1 DEF Fresh, OneReply
<1>4. Owed'
  BY <1>1 DEF Owed, OneReply
<1>5. AnsweredOnce'
  BY <1>1 DEF AnsweredOnce
<1>6. Known'
  BY <1>1 DEF Known, Settling
<1> QED
  BY <1>2, <1>3, <1>4, <1>5, <1>6

(* SettleInv is inductive. *)
LEMMA SettleNext == SettleInv /\ [Next]_vars => SettleInv'
<1> SUFFICES ASSUME SettleInv, [Next]_vars PROVE SettleInv'
  OBVIOUS
<1>1. CASE UNCHANGED vars
  BY <1>1 DEF vars, askVars, replyVars, pendingVars, SettleInv, PermissionTypeOK, Fresh, OneReply,
     Owed, AnsweredOnce, Known, Settling
<1>2. CASE Next
  BY <1>2, AskSettles, InterruptedAskSettles, ReplySettles, DisposeSettles DEF Next, Interruption
<1> QED
  BY <1>1, <1>2

(* SettleInv holds in every reachable state. *)
LEMMA Settled == Spec => []SettleInv
  BY SettleInit, SettleNext, PTL DEF Spec

(* Every reachable state of the permission service is well typed. *)
THEOREM TypeCorrect == Spec => []PermissionTypeOK
  BY Settled, PTL DEF SettleInv

(* Without preemption no ask is being evaluated when the finalizer runs,   *)
(* so that nothing enters `pending` after it.                              *)
MapLives ==
  disposed => pending = {} /\ \A a \in Asks : apc[a] # "evaluating"

(* MapLives holds initially and is kept by every step. *)
LEMMA MapLivesAlways ==
  /\ Init => MapLives
  /\ ~Preempt /\ PermissionTypeOK /\ MapLives /\ [Next]_vars => MapLives'
<1>1. Init => MapLives
  BY DEF Init, MapLives
<1>2. ASSUME ~Preempt, PermissionTypeOK, MapLives, [Next]_vars PROVE MapLives'
  <2> USE <1>2, PermissionAssumption DEF MapLives, PermissionTypeOK, askVars, replyVars, pendingVars
  <2>1. CASE UNCHANGED vars
    BY <2>1 DEF vars
  <2>2. ASSUME NEW a \in Asks, AskStep(a) PROVE MapLives'
    BY <2>2 DEF AskStep, EvaluateNext, AllowedByRules, BecomesPending, Waits, AskReturns, Evaluated, Delete
  <2>3. ASSUME NEW r \in Replies, Submit(r) \/ ReplyStep(r) PROVE MapLives'
    BY <2>3 DEF Submit, NotFound, Takes, ReplyStep, Publishes, Completes, Approves, SweepsNext, Delete
  <2>4. CASE Turn(None) /\ Dispose
    <3>1. \A a \in Asks : apc[a] # "evaluating"
      BY <2>4, <1>2 DEF Turn, Computes
    <3> QED
      BY <2>4, <3>1 DEF Dispose, Delete
  <2>5. CASE Interruption
    BY <2>5 DEF Interruption, AskInterrupted, ReplyInterrupted, Delete
  <2> QED
    BY <1>2, <2>1, <2>2, <2>3, <2>4, <2>5 DEF Next
<1> QED
  BY <1>1, <1>2

(* Without preemption no ask that waits is forgotten: it is in the map of  *)
(* a live instance, or a reply settles it (index.ts 54-61, 99-106,         *)
(* 114-164).                                                               *)
THEOREM NoAskStranded == ~Preempt => (Spec => []NoStrandedAsk)
<1>1. SettleInv /\ MapLives => NoStrandedAsk
  BY DEF SettleInv, Known, MapLives, NoStrandedAsk
<1>2. SettleInv => PermissionTypeOK
  BY DEF SettleInv
<1>3. ASSUME ~Preempt PROVE Spec => []NoStrandedAsk
  <2>1. SettleInv /\ MapLives /\ [Next]_vars => MapLives'
    BY <1>2, <1>3, MapLivesAlways
  <2> QED
    BY <1>1, <2>1, MapLivesAlways, Settled, PTL DEF Spec
<1> QED
  BY <1>3

(* However replies race, an ask gets one answer, the published one. *)
THEOREM OneAnswer == Spec => []AnsweredOnce
  BY Settled, PTL DEF SettleInv
-------------------------------------------------------------------------------
(* GrantJustified.  The patterns of an ask are examined in order, and what *)
(* is found stays true, because approvals are never withdrawn.             *)

Examined ==
  \A a \in Asks :
    /\ idx[a] >= 1
    /\ apc[a] \in {"new", "evaluating", "asking", "waiting"} =>
         \A i \in DOMAIN req[a].patterns : i < idx[a] =>
           Approved(req[a].permission, req[a].patterns[i]) \/ ByRules(a, i) # "deny"
    /\ apc[a] \in {"new", "evaluating"} /\ ~needsAsk[a] =>
         \A i \in DOMAIN req[a].patterns : i < idx[a] => Allows(a, i)
    /\ apc[a] \in {"asking", "waiting"} => idx[a] > Len(req[a].patterns)

(* What a reply may grant: its own target, or what approvals cover. *)
Swept ==
  \A r \in Replies :
    /\ rpc[r] = "new" => answer[r] = "none"
    /\ rpc[r] = "approve" => answer[r] = "always"
    /\ rpc[r] = "sweep" => answer[r] \in {"always", "reject"}
    /\ rpc[r] \in {"publish", "complete"} /\ item[r] # target[r] =>
         answer[r] = "reject" \/ (answer[r] = "always" /\ Covered(item[r]))

(* A pattern of a may go ahead. *)
Justified(a, i) == Allows(a, i) \/ (ByRules(a, i) # "deny" /\ AnsweredYes(a))

Granted ==
  \A a \in Asks :
    \/ apc[a] = "granted"
    \/ apc[a] \in {"asking", "waiting"} /\ deferred[a] = "allowed"
    => \A i \in DOMAIN req[a].patterns : Justified(a, i)

GrantInv == Examined /\ Swept /\ Granted

(* Requests and approvals only grow, so what allows a pattern is stable. *)
LEMMA Stable ==
  ASSUME PermissionTypeOK, req' = req, approved \subseteq approved'
  PROVE  \A a \in Asks : \A i \in DOMAIN req[a].patterns :
           /\ ByRules(a, i)' = ByRules(a, i)
           /\ Allows(a, i) => Allows(a, i)'
           /\ Approved(req[a].permission, req[a].patterns[i])
                => Approved(req[a].permission, req[a].patterns[i])'
           /\ Covered(a) => Covered(a)'
  BY DEF ByRules, Allows, Approved, Covered

(* Steps that leave the verdicts of all asks and what replies hold alone. *)
LEMMA GrantFrame ==
  ASSUME GrantInv, UNCHANGED <<req, idx, needsAsk, apc, approved, deferred, target, answer>>,
         \A r \in Replies :
           \/ rpc'[r] = rpc[r] /\ item'[r] = item[r]
           \/ rpc[r] = "publish" /\ rpc'[r] = "complete" /\ item'[r] = item[r]
           \/ rpc'[r] \in {"notFound", "done", "interrupted"}
  PROVE  GrantInv'
<1>1. Examined'
  BY DEF GrantInv, Examined, Approved, Allows, ByRules
<1>2. Swept'
  BY DEF GrantInv, Swept, Covered, Approved
<1>3. Granted'
  BY DEF GrantInv, Granted, Justified, Allows, ByRules, Approved, AnsweredYes
<1> QED
  BY <1>1, <1>2, <1>3 DEF GrantInv

(* Evaluating a pattern examines it; only patterns all of which are        *)
(* allowed let the ask go ahead without the user.                          *)
LEMMA AskGrants ==
  ASSUME SettleInv, GrantInv, NEW a \in Asks, AskStep(a) \/ AskInterrupted(a) PROVE GrantInv'
<1> USE RequestsAssumption
<1>t. /\ req \in [Asks -> Requests] /\ apc \in [Asks -> AskPCs] /\ idx \in [Asks -> Nat]
      /\ needsAsk \in [Asks -> BOOLEAN] /\ deferred \in [Asks -> {"none", "open", "allowed", "rejected"}]
  BY DEF SettleInv, PermissionTypeOK
<1>l. \A b \in Asks : DOMAIN req[b].patterns = 1..Len(req[b].patterns) /\ Len(req[b].patterns) \in Nat
  BY <1>t
<1>u. UNCHANGED <<req, approved, target, answer, item, rpc>>
  BY DEF AskStep, EvaluateNext, AllowedByRules, BecomesPending, Waits, AskReturns, AskInterrupted,
     replyVars
<1>s. \A b \in Asks : \A i \in DOMAIN req[b].patterns :
        /\ ByRules(b, i)' = ByRules(b, i) /\ (Allows(b, i)' <=> Allows(b, i))
        /\ Approved(req[b].permission, req[b].patterns[i])' = Approved(req[b].permission, req[b].patterns[i])
  BY <1>u DEF ByRules, Allows, Approved
<1>y. \A b \in Asks : AnsweredYes(b)' <=> AnsweredYes(b)
  BY <1>u DEF AnsweredYes
<1>1. Swept'
  BY <1>u DEF GrantInv, Swept, Covered, Approved
<1>o. \A b \in Asks \ {a} : /\ apc'[b] = apc[b] /\ idx'[b] = idx[b] /\ needsAsk'[b] = needsAsk[b]
                            /\ deferred'[b] = deferred[b]
  BY <1>t DEF AskStep, EvaluateNext, AllowedByRules, BecomesPending, Waits, AskReturns, AskInterrupted
<1>2. CASE EvaluateNext(a)
  <2>1. Examined'
    <3> DEFINE Ok(b, i) == Approved(req[b].permission, req[b].patterns[i])
    <3>1. /\ idx[a] \in DOMAIN req[a].patterns /\ idx'[a] = idx[a] + 1
          /\ apc[a] \in {"new", "evaluating"} /\ apc'[a] \in {"evaluating", "denied"}
      BY <1>2, <1>t, <1>l DEF EvaluateNext, GrantInv, Examined
    <3>2. /\ apc'[a] = "evaluating" => Ok(a, idx[a]) \/ ByRules(a, idx[a]) # "deny"
          /\ apc'[a] = "evaluating" /\ ~needsAsk'[a] => ~needsAsk[a] /\ Allows(a, idx[a])
      BY <1>2, <1>t DEF EvaluateNext, Evaluate, ByRules, Allows
    <3>3. \A i \in DOMAIN req[a].patterns : i < idx'[a] => i < idx[a] \/ i = idx[a]
      BY <3>1, <1>t, <1>l
    <3>4. \A b \in Asks : \A i \in DOMAIN req[b].patterns :
            (Ok(b, i)' <=> Ok(b, i)) /\ (Allows(b, i)' <=> Allows(b, i)) /\ ByRules(b, i)' = ByRules(b, i)
      BY <1>s
    <3>5. Examined
      BY DEF GrantInv
    <3> HIDE DEF Ok
    <3>6. ASSUME NEW b \in Asks
          PROVE  /\ idx'[b] >= 1
                 /\ apc'[b] \in {"new", "evaluating", "asking", "waiting"} =>
                      \A i \in DOMAIN req[b].patterns : i < idx'[b] => Ok(b, i) \/ ByRules(b, i) # "deny"
                 /\ apc'[b] \in {"new", "evaluating"} /\ ~needsAsk'[b] =>
                      \A i \in DOMAIN req[b].patterns : i < idx'[b] => Allows(b, i)
                 /\ apc'[b] \in {"asking", "waiting"} => idx'[b] > Len(req[b].patterns)
      <4>1. /\ idx[b] >= 1
            /\ apc[b] \in {"new", "evaluating", "asking", "waiting"} =>
                 \A i \in DOMAIN req[b].patterns : i < idx[b] => Ok(b, i) \/ ByRules(b, i) # "deny"
            /\ apc[b] \in {"new", "evaluating"} /\ ~needsAsk[b] =>
                 \A i \in DOMAIN req[b].patterns : i < idx[b] => Allows(b, i)
            /\ apc[b] \in {"asking", "waiting"} => idx[b] > Len(req[b].patterns)
        BY <3>5 DEF Examined, Ok
      <4>2. CASE b = a
        BY <4>1, <4>2, <3>1, <3>2, <3>3, <1>t
      <4>3. CASE b # a
        BY <4>1, <4>3, <1>o
      <4> QED
        BY <4>2, <4>3
    <3> QED
      BY <3>4, <3>6, <1>u DEF Examined, Ok
  <2>2. Granted'
    BY <1>2, <1>t, <1>l, <1>s, <1>u, <1>y, <1>o DEF EvaluateNext, GrantInv, Granted, Justified
  <2> QED
    BY <1>1, <2>1, <2>2 DEF GrantInv
<1>3. CASE AllowedByRules(a)
  <2>1. Examined'
    BY <1>3, <1>t, <1>l, <1>s, <1>u DEF AllowedByRules, Evaluated, GrantInv, Examined
  <2>2. Granted'
    BY <1>3, <1>t, <1>l, <1>s, <1>u, <1>y, <1>o DEF AllowedByRules, Evaluated, GrantInv, Granted, Justified, Examined
  <2> QED
    BY <1>1, <2>1, <2>2 DEF GrantInv
<1>4. CASE BecomesPending(a)
  <2>1. Examined'
    BY <1>4, <1>t, <1>l, <1>s, <1>u DEF BecomesPending, Evaluated, GrantInv, Examined
  <2>2. Granted'
    BY <1>4, <1>t, <1>l, <1>s, <1>u, <1>y, <1>o DEF BecomesPending, Evaluated, GrantInv, Granted, Justified
  <2> QED
    BY <1>1, <2>1, <2>2 DEF GrantInv
<1>5. CASE Waits(a)
  <2>1. Examined'
    BY <1>5, <1>t, <1>l, <1>s, <1>u DEF Waits, GrantInv, Examined
  <2>2. Granted'
    BY <1>5, <1>t, <1>l, <1>s, <1>u, <1>y, <1>o DEF Waits, GrantInv, Granted, Justified
  <2> QED
    BY <1>1, <2>1, <2>2 DEF GrantInv
<1>6. CASE AskReturns(a)
  <2>1. Examined'
    BY <1>6, <1>t, <1>l, <1>s, <1>u DEF AskReturns, GrantInv, Examined
  <2>2. Granted'
    BY <1>6, <1>t, <1>l, <1>s, <1>u, <1>y, <1>o DEF AskReturns, GrantInv, Granted, Justified
  <2> QED
    BY <1>1, <2>1, <2>2 DEF GrantInv
<1>7. CASE AskInterrupted(a)
  <2>1. Examined'
    BY <1>7, <1>t, <1>l, <1>s, <1>u DEF AskInterrupted, GrantInv, Examined
  <2>2. Granted'
    BY <1>7, <1>t, <1>l, <1>s, <1>u, <1>y, <1>o DEF AskInterrupted, GrantInv, Granted, Justified
  <2> QED
    BY <1>1, <2>1, <2>2 DEF GrantInv
<1> QED
  BY <1>2, <1>3, <1>4, <1>5, <1>6, <1>7 DEF AskStep

(* A reply grants its own request, whose patterns were examined, or one    *)
(* that the approvals of the moment cover.                                 *)
LEMMA ReplyGrants ==
  ASSUME SettleInv, GrantInv, NEW r \in Replies, Submit(r) \/ ReplyStep(r) \/ ReplyInterrupted(r)
  PROVE GrantInv'
<1> USE RequestsAssumption, PermissionAssumption DEF askVars, replyVars, pendingVars
<1>t. /\ req \in [Asks -> Requests] /\ apc \in [Asks -> AskPCs] /\ idx \in [Asks -> Nat]
      /\ rpc \in [Replies -> ReplyPCs] /\ deferred \in [Asks -> {"none", "open", "allowed", "rejected"}]
      /\ item \in [Replies -> Asks \cup {None}] /\ target \in [Replies -> Asks \cup {None}]
      /\ answer \in [Replies -> {"none", "once", "always", "reject"}]
  BY DEF SettleInv, PermissionTypeOK
<1>l. \A b \in Asks : DOMAIN req[b].patterns = 1..Len(req[b].patterns) /\ Len(req[b].patterns) \in Nat
  BY <1>t
<1>1. ASSUME NEW a \in Asks, NotFound(r, a) PROVE GrantInv'
  BY <1>1, <1>t, GrantFrame DEF NotFound
<1>2. ASSUME NEW a \in Asks, Takes(r, a) PROVE GrantInv'
  <2>1. Examined'
    BY <1>2 DEF Takes, GrantInv, Examined, Allows, ByRules, Approved
  <2>2. Swept'
    BY <1>2, <1>t DEF Takes, GrantInv, Swept, Covered, Approved
  <2>3. \A b \in Asks : AnsweredYes(b) => AnsweredYes(b)'
    BY <1>2, <1>t DEF Takes, AnsweredYes, GrantInv, Swept
  <2>4. Granted'
    BY <1>2, <2>3 DEF Takes, GrantInv, Granted, Justified, Allows, ByRules, Approved
  <2> QED
    BY <2>1, <2>2, <2>4 DEF GrantInv
<1>3. CASE Publishes(r)
  BY <1>3, <1>t, GrantFrame DEF Publishes
<1>4. CASE Completes(r)
  <2>1. Examined'
    BY <1>4 DEF Completes, GrantInv, Examined, Allows, ByRules, Approved
  <2>2. Swept'
    BY <1>4, <1>t DEF Completes, GrantInv, Swept, Covered, Approved, SettleInv, Owed
  <2>o. /\ item[r] \in Asks /\ answer[r] \in {"once", "always", "reject"}
        /\ deferred' = [deferred EXCEPT ![item[r]] = IF answer[r] = "reject" THEN "rejected" ELSE "allowed"]
    BY <1>4 DEF Completes, Complete, SettleInv, Owed
  <2>u. UNCHANGED <<req, apc, approved, target, answer>>
    BY <1>4 DEF Completes
  <2>3. ASSUME apc[item[r]] \in {"asking", "waiting"}, answer[r] # "reject",
               NEW i \in DOMAIN req[item[r]].patterns
        PROVE  Justified(item[r], i)
    <3>1. Approved(req[item[r]].permission, req[item[r]].patterns[i]) \/ ByRules(item[r], i) # "deny"
      BY <2>3, <2>o, <1>t, <1>l DEF GrantInv, Examined
    <3>2. CASE item[r] = target[r]
      BY <3>1, <3>2, <2>3, <2>o DEF Justified, Allows, AnsweredYes
    <3>3. CASE item[r] # target[r]
      BY <1>4, <3>3, <2>3 DEF Completes, GrantInv, Swept, Covered, Justified, Allows
    <3> QED
      BY <3>2, <3>3
  <2>4. \A b \in Asks : \A i \in DOMAIN req[b].patterns : Justified(b, i)' <=> Justified(b, i)
    BY <2>u DEF Justified, Allows, ByRules, Approved, AnsweredYes
  <2>5. Granted'
    BY <2>o, <2>u, <2>3, <2>4, <1>t DEF GrantInv, Granted
  <2> QED
    BY <2>1, <2>2, <2>5 DEF GrantInv
<1>5. CASE Approves(r)
  <2>1. req' = req /\ approved \subseteq approved'
    BY <1>5 DEF Approves
  <2>2. Examined'
    BY <1>5, <2>1, Stable DEF Approves, GrantInv, Examined, SettleInv
  <2>3. Swept'
    <3>1. ASSUME NEW q \in Replies, rpc'[q] \in {"publish", "complete"}, item[q] # target[q]
          PROVE  answer[q] = "reject" \/ (answer[q] = "always" /\ Covered(item[q])')
      <4>1. rpc[q] = rpc'[q] /\ item[q] \in Asks
        BY <1>5, <1>t, <3>1 DEF Approves, SettleInv, Owed
      <4>2. Covered(item[q]) => Covered(item[q])'
        BY <1>5, <2>1, <4>1 DEF Approves, Covered, Approved
      <4> QED
        BY <3>1, <4>1, <4>2 DEF GrantInv, Swept
    <3>2. UNCHANGED <<item, target, answer>> /\ rpc' = [rpc EXCEPT ![r] = "sweep"] /\ rpc[r] = "approve"
      BY <1>5 DEF Approves
    <3> QED
      BY <3>1, <3>2, <1>t DEF GrantInv, Swept
  <2>4. Granted'
    BY <1>5, <2>1, Stable DEF Approves, GrantInv, Granted, Justified, SettleInv, AnsweredYes
  <2> QED
    BY <2>2, <2>3, <2>4 DEF GrantInv
<1>6. CASE SweepsNext(r)
  <2>1. Examined'
    BY <1>6 DEF SweepsNext, GrantInv, Examined, Allows, ByRules, Approved
  <2>2. Swept'
    <3>1. UNCHANGED <<req, approved, target, answer>> /\ rpc[r] = "sweep" /\ answer[r] \in {"always", "reject"}
      BY <1>6 DEF SweepsNext, GrantInv, Swept
    <3>2. \A a : Covered(a)' <=> Covered(a)
      BY <3>1 DEF Covered, Approved
    <3>3. CASE rpc' = [rpc EXCEPT ![r] = "done"] /\ UNCHANGED item
      BY <3>1, <3>2, <3>3, <1>t DEF GrantInv, Swept
    <3>4. ASSUME NEW a \in pending, Eligible(r, a), item' = [item EXCEPT ![r] = a],
                 rpc' = [rpc EXCEPT ![r] = "publish"]
          PROVE  Swept'
      BY <3>1, <3>2, <3>4, <1>t DEF GrantInv, Swept, Eligible
    <3> QED
      BY <1>6, <3>3, <3>4 DEF SweepsNext
  <2>3. Granted'
    BY <1>6 DEF SweepsNext, GrantInv, Granted, Justified, Allows, ByRules, Approved, AnsweredYes
  <2> QED
    BY <2>1, <2>2, <2>3 DEF GrantInv
<1>7. CASE ReplyInterrupted(r)
  BY <1>7, <1>t, GrantFrame DEF ReplyInterrupted
<1> QED
  BY <1>1, <1>2, <1>3, <1>4, <1>5, <1>6, <1>7 DEF Submit, ReplyStep

(* GrantInv is inductive relative to SettleInv. *)
LEMMA GrantNext == SettleInv /\ GrantInv /\ [Next]_vars => GrantInv'
<1> SUFFICES ASSUME SettleInv, GrantInv, [Next]_vars PROVE GrantInv'
  OBVIOUS
<1>1. CASE UNCHANGED vars
  BY <1>1, GrantFrame DEF vars, askVars, replyVars
<1>2. CASE Dispose
  <2>1. Examined'
    BY <1>2 DEF Dispose, askVars, GrantInv, Examined, Approved, Allows, ByRules
  <2>2. Swept'
    BY <1>2 DEF Dispose, askVars, replyVars, GrantInv, Swept, Covered, Approved
  <2>3. Granted'
    BY <1>2 DEF Dispose, askVars, replyVars, GrantInv, Granted, Justified, Allows, ByRules, Approved,
       AnsweredYes, SettleInv, PermissionTypeOK
  <2> QED
    BY <2>1, <2>2, <2>3 DEF GrantInv
<1>3. CASE Next
  BY <1>2, <1>3, AskGrants, ReplyGrants DEF Next, Interruption
<1> QED
  BY <1>1, <1>3

(* Nothing is examined, owed or granted initially. *)
LEMMA GrantInit == Init => GrantInv
  BY RequestsAssumption DEF Init, GrantInv, Examined, Swept, Granted

(* No tool call goes ahead on a pattern that was not allowed by the rules, *)
(* an approval or the user's answer to it (index.ts 73-84, 139-164).       *)
THEOREM GrantsJustified == Spec => []GrantJustified
<1>1. GrantInv => GrantJustified
  BY DEF GrantInv, Granted, GrantJustified, Justified
<1> QED
  BY <1>1, GrantInit, GrantNext, SettleInit, SettleNext, PTL DEF Spec
-------------------------------------------------------------------------------
(* Without preemption: the sweeps of "always" replies reach every request  *)
(* that they cover.  A request that is found to need an answer still needs *)
(* one when it is inserted, for nobody else moves in between (Evaluating); *)
(* from then on every set of replies that covers it contains one whose     *)
(* sweep has not passed it (SweepsReach), so not all of them are done.     *)
Evaluating ==
  \A a \in Asks :
    /\ apc[a] = "new" => ~needsAsk[a]
    /\ apc[a] = "evaluating" /\ needsAsk[a] =>
         \E i \in DOMAIN req[a].patterns : ~Approved(req[a].permission, req[a].patterns[i])

Sweeping(r) ==
  /\ answer[r] = "always"
  /\ rpc[r] = "sweep" \/ (rpc[r] \in {"publish", "complete"} /\ item[r] # target[r])

HasApproved(r) == Sweeping(r) \/ (answer[r] = "always" /\ rpc[r] = "done")

Rules(r) == {[permission |-> req[target[r]].permission, pattern |-> p] : p \in req[target[r]].always}

Recorded ==
  \A r \in Replies :
    /\ rpc[r] = "new" => target[r] = None /\ seen[r] = {}
    /\ rpc[r] \in {"publish", "complete", "approve", "sweep"} => target[r] # None
    /\ target[r] # None => target[r] \in Asks /\ target[r] \notin pending /\ deferred[target[r]] # "none"
    /\ answer[r] = "always" /\ ~HasApproved(r) /\ rpc[r] # "interrupted" => seen[r] = {}
    /\ HasApproved(r) => target[r] # None /\ Rules(r) \subseteq approved

Alike(r, a) == req[target[r]].session = req[a].session /\ req[target[r]].permission = req[a].permission

CoveredBy(a, U) ==
  \A i \in DOMAIN req[a].patterns :
    \E r \in U : \E p \in req[target[r]].always : Match(req[a].patterns[i], p)

SweepsReach ==
  \A a \in pending : \A U \in SUBSET Replies :
    (\A r \in U : HasApproved(r) /\ Alike(r, a)) /\ CoveredBy(a, U)
      => \E r \in U : Sweeping(r) /\ a \notin seen[r]

SweepInv == Evaluating /\ Recorded /\ SweepsReach

(* SweepInv holds before anything is asked.                                *)
LEMMA SweepInit == Init => SweepInv
  BY PermissionAssumption DEF Init, SweepInv, Evaluating, Recorded, SweepsReach, Sweeping, HasApproved

(* Nobody approves anything while an ask is evaluated.                     *)
LEMMA EvaluatingNext ==
  ASSUME ~Preempt, SettleInv, GrantInv, Evaluating, [Next]_vars
  PROVE  Evaluating'
<1> USE PermissionAssumption DEF askVars, replyVars, pendingVars
<1>t. /\ req \in [Asks -> Requests] /\ apc \in [Asks -> AskPCs] /\ idx \in [Asks -> Nat]
      /\ needsAsk \in [Asks -> BOOLEAN]
  BY DEF SettleInv, PermissionTypeOK
<1>1. ASSUME NEW a \in Asks, AskStep(a) PROVE Evaluating'
  <2>1. CASE EvaluateNext(a)
    <3>1. UNCHANGED <<req, approved>> /\ idx[a] \in Nat /\ idx[a] <= Len(req[a].patterns)
          /\ (apc[a] = "new" \/ apc[a] = "evaluating")
      BY <2>1, <1>t DEF EvaluateNext
    <3>2. \A b \in Asks : b # a => apc'[b] = apc[b] /\ needsAsk'[b] = needsAsk[b]
      BY <2>1 DEF EvaluateNext
    <3>3. apc'[a] # "new"
      BY <2>1, <1>t DEF EvaluateNext
    <3>4. needsAsk'[a] => needsAsk[a] \/ Evaluate(a, req[a].patterns[idx[a]]) # "allow"
      BY <2>1, <1>t DEF EvaluateNext
    <3>5. needsAsk'[a] => needsAsk[a] \/ ~Approved(req[a].permission, req[a].patterns[idx[a]])
      BY <3>4 DEF Evaluate
    <3>6. idx[a] \in DOMAIN req[a].patterns
      <4>1. req[a].patterns \in Seq(STRING) /\ idx[a] \in 1..Len(req[a].patterns)
        BY <1>t, <3>1, RequestsAssumption DEF GrantInv, Examined
      <4> QED
        BY <4>1
    <3> QED
      BY <3>1, <3>2, <3>3, <3>5, <3>6 DEF Evaluating, Approved
  <2>2. CASE AllowedByRules(a)
    BY <2>2, <1>t DEF AllowedByRules, Evaluating, Approved
  <2>3. CASE BecomesPending(a)
    BY <2>3, <1>t DEF BecomesPending, Evaluating, Approved
  <2>4. CASE Waits(a)
    BY <2>4, <1>t DEF Waits, Evaluating, Approved
  <2>5. CASE AskReturns(a)
    BY <2>5, <1>t DEF AskReturns, Evaluating, Approved
  <2> QED
    BY <1>1, <2>1, <2>2, <2>3, <2>4, <2>5 DEF AskStep
<1>2. ASSUME NEW r \in Replies, Turn(r), Submit(r) \/ ReplyStep(r) PROVE Evaluating'
  <2>1. UNCHANGED askVars
    BY <1>2 DEF Submit, ReplyStep, NotFound, Takes, Publishes, Completes, Approves, SweepsNext
  <2>2. CASE UNCHANGED approved
    BY <2>1, <2>2 DEF Evaluating, Approved
  <2>3. CASE Approves(r)
    <3>1. \A a \in Asks : apc[a] # "evaluating"
      BY <1>2 DEF Turn, Computes
    <3> QED
      BY <2>1, <3>1 DEF Evaluating
  <2> QED
    BY <1>2, <2>2, <2>3 DEF Submit, ReplyStep, NotFound, Takes, Publishes, Completes, SweepsNext
<1>3. CASE Dispose
  BY <1>3 DEF Dispose, Evaluating, Approved
<1>4. CASE Interruption
  <2>1. ASSUME NEW a \in Asks, AskInterrupted(a) PROVE Evaluating'
    BY <2>1, <1>t DEF AskInterrupted, Evaluating, Approved
  <2>2. ASSUME NEW r \in Replies, ReplyInterrupted(r) PROVE Evaluating'
    BY <2>2 DEF ReplyInterrupted, Evaluating, Approved
  <2> QED
    BY <1>4, <2>1, <2>2 DEF Interruption
<1>5. CASE UNCHANGED vars
  BY <1>5 DEF vars, Evaluating, Approved
<1> QED
  BY <1>1, <1>2, <1>3, <1>4, <1>5 DEF Next

(* What an "always" reply approved stays approved; the request it answered *)
(* does not become pending again.                                          *)
LEMMA RecordedNext ==
  ASSUME SettleInv, GrantInv, Recorded, [Next]_vars
  PROVE  Recorded'
<1> USE PermissionAssumption DEF askVars, replyVars, pendingVars, Sweeping, HasApproved
<1>t. /\ req \in [Asks -> Requests] /\ pending \subseteq Asks
      /\ rpc \in [Replies -> ReplyPCs] /\ deferred \in [Asks -> {"none", "open", "allowed", "rejected"}]
      /\ item \in [Replies -> Asks \cup {None}] /\ target \in [Replies -> Asks \cup {None}]
      /\ answer \in [Replies -> {"none", "once", "always", "reject"}] /\ seen \in [Replies -> SUBSET Asks]
  BY DEF SettleInv, PermissionTypeOK
<1>1. ASSUME NEW a \in Asks, AskStep(a) \/ AskInterrupted(a) PROVE Recorded'
  <2>1. UNCHANGED <<req, replyVars, approved>>
    BY <1>1 DEF AskStep, EvaluateNext, AllowedByRules, BecomesPending, Waits, AskReturns, AskInterrupted
  <2>2. \A b \in Asks : deferred[b] # "none" => deferred'[b] # "none" /\ (b \in pending' => b \in pending)
    <3>1. CASE BecomesPending(a)
      BY <3>1, <1>t DEF BecomesPending, Insert, Evaluated, SettleInv, Fresh
    <3> QED
      BY <1>1, <3>1 DEF AskStep, EvaluateNext, AllowedByRules, Waits, AskReturns, AskInterrupted, Delete
  <2> QED
    BY <2>1, <2>2 DEF Recorded, Rules
<1>2. ASSUME NEW r \in Replies, NEW a \in Asks, NotFound(r, a) \/ Takes(r, a) PROVE Recorded'
  <2>1. CASE NotFound(r, a)
    BY <2>1, <1>t DEF NotFound, Recorded, Rules
  <2>2. CASE Takes(r, a)
    <3>1. deferred[a] # "none" /\ pending' = pending \ {a} /\ UNCHANGED <<req, seen, approved, deferred>>
      BY <2>2 DEF Takes, Delete, SettleInv, Fresh
    <3>2. /\ rpc[r] = "new" /\ rpc' = [rpc EXCEPT ![r] = "publish"] /\ target' = [target EXCEPT ![r] = a]
          /\ item' = [item EXCEPT ![r] = a]
          /\ \E reply \in {"once", "always", "reject"} : answer' = [answer EXCEPT ![r] = reply]
      BY <2>2 DEF Takes
    <3>3. seen[r] = {}
      BY <3>2 DEF Recorded
    <3> QED
      BY <1>t, <3>1, <3>2, <3>3 DEF Recorded, Rules
  <2> QED
    BY <1>2, <2>1, <2>2
<1>3. ASSUME NEW r \in Replies, ReplyStep(r) PROVE Recorded'
  <2>1. CASE Publishes(r)
    BY <2>1, <1>t DEF Publishes, Recorded, Rules
  <2>2. CASE Completes(r)
    BY <2>2, <1>t DEF Completes, Complete, Recorded, Rules, SettleInv, Owed
  <2>3. CASE Approves(r)
    BY <2>3, <1>t DEF Approves, Recorded, Rules
  <2>4. CASE SweepsNext(r)
    BY <2>4, <1>t DEF SweepsNext, Delete, Recorded, Rules
  <2> QED
    BY <1>3, <2>1, <2>2, <2>3, <2>4 DEF ReplyStep
<1>4. CASE Dispose
  BY <1>4, <1>t DEF Dispose, Delete, Recorded, Rules
<1>5. ASSUME NEW r \in Replies, ReplyInterrupted(r) PROVE Recorded'
  BY <1>5, <1>t DEF ReplyInterrupted, Recorded, Rules
<1>6. CASE UNCHANGED vars
  BY <1>6 DEF vars, Recorded, Rules
<1> QED
  BY <1>1, <1>2, <1>3, <1>4, <1>5, <1>6 DEF Next, Submit, Interruption

(* A step that lets no sweep end and starts none. *)
LEMMA SweepsFrame ==
  ASSUME SweepsReach, UNCHANGED <<req, seen>>, pending' \subseteq pending,
         \A r \in Replies : HasApproved(r)' => HasApproved(r) /\ target'[r] = target[r],
         \A r \in Replies : HasApproved(r)' /\ Sweeping(r) => Sweeping(r)'
  PROVE  SweepsReach'
<1> SUFFICES ASSUME NEW a \in pending', NEW U \in SUBSET Replies,
                    \A r \in U : HasApproved(r)' /\ Alike(r, a)', CoveredBy(a, U)'
             PROVE  \E r \in U : Sweeping(r)' /\ a \notin seen'[r]
  BY DEF SweepsReach
<1>1. \A r \in U : r \in Replies /\ HasApproved(r) /\ target'[r] = target[r]
  OBVIOUS
<1>2. \A r \in U : Alike(r, a)
  BY <1>1 DEF Alike
<1>3. CoveredBy(a, U)
  BY <1>1 DEF CoveredBy
<1>4. PICK r \in U : Sweeping(r) /\ a \notin seen[r]
  BY <1>1, <1>2, <1>3 DEF SweepsReach
<1> QED
  BY <1>4

(* Replies that cover a have approved all its patterns.                    *)
LEMMA CoveredApproved ==
  ASSUME Recorded, NEW a \in Asks, NEW U \in SUBSET Replies,
         \A r \in U : HasApproved(r) /\ Alike(r, a), CoveredBy(a, U)
  PROVE  Covered(a)
<1> SUFFICES ASSUME NEW i \in DOMAIN req[a].patterns
             PROVE  Approved(req[a].permission, req[a].patterns[i])
  BY DEF Covered
<1>1. PICK r \in U : \E p \in req[target[r]].always : Match(req[a].patterns[i], p)
  BY DEF CoveredBy
<1>2. PICK p \in req[target[r]].always : Match(req[a].patterns[i], p)
  BY <1>1
<1>3. [permission |-> req[target[r]].permission, pattern |-> p] \in approved
  BY <1>2 DEF Recorded, Rules
<1>4. Match(req[a].permission, req[target[r]].permission)
  BY <1>1 DEF Alike, Match
<1> QED
  BY <1>2, <1>3, <1>4 DEF Approved

(* A request is not inserted while approvals cover it; when a reply        *)
(* approves, its sweep has passed nothing yet; and a sweep passes no       *)
(* request that is covered.                                                *)
LEMMA SweepsReachNext ==
  ASSUME SettleInv, GrantInv, SweepInv, [Next]_vars
  PROVE  SweepsReach'
<1> USE PermissionAssumption DEF askVars, replyVars, pendingVars, SweepInv
<1>t. /\ req \in [Asks -> Requests] /\ pending \subseteq Asks /\ older \in [Asks -> SUBSET pending]
      /\ rpc \in [Replies -> ReplyPCs] /\ item \in [Replies -> Asks \cup {None}]
      /\ answer \in [Replies -> {"none", "once", "always", "reject"}] /\ seen \in [Replies -> SUBSET Asks]
      /\ target \in [Replies -> Asks \cup {None}]
  BY DEF SettleInv, PermissionTypeOK
<1>1. ASSUME NEW a \in Asks, AskStep(a) \/ AskInterrupted(a) PROVE SweepsReach'
  <2>1. UNCHANGED <<req, replyVars, approved>>
    BY <1>1 DEF AskStep, EvaluateNext, AllowedByRules, BecomesPending, Waits, AskReturns, AskInterrupted
  <2>2. \A r \in Replies : (HasApproved(r)' <=> HasApproved(r)) /\ (Sweeping(r)' <=> Sweeping(r))
    BY <2>1 DEF HasApproved, Sweeping
  <2>3. CASE pending' \subseteq pending
    BY <2>1, <2>2, <2>3, SweepsFrame
  <2>4. CASE BecomesPending(a)
    <3>1. pending' = pending \cup {a} /\ ~Covered(a)
      BY <2>4 DEF BecomesPending, Insert, Evaluated, Evaluating, Covered
    <3>2. \A b, U : CoveredBy(b, U)' <=> CoveredBy(b, U)
      BY <2>1 DEF CoveredBy
    <3>3. \A b, r : Alike(r, b)' <=> Alike(r, b)
      BY <2>1 DEF Alike
    <3>4. SUFFICES ASSUME NEW b \in pending', NEW U \in SUBSET Replies,
                          \A r \in U : HasApproved(r) /\ Alike(r, b), CoveredBy(b, U)
                   PROVE  \E r \in U : Sweeping(r) /\ b \notin seen[r]
      BY <2>1, <2>2, <3>2, <3>3 DEF SweepsReach
    <3>5. b # a
      BY <3>1, <3>4, CoveredApproved
    <3> QED
      BY <3>1, <3>4, <3>5 DEF SweepsReach
  <2> QED
    BY <1>1, <2>3, <2>4 DEF AskStep, EvaluateNext, AllowedByRules, Waits, AskReturns, AskInterrupted, Delete
<1>2. ASSUME NEW r \in Replies, NEW a \in Asks, NotFound(r, a) \/ Takes(r, a) PROVE SweepsReach'
  <2>1. /\ pending' \subseteq pending /\ UNCHANGED <<req, seen>> /\ rpc[r] = "new"
        /\ \A q \in Replies \ {r} : /\ rpc'[q] = rpc[q] /\ target'[q] = target[q]
                                    /\ item'[q] = item[q] /\ answer'[q] = answer[q]
    BY <1>2, <1>t DEF NotFound, Takes, Delete
  <2>2. ~HasApproved(r)'
    BY <1>2, <1>t DEF NotFound, Takes, HasApproved, Sweeping
  <2> QED
    BY <2>1, <2>2, SweepsFrame DEF HasApproved, Sweeping
<1>3. ASSUME NEW r \in Replies, Publishes(r) \/ Completes(r) \/ ReplyInterrupted(r) PROVE SweepsReach'
  <2>1. UNCHANGED <<req, seen, pending, target, item, answer>> /\ \A q \in Replies \ {r} : rpc'[q] = rpc[q]
    BY <1>3, <1>t DEF Publishes, Completes, ReplyInterrupted
  <2>2. HasApproved(r)' => HasApproved(r) /\ Sweeping(r)'
    BY <1>3, <1>t, <2>1 DEF Publishes, Completes, ReplyInterrupted, HasApproved, Sweeping
  <2> QED
    BY <2>1, <2>2, SweepsFrame DEF HasApproved, Sweeping
<1>4. ASSUME NEW r \in Replies, Approves(r) PROVE SweepsReach'
  <2>1. /\ UNCHANGED <<req, pending, target, item, answer, seen>> /\ rpc' = [rpc EXCEPT ![r] = "sweep"]
        /\ rpc[r] = "approve" /\ answer[r] = "always"
    BY <1>4 DEF Approves, GrantInv, Swept
  <2>2. Sweeping(r)' /\ seen[r] = {}
    BY <1>t, <2>1 DEF Recorded, HasApproved, Sweeping
  <2>3. \A q \in Replies \ {r} : (HasApproved(q)' <=> HasApproved(q)) /\ (Sweeping(q)' <=> Sweeping(q))
    BY <1>t, <2>1 DEF HasApproved, Sweeping
  <2>4. (\A b, U : CoveredBy(b, U)' <=> CoveredBy(b, U)) /\ \A b, q : Alike(q, b)' <=> Alike(q, b)
    BY <2>1 DEF CoveredBy, Alike
  <2>5. SUFFICES ASSUME NEW b \in pending, NEW U \in SUBSET Replies, r \notin U,
                        \A q \in U : HasApproved(q) /\ Alike(q, b), CoveredBy(b, U)
                 PROVE  \E q \in U : Sweeping(q) /\ b \notin seen[q]
    BY <2>1, <2>2, <2>3, <2>4 DEF SweepsReach
  <2> QED
    BY <2>5 DEF SweepsReach
<1>5. ASSUME NEW r \in Replies, SweepsNext(r) PROVE SweepsReach'
  <2>1. /\ UNCHANGED <<req, target, answer, approved>> /\ pending' \subseteq pending /\ rpc[r] = "sweep"
        /\ \A q \in Replies \ {r} : rpc'[q] = rpc[q] /\ item'[q] = item[q] /\ seen'[q] = seen[q]
    BY <1>5, <1>t DEF SweepsNext, Delete
  <2>2. \A q \in Replies : HasApproved(q)' => HasApproved(q)
    BY <1>t, <2>1 DEF HasApproved, Sweeping
  <2>3. \A q \in Replies \ {r} : Sweeping(q) => Sweeping(q)'
    BY <2>1 DEF Sweeping
  <2>4. (\A b, U : CoveredBy(b, U)' <=> CoveredBy(b, U)) /\ \A b, q : Alike(q, b)' <=> Alike(q, b)
    BY <2>1 DEF CoveredBy, Alike
  <2>5. SUFFICES ASSUME NEW b \in pending', NEW U \in SUBSET Replies,
                        \A q \in U : HasApproved(q) /\ Alike(q, b), CoveredBy(b, U)
                 PROVE  \E q \in U : Sweeping(q)' /\ b \notin seen'[q]
    BY <2>2, <2>4 DEF SweepsReach
  <2>6. PICK q \in U : Sweeping(q) /\ b \notin seen[q]
    BY <2>1, <2>5 DEF SweepsReach
  <2>7. CASE q # r
    BY <2>1, <2>3, <2>6, <2>7
  <2>8. CASE q = r
    <3> DEFINE hits == {c \in pending \ seen[r] : Eligible(r, c)}
    <3>1. b \in hits
      <4>1. Covered(b)
        BY <1>t, <2>1, <2>5, CoveredApproved
      <4> QED
        BY <2>1, <2>5, <2>6, <2>8, <4>1 DEF Eligible, Alike
    <3>2. PICK c \in hits :
            /\ older[c] \cap hits = {}
            /\ item' = [item EXCEPT ![r] = c] /\ rpc' = [rpc EXCEPT ![r] = "publish"]
            /\ seen' = [seen EXCEPT ![r] = @ \cup older[c] \cup {c}] /\ pending' = pending \ {c}
      BY <1>5, <3>1 DEF SweepsNext, Delete
    <3>3. b \notin seen'[r]
      BY <1>t, <2>5, <2>6, <2>8, <3>1, <3>2
    <3>4. Sweeping(r)'
      <4>1. c # target[r]
        BY <2>1, <3>2 DEF Recorded
      <4> QED
        BY <1>t, <2>1, <2>6, <2>8, <3>2, <4>1 DEF Sweeping
    <3> QED
      BY <2>8, <3>3, <3>4
  <2> QED
    BY <2>7, <2>8
<1>6. CASE Dispose
  BY <1>6 DEF Dispose, Delete, SweepsReach
<1>7. CASE UNCHANGED vars
  BY <1>7, SweepsFrame DEF vars, HasApproved, Sweeping
<1> QED
  BY <1>1, <1>2, <1>3, <1>4, <1>5, <1>6, <1>7 DEF Next, Submit, ReplyStep, Interruption

(* Where no fiber is preempted in the middle of a computation, the user is *)
(* not asked what was just approved: when "always" replies of a session    *)
(* are through, no request of the session that they cover is pending       *)
(* (index.ts 73-112, 139-164).                                             *)
THEOREM AlwaysReleasesPending == ~Preempt => (Spec => []AlwaysReleases)
<1> DEFINE I == SettleInv /\ GrantInv /\ SweepInv
<1>1. I => AlwaysReleases
  <2>1. SUFFICES ASSUME I, NEW a \in pending,
                        \A i \in DOMAIN req[a].patterns :
                          \E p \in ApprovedIn(req[a].session, req[a].permission) : Match(req[a].patterns[i], p)
                 PROVE  FALSE
    BY DEF AlwaysReleases
  <2> DEFINE U == {q \in Replies : /\ rpc[q] = "done" /\ answer[q] = "always"
                                   /\ req[target[q]].session = req[a].session
                                   /\ req[target[q]].permission = req[a].permission}
  <2>2. U \in SUBSET Replies /\ \A q \in U : HasApproved(q) /\ Alike(q, a)
    BY DEF HasApproved, Alike
  <2>3. CoveredBy(a, U)
    BY <2>1 DEF CoveredBy, ApprovedIn
  <2>4. PICK q \in U : Sweeping(q)
    BY <2>1, <2>2, <2>3 DEF SweepInv, SweepsReach
  <2> QED
    BY <2>4 DEF Sweeping
<1>2. Init => I
  BY SettleInit, GrantInit, SweepInit
<1>3. ASSUME ~Preempt PROVE Spec => []AlwaysReleases
  <2>1. I /\ [Next]_vars => I'
    BY <1>3, SettleNext, GrantNext, EvaluatingNext, RecordedNext, SweepsReachNext DEF SweepInv
  <2> HIDE DEF I
  <2> QED
    BY <1>1, <1>2, <2>1, PTL DEF Spec
<1> QED
  BY <1>3
===============================================================================
