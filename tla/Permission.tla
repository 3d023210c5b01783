------------------------------ MODULE Permission ------------------------------
(***************************************************************************)
(* packages/opencode/src/permission/index.ts: a tool call asks before it   *)
(* acts; the configured rules and the approvals collected so far allow it, *)
(* deny it, or make it wait in `pending` until the user replies once,      *)
(* always or reject.                                                       *)
(*                                                                         *)
(* Events are published between taking a request out of `pending` and      *)
(* completing its Deferred; publishing may suspend the fiber, so replies   *)
(* and new requests interleave there.  With Preempt TRUE the runtime may   *)
(* also take the processor from a fiber between any two other effects.     *)
(* `pending` is a JavaScript Map, iterated live and in insertion order:    *)
(* entries added during the iteration are visited, deleted ones are not.   *)
(* Here it is the set of its keys, each with the keys that precede it.     *)
(*                                                                         *)
(* Approvals are only ever "allow" rules, so their order is irrelevant and *)
(* `approved` is a set.  A rejection with feedback (CorrectedError) takes  *)
(* the same path as one without.                                           *)
(***************************************************************************)
EXTENDS Naturals, Sequences

CONSTANTS
  Asks,       \* the calls of ask
  Replies,    \* the calls of reply
  Requests,   \* what may be asked: [session, permission, patterns, always, ruleset]
  Impatient,  \* the asks and replies whose fiber may be interrupted
  Preempt,    \* whether a fiber may be preempted where it does not wait
  None

ASSUME PermissionAssumption ==
  /\ Asks \cap Replies = {} /\ None \notin Asks \cup Replies
  /\ Preempt \in BOOLEAN

ASSUME RequestsAssumption == \A q \in Requests : q.patterns \in Seq(STRING)

VARIABLES
  req,       \* req[a]: the AskInput of a
  apc,       \* apc[a]: where ask a is, or its result
  idx,       \* idx[a]: the next pattern to evaluate
  needsAsk,  \* needsAsk[a]
  pending,   \* the pending requests
  older,     \* older[a]: the pending requests that precede a in the Map
  approved,  \* the rules approved by "always" replies
  deferred,  \* deferred[a]: "none", "open", "allowed" or "rejected"
  rpc,       \* rpc[r]: where reply r is, or its result
  target,    \* target[r]: the request replied to
  answer,    \* answer[r]: "once", "always" or "reject"
  item,      \* item[r]: the request r is settling
  seen,      \* seen[r]: the entries the iteration of r has passed
  events,    \* events[a]: the replies published for a
  disposed   \* the instance's finalizer has run

askVars   == <<req, apc, idx, needsAsk>>
replyVars == <<rpc, target, answer, item, seen>>
pendingVars == <<pending, older>>
vars == <<askVars, replyVars, pendingVars, approved, deferred, events, disposed>>

Star == "*"

(* Wildcard.match, for literal patterns and "*". *)
Match(value, pattern) == pattern = Star \/ pattern = value

(* evaluate: the last matching rule of a ruleset, "ask" without one. *)
Verdict(permission, pattern, ruleset) ==
  LET hits == {i \in DOMAIN ruleset : /\ Match(permission, ruleset[i].permission)
                                      /\ Match(pattern, ruleset[i].pattern)}
  IN IF hits = {} THEN "ask" ELSE ruleset[CHOOSE i \in hits : \A j \in hits : j <= i].action

Approved(permission, pattern) ==
  \E rule \in approved : Match(permission, rule.permission) /\ Match(pattern, rule.pattern)

(* The approvals come after the ruleset, so they win. *)
Evaluate(a, pattern) ==
  IF Approved(req[a].permission, pattern) THEN "allow"
  ELSE Verdict(req[a].permission, pattern, req[a].ruleset)

Init ==
  /\ req \in [Asks -> Requests]
  /\ apc = [a \in Asks |-> "new"] /\ idx = [a \in Asks |-> 1] /\ needsAsk = [a \in Asks |-> FALSE]
  /\ pending = {} /\ older = [a \in Asks |-> {}] /\ approved = {} /\ deferred = [a \in Asks |-> "none"]
  /\ rpc = [r \in Replies |-> "new"] /\ target = [r \in Replies |-> None]
  /\ answer = [r \in Replies |-> "none"] /\ item = [r \in Replies |-> None]
  /\ seen = [r \in Replies |-> {}]
  /\ events = [a \in Asks |-> <<>>] /\ disposed = FALSE
(* pending.set for a new key, and pending.delete for some. *)
Insert(a) ==
  /\ pending' = pending \cup {a}
  /\ older' = [older EXCEPT ![a] = pending]

Delete(S) ==
  /\ pending' = pending \ S
  /\ older' = [a \in Asks |-> IF a \in S THEN {} ELSE older[a] \ S]
-------------------------------------------------------------------------------
(* ask *)

(* Each pattern is evaluated against the approvals of that moment; a       *)
(* denied pattern ends the ask at once.                                    *)
EvaluateNext(a) ==
  /\ apc[a] = "new" \/ apc[a] = "evaluating"
  /\ apc[a] = "new" => ~disposed
  /\ idx[a] <= Len(req[a].patterns)
  /\ LET action == Evaluate(a, req[a].patterns[idx[a]]) IN
     /\ apc' = [apc EXCEPT ![a] = IF action = "deny" THEN "denied" ELSE "evaluating"]
     /\ needsAsk' = [needsAsk EXCEPT ![a] = @ \/ action \notin {"allow", "deny"}]
     /\ idx' = [idx EXCEPT ![a] = @ + 1]
  /\ UNCHANGED <<req, replyVars, pendingVars, approved, deferred, events, disposed>>

Evaluated(a) == apc[a] = "evaluating" /\ idx[a] > Len(req[a].patterns)

AllowedByRules(a) ==
  /\ Evaluated(a) /\ ~needsAsk[a]
  /\ apc' = [apc EXCEPT ![a] = "granted"]
  /\ UNCHANGED <<req, idx, needsAsk, replyVars, pendingVars, approved, deferred, events, disposed>>

(* The request is pending, and Asked is being published. *)
BecomesPending(a) ==
  /\ Evaluated(a) /\ needsAsk[a]
  /\ apc' = [apc EXCEPT ![a] = "asking"]
  /\ Insert(a)
  /\ deferred' = [deferred EXCEPT ![a] = "open"]
  /\ UNCHANGED <<req, idx, needsAsk, replyVars, approved, events, disposed>>

Waits(a) ==
  /\ apc[a] = "asking"
  /\ apc' = [apc EXCEPT ![a] = "waiting"]
  /\ UNCHANGED <<req, idx, needsAsk, replyVars, pendingVars, approved, deferred, events, disposed>>

(* The Deferred is done; `ensuring` deletes the entry if it is still there. *)
AskReturns(a) ==
  /\ apc[a] = "waiting" /\ deferred[a] # "open"
  /\ apc' = [apc EXCEPT ![a] = IF deferred[a] = "allowed" THEN "granted" ELSE "rejected"]
  /\ Delete({a})
  /\ UNCHANGED <<req, idx, needsAsk, replyVars, approved, deferred, events, disposed>>

(* The run is cancelled.  Only once it waits does the ask clean up: an     *)
(* interruption while Asked is published leaves the entry behind.          *)
AskInterrupted(a) ==
  /\ a \in Impatient /\ apc[a] \in {"evaluating", "asking", "waiting"}
  /\ apc' = [apc EXCEPT ![a] = "interrupted"]
  /\ IF apc[a] = "waiting" THEN Delete({a}) ELSE UNCHANGED pendingVars
  /\ UNCHANGED <<req, idx, needsAsk, replyVars, approved, deferred, events, disposed>>
-------------------------------------------------------------------------------
(* reply *)

NotFound(r, a) ==
  /\ rpc[r] = "new" /\ ~disposed
  /\ a \notin pending
  /\ rpc' = [rpc EXCEPT ![r] = "notFound"]
  /\ UNCHANGED <<askVars, target, answer, item, seen, pendingVars, approved, deferred, events, disposed>>

(* Mutant of Takes: the request leaves `pending` only when its ask returns. *)
TakesKeepsPending(r, a) ==
  /\ rpc[r] = "new" /\ ~disposed
  /\ a \in pending
  /\ \E reply \in {"once", "always", "reject"} : answer' = [answer EXCEPT ![r] = reply]
  /\ target' = [target EXCEPT ![r] = a]
  /\ item' = [item EXCEPT ![r] = a]
  /\ rpc' = [rpc EXCEPT ![r] = "publish"]
  /\ UNCHANGED <<askVars, seen, pendingVars, approved, deferred, events, disposed>>

(* The request leaves `pending` before anything is published. *)
Takes(r, a) ==
  /\ rpc[r] = "new" /\ ~disposed
  /\ a \in pending
  /\ Delete({a})
  /\ \E reply \in {"once", "always", "reject"} : answer' = [answer EXCEPT ![r] = reply]
  /\ target' = [target EXCEPT ![r] = a]
  /\ item' = [item EXCEPT ![r] = a]
  /\ rpc' = [rpc EXCEPT ![r] = "publish"]
  /\ UNCHANGED <<askVars, seen, approved, deferred, events, disposed>>

(* Mutant of Publishes: a swept request hears of the event only. *)
PublishesOnly(r) ==
  /\ rpc[r] = "publish"
  /\ events' = [events EXCEPT ![item[r]] = Append(@, answer[r])]
  /\ rpc' = [rpc EXCEPT ![r] = IF item[r] = target[r] THEN "complete" ELSE "sweep"]
  /\ UNCHANGED <<askVars, target, answer, item, seen, pendingVars, approved, deferred, disposed>>

Publishes(r) ==
  /\ rpc[r] = "publish"
  /\ events' = [events EXCEPT ![item[r]] = Append(@, answer[r])]
  /\ rpc' = [rpc EXCEPT ![r] = "complete"]
  /\ UNCHANGED <<askVars, target, answer, item, seen, pendingVars, approved, deferred, disposed>>

Complete(a, value) == deferred' = [deferred EXCEPT ![a] = IF @ = "open" THEN value ELSE @]

(* Mutant of Completes: the Deferred is completed with the reply itself. *)
CompletesWithReply(r) ==
  /\ rpc[r] = "complete"
  /\ Complete(item[r], answer[r])
  /\ rpc' = [rpc EXCEPT ![r] = IF item[r] # target[r] \/ answer[r] = "reject" THEN "sweep"
                               ELSE IF answer[r] = "once" THEN "done" ELSE "approve"]
  /\ UNCHANGED <<askVars, target, answer, item, seen, pendingVars, approved, events, disposed>>

(* Mutant of Completes: a rejection ends with the request itself. *)
CompletesTargetOnly(r) ==
  /\ rpc[r] = "complete"
  /\ Complete(item[r], IF answer[r] = "reject" THEN "rejected" ELSE "allowed")
  /\ rpc' = [rpc EXCEPT ![r] = IF item[r] # target[r] THEN "sweep"
                               ELSE IF answer[r] = "always" THEN "approve" ELSE "done"]
  /\ UNCHANGED <<askVars, target, answer, item, seen, pendingVars, approved, events, disposed>>

(* The Deferred of the request itself, then of each request swept along. *)
Completes(r) ==
  /\ rpc[r] = "complete"
  /\ Complete(item[r], IF answer[r] = "reject" THEN "rejected" ELSE "allowed")
  /\ rpc' = [rpc EXCEPT ![r] = IF item[r] # target[r] \/ answer[r] = "reject" THEN "sweep"
                               ELSE IF answer[r] = "once" THEN "done" ELSE "approve"]
  /\ UNCHANGED <<askVars, target, answer, item, seen, pendingVars, approved, events, disposed>>

(* Mutant of Approves: the other pending requests are left alone. *)
ApprovesOnly(r) ==
  /\ rpc[r] = "approve"
  /\ approved' = approved \cup
       {[permission |-> req[target[r]].permission, pattern |-> p] : p \in req[target[r]].always}
  /\ rpc' = [rpc EXCEPT ![r] = "done"]
  /\ UNCHANGED <<askVars, target, answer, item, seen, pendingVars, deferred, events, disposed>>

Approves(r) ==
  /\ rpc[r] = "approve"
  /\ approved' = approved \cup
       {[permission |-> req[target[r]].permission, pattern |-> p] : p \in req[target[r]].always}
  /\ rpc' = [rpc EXCEPT ![r] = "sweep"]
  /\ UNCHANGED <<askVars, target, answer, item, seen, pendingVars, deferred, events, disposed>>

(* Mutant of Covered: one approved pattern is enough. *)
CoveredInPart(a) == \E i \in DOMAIN req[a].patterns : Approved(req[a].permission, req[a].patterns[i])

(* A pending request is swept along by a rejection in its session, or by   *)
(* approvals that allow all its patterns without looking at its ruleset.   *)
Covered(a) == \A i \in DOMAIN req[a].patterns : Approved(req[a].permission, req[a].patterns[i])

Eligible(r, a) ==
  /\ req[a].session = req[target[r]].session
  /\ answer[r] = "always" => Covered(a)

SweepsNext(r) ==
  /\ rpc[r] = "sweep"
  /\ LET hits == {a \in pending \ seen[r] : Eligible(r, a)} IN
     \/ /\ hits = {}
        /\ rpc' = [rpc EXCEPT ![r] = "done"]
        /\ UNCHANGED <<item, seen, pendingVars>>
     \/ \E a \in hits :
        /\ older[a] \cap hits = {}
        /\ item' = [item EXCEPT ![r] = a]
        /\ seen' = [seen EXCEPT ![r] = @ \cup older[a] \cup {a}]
        /\ Delete({a})
        /\ rpc' = [rpc EXCEPT ![r] = "publish"]
  /\ UNCHANGED <<askVars, target, answer, approved, deferred, events, disposed>>

(* The request that carries the reply is aborted between two effects. *)
ReplyInterrupted(r) ==
  /\ r \in Impatient /\ rpc[r] \in {"publish", "complete", "approve", "sweep"}
  /\ rpc' = [rpc EXCEPT ![r] = "interrupted"]
  /\ UNCHANGED <<askVars, target, answer, item, seen, pendingVars, approved, deferred, events, disposed>>

(* Mutant of Dispose: the pending asks are forgotten. *)
DisposeForgets ==
  /\ ~disposed
  /\ disposed' = TRUE
  /\ Delete(pending)
  /\ UNCHANGED <<askVars, replyVars, approved, deferred, events>>

(* The finalizer of the instance rejects what is pending. *)
Dispose ==
  /\ ~disposed
  /\ disposed' = TRUE
  /\ deferred' = [a \in Asks |-> IF a \in pending /\ deferred[a] = "open" THEN "rejected" ELSE deferred[a]]
  /\ Delete(pending)
  /\ UNCHANGED <<askVars, replyVars, approved, events>>
-------------------------------------------------------------------------------
AskStep(a) == EvaluateNext(a) \/ AllowedByRules(a) \/ BecomesPending(a) \/ Waits(a) \/ AskReturns(a)

Submit(r) == \E a \in Asks : NotFound(r, a) \/ Takes(r, a)

ReplyStep(r) == Publishes(r) \/ Completes(r) \/ Approves(r) \/ SweepsNext(r)

Interruption == (\E a \in Asks : AskInterrupted(a)) \/ (\E r \in Replies : ReplyInterrupted(r))

(* A fiber in the middle of something that does not wait. *)
Computes(f) ==
  \/ f \in Asks /\ apc[f] = "evaluating"
  \/ f \in Replies /\ rpc[f] \in {"complete", "approve", "sweep"}

Turn(f) == Preempt \/ \A g \in Asks \cup Replies : Computes(g) => g = f

Next ==
  \/ \E a \in Asks : Turn(a) /\ AskStep(a)
  \/ \E r \in Replies : Turn(r) /\ (Submit(r) \/ ReplyStep(r))
  \/ Turn(None) /\ (Dispose \/ Interruption)

Spec == Init /\ [][Next]_vars

(* The runtime runs every fiber that can run; users need not reply. *)
FairSpec ==
  /\ Spec
  /\ \A a \in Asks : WF_vars(Turn(a) /\ AskStep(a))
  /\ \A r \in Replies : WF_vars(Turn(r) /\ ReplyStep(r))
-------------------------------------------------------------------------------
(* Properties. *)

AskPCs == {"new", "evaluating", "asking", "waiting", "granted", "denied", "rejected", "interrupted"}

ReplyPCs == {"new", "notFound", "publish", "complete", "approve", "sweep", "done", "interrupted"}

(* Every variable has its type, and the order of `pending` is one of its   *)
(* own entries.                                                            *)
PermissionTypeOK ==
  /\ req \in [Asks -> Requests]
  /\ apc \in [Asks -> AskPCs] /\ idx \in [Asks -> Nat] /\ needsAsk \in [Asks -> BOOLEAN]
  /\ pending \subseteq Asks
  /\ older \in [Asks -> SUBSET pending]
  /\ deferred \in [Asks -> {"none", "open", "allowed", "rejected"}]
  /\ rpc \in [Replies -> ReplyPCs]
  /\ target \in [Replies -> Asks \cup {None}] /\ item \in [Replies -> Asks \cup {None}]
  /\ answer \in [Replies -> {"none", "once", "always", "reject"}]
  /\ seen \in [Replies -> SUBSET Asks]
  /\ events \in [Asks -> Seq({"once", "always", "reject"})]
  /\ disposed \in BOOLEAN

(* Reply r has taken a out of `pending` and still owes it an answer. *)
Settling(r, a) == item[r] = a /\ rpc[r] \in {"publish", "complete"}

(* Somebody who still knows a waiting ask will answer it: it is in the      *)
(* `pending` of a live instance, where a reply or the finalizer finds it,   *)
(* or a reply that took it is settling it (index.ts 54-61, 114-164).  Only  *)
(* a reply that was itself interrupted between the two breaks the chain.    *)
(* This is without preemption.  An ask preempted while it is evaluated may  *)
(* become pending after the finalizer has run: its entry is then in a map   *)
(* that no reply and no finalizer reads any more, and it waits for ever.    *)
NoStrandedAsk ==
  \A a \in Asks : apc[a] \in {"asking", "waiting"} /\ deferred[a] = "open" =>
    \/ a \in pending /\ ~disposed
    \/ \E r \in Replies : Settling(r, a) \/ (item[r] = a /\ rpc[r] = "interrupted")

(* However many replies race for a request, directly or by a sweep, one     *)
(* Replied event is published for it, and what the ask hears is what the    *)
(* event said; a rejection without an event comes from the finalizer.       *)
AnsweredOnce ==
  \A a \in Asks :
    /\ Len(events[a]) <= 1
    /\ a \in pending => deferred[a] = "open" /\ events[a] = <<>>
    /\ deferred[a] = "allowed" => events[a] \in {<<"once">>, <<"always">>}
    /\ deferred[a] = "rejected" => events[a] = <<"reject">> \/ (events[a] = <<>> /\ disposed)
    /\ events[a] # <<>> /\ deferred[a] = "open" =>
         \E r \in Replies : item[r] = a /\ rpc[r] \in {"complete", "interrupted"}

(* What rules and approvals say about a pattern of a. *)
ByRules(a, i) == Verdict(req[a].permission, req[a].patterns[i], req[a].ruleset)

Allows(a, i) == ByRules(a, i) = "allow" \/ Approved(req[a].permission, req[a].patterns[i])

(* The user answered this very request with "once" or "always". *)
AnsweredYes(a) == \E r \in Replies : target[r] = a /\ answer[r] \in {"once", "always"}

(* No tool call goes ahead on a pattern that neither the rules, nor an      *)
(* approval, nor the user's own answer to this request allows; in           *)
(* particular a request swept along with another one is fully covered, and  *)
(* a configured deny yields only to an approval (index.ts 73-84, 150-164).  *)
GrantJustified ==
  \A a \in Asks : apc[a] = "granted" =>
    \A i \in DOMAIN req[a].patterns :
      Allows(a, i) \/ (ByRules(a, i) # "deny" /\ AnsweredYes(a))

(* The patterns that the finished "always" replies of a session approved. *)
ApprovedIn(session, permission) ==
  UNION {req[target[r]].always : r \in {q \in Replies :
           /\ rpc[q] = "done" /\ answer[q] = "always"
           /\ req[target[q]].session = session /\ req[target[q]].permission = permission}}

(* The user is not asked what was just approved: once "always" replies of   *)
(* a session are through, no request of that session that they cover is     *)
(* left pending, whether it came before, during or after their sweeps.      *)
(* With preemption an ask evaluated before an approval may be added to      *)
(* `pending` after the sweep, and stays there.                              *)
AlwaysReleases ==
  \A a \in pending :
    \E i \in DOMAIN req[a].patterns :
      \A p \in ApprovedIn(req[a].session, req[a].permission) : ~Match(req[a].patterns[i], p)

(* A rejection rejects what was pending in its session when it was given,   *)
(* unless another reply got to it first or its own fiber was interrupted.   *)
RejectCascades ==
  \A r \in Replies, a \in Asks :
    (/\ rpc[r] = "publish" /\ item[r] = target[r] /\ answer[r] = "reject"
     /\ a \in pending /\ req[a].session = req[target[r]].session)
      ~> (deferred[a] # "open" \/ apc[a] = "interrupted")

(* Once its reply has been taken, an ask returns. *)
RepliedAskReturns ==
  \A a \in Asks :
    (\E r \in Replies : Settling(r, a)) ~> apc[a] \in {"granted", "rejected", "interrupted"}
===============================================================================
