------------------------------- MODULE Question -------------------------------
(* Questions to the user, question/index.ts, in a directory whose instance *)
(* may be reloaded or disposed meanwhile (InstanceStore).  The pending     *)
(* questions are the per-directory state of InstanceStore: the disposers   *)
(* drop `cell`, and its finalizer rejects what is pending in it.           *)
(*                                                                         *)
(* A step ends where the code may lose the processor: at a publish or at a *)
(* wait.                                                                   *)
EXTENDS InstanceStore, Naturals, Sequences

CONSTANTS Questions, Replies

VARIABLES
  qpc,       \* qpc[q]: where ask is
  pending,   \* the keys of `pending` in the current state
  answered,  \* answered[q]: its Deferred: "none", "open", "answered", "rejected"
  rpc,       \* rpc[r]: where reply or reject is
  rkind,     \* rkind[r]: "answered" for reply, "rejected" for reject
  item,      \* item[r]: the question r has taken
  events,    \* events[q]: what was published about q
  before     \* before[c]: what was pending when reload c replaced an entry

questionVars == <<qpc, pending, answered, rpc, rkind, item, events, before>>
vars == <<storeVars, questionVars>>

Init ==
  /\ StoreInit
  /\ qpc = [q \in Questions |-> "new"] /\ pending = {} /\ answered = [q \in Questions |-> "none"]
  /\ rpc = [r \in Replies |-> "new"] /\ rkind = [r \in Replies |-> "none"]
  /\ item = [r \in Replies |-> None] /\ events = [q \in Questions |-> <<>>]
  /\ before = [c \in Calls |-> {}]

(* A request or a run that holds an instance gets the state. *)
GetsState == \E c \in Calls : pc[c] = "using" /\ Touch(entry[c]) /\ UNCHANGED <<callVars, entryVars>>
-------------------------------------------------------------------------------
Ask(q) ==
  /\ qpc[q] = "new" /\ GetsState
  /\ qpc' = [qpc EXCEPT ![q] = "publishing"]
  /\ pending' = pending \cup {q}
  /\ answered' = [answered EXCEPT ![q] = "open"]
  /\ UNCHANGED <<rpc, rkind, item, events, before>>

Asked(q) ==
  /\ qpc[q] = "publishing"
  /\ qpc' = [qpc EXCEPT ![q] = "waiting"]
  /\ UNCHANGED <<storeVars, pending, answered, rpc, rkind, item, events, before>>

AskReturns(q) ==
  /\ qpc[q] = "waiting" /\ answered[q] # "open"
  /\ qpc' = [qpc EXCEPT ![q] = "returned"]
  /\ pending' = pending \ {q}
  /\ UNCHANGED <<storeVars, answered, rpc, rkind, item, events, before>>

(* `ensuring` covers the wait only. *)
AskInterrupted(q) ==
  /\ qpc[q] \in {"publishing", "waiting"}
  /\ qpc' = [qpc EXCEPT ![q] = "interrupted"]
  /\ pending' = IF qpc[q] = "waiting" THEN pending \ {q} ELSE pending
  /\ UNCHANGED <<storeVars, answered, rpc, rkind, item, events, before>>

NotFound(r, q) ==
  /\ rpc[r] = "new" /\ qpc[q] # "new" /\ GetsState
  /\ q \notin pending
  /\ rpc' = [rpc EXCEPT ![r] = "notFound"]
  /\ UNCHANGED <<qpc, pending, answered, rkind, item, events, before>>

(* Mutant of Takes: the entry is left to the asker. *)
TakesKeepsPending(r, q) ==
  /\ rpc[r] = "new" /\ qpc[q] # "new" /\ GetsState
  /\ q \in pending
  /\ \E k \in {"answered", "rejected"} : rkind' = [rkind EXCEPT ![r] = k]
  /\ item' = [item EXCEPT ![r] = q]
  /\ rpc' = [rpc EXCEPT ![r] = "publish"]
  /\ UNCHANGED <<qpc, pending, answered, events, before>>

(* reply or reject: the entry is deleted before anything is published. *)
Takes(r, q) ==
  /\ rpc[r] = "new" /\ qpc[q] # "new" /\ GetsState
  /\ q \in pending
  /\ pending' = pending \ {q}
  /\ \E k \in {"answered", "rejected"} : rkind' = [rkind EXCEPT ![r] = k]
  /\ item' = [item EXCEPT ![r] = q]
  /\ rpc' = [rpc EXCEPT ![r] = "publish"]
  /\ UNCHANGED <<qpc, answered, events, before>>

Publishes(r) ==
  /\ rpc[r] = "publish"
  /\ events' = [events EXCEPT ![item[r]] = Append(@, rkind[r])]
  /\ rpc' = [rpc EXCEPT ![r] = "complete"]
  /\ UNCHANGED <<storeVars, qpc, pending, answered, rkind, item, before>>

Completes(r) ==
  /\ rpc[r] = "complete"
  /\ answered' = [answered EXCEPT ![item[r]] = IF @ = "open" THEN rkind[r] ELSE @]
  /\ rpc' = [rpc EXCEPT ![r] = "done"]
  /\ UNCHANGED <<storeVars, qpc, pending, rkind, item, events, before>>

(* The request that carries the answer is aborted between two effects. *)
ReplyInterrupted(r) ==
  /\ rpc[r] \in {"publish", "complete"}
  /\ rpc' = [rpc EXCEPT ![r] = "interrupted"]
  /\ UNCHANGED <<storeVars, qpc, pending, answered, rkind, item, events, before>>

(* Mutant of FinalizesPending: the map is cleared and nobody is told. *)
ForgetsPending ==
  /\ pending' = {}
  /\ UNCHANGED answered

(* The finalizer of the state. *)
FinalizesPending ==
  /\ pending' = {}
  /\ answered' = [q \in Questions |-> IF q \in pending /\ answered[q] = "open" THEN "rejected" ELSE answered[q]]

(* A step of the store; the state is finalized if the step disposes of it. *)
StoreStep ==
  /\ StoreNext
  /\ IF cell # None /\ cell' = None THEN FinalizesPending ELSE UNCHANGED <<pending, answered>>
  /\ before' = [c \in Calls |-> IF cache # None /\ cache' = c /\ cache # c THEN pending ELSE before[c]]
  /\ UNCHANGED <<qpc, rpc, rkind, item, events>>

AskStep(q) == Ask(q) \/ Asked(q) \/ AskReturns(q) \/ AskInterrupted(q)

ReplyStep(r) ==
  \/ \E q \in Questions : NotFound(r, q) \/ Takes(r, q)
  \/ Publishes(r) \/ Completes(r) \/ ReplyInterrupted(r)

Next == StoreStep \/ (\E q \in Questions : AskStep(q)) \/ (\E r \in Replies : ReplyStep(r))

Spec == Init /\ [][Next]_vars
-------------------------------------------------------------------------------
(* Properties. *)

(* Reply r has taken q and not yet answered it, or never will. *)
Settling(r, q) == item[r] = q /\ rpc[r] \in {"publish", "complete", "interrupted"}

(* A question that is waited for can be answered: it is pending in the      *)
(* state a request of the directory would get now, whichever instances came *)
(* and went, or a reply is settling it (index.ts 87-112, 114-148).          *)
QuestionReachable ==
  \A q \in Questions : qpc[q] \in {"publishing", "waiting"} /\ answered[q] = "open" =>
    (q \in pending /\ cell # None) \/ \E r \in Replies : Settling(r, q)

(* Replies, rejections and disposals may race for a question: at most one   *)
(* event is published, and the asker hears what it says.  A rejection       *)
(* without an event comes from the finalizer.                               *)
QuestionAnsweredOnce ==
  \A q \in Questions :
    /\ Len(events[q]) <= 1
    /\ answered[q] = "answered" => events[q] = <<"answered">>
    /\ answered[q] = "rejected" => events[q] \in {<<>>, <<"rejected">>}

(* "pending question rejects on instance reload": what was pending when a   *)
(* reload replaced an entry is settled before the new instance boots,       *)
(* except by a reply that is on its way or has died on it, or when the      *)
(* asker was interrupted.                                                   *)
ReloadRejects ==
  \A c \in Calls, q \in Questions :
    fpc[c] \in {"disposing", "booting", "ended"} /\ q \in before[c] =>
      answered[q] # "open" \/ qpc[q] = "interrupted" \/ \E r \in Replies : Settling(r, q)
===============================================================================
