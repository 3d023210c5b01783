------------------------------- MODULE MCPrompt -------------------------------
(* SessionPrompt for TLC.                                                  *)
EXTENDS SessionPrompt, FiniteSets, TLC

(* Requests are interchangeable: they begin in the order of their names. *)
InOrder == \A d \in Ops \ {1} : stage[d] # "new" => stage[d - 1] # "new"

(* Bound: two prompts and one other request; a session that is cancelled,  *)
(* reverted or unreverted grows by one message less, and so does one after *)
(* a loop has failed.  A compaction that is asked for is an automatic one: *)
(* without the replay it does what a plain one does.                       *)
Prompts == {c \in Ops : role[c] = "user"}
Others == {c \in Ops : stage[c] # "new" /\ role[c] # "user"}

InBounds ==
  /\ Cardinality(Prompts) <= 2 /\ Cardinality(Others) <= 1
  /\ \A c \in Ops : role[c] # "compact"
  /\ (\E c \in Others : role[c] = "none") \/ (\E f \in Ops : loop[f] = "failed") => clock < MaxMessages

(* PromptNext, without a look at requests that are over and at loops that  *)
(* have not begun or are over: they take no step.                          *)
MCNext ==
  /\ \E c \in Ops : \/ stage[c] # "over" /\ HandleRequest(c)
                    \/ phase[c] \in {"active", "cancelled"} /\ RunLoop(c)
  /\ InOrder' /\ InBounds'

MCSpec == PromptInit /\ [][MCNext]_vars
===============================================================================
