------------------------------ MODULE MCQuestion ------------------------------
(* InstanceStore and Question for TLC.                                     *)
EXTENDS Question, TLC

(* Calls, and replies, are interchangeable: they come in the order of      *)
(* their names.                                                            *)
InOrder(at, new) ==
  \A c, d \in DOMAIN at : c < d /\ at[d] # new => at[c] # new

(* Bound: all the calls without a question, or all but one with it. *)
Quiet == \A q \in Questions : qpc[q] = "new"

MCNext ==
  /\ Next
  /\ InOrder(pc', "ready") /\ InOrder(rpc', "new")
  /\ Quiet' \/ \E c \in Calls : pc'[c] = "ready"

MCSpec == Init /\ [][MCNext]_vars
===============================================================================
