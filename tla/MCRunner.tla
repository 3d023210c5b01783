------------------------------- MODULE MCRunner -------------------------------
(* Runner for TLC.  The calls are interchangeable: either all of them are  *)
(* impatient or none is.                                                   *)
EXTENDS Runner, Naturals, TLC

Symmetry == Permutations(Ops)

(* Where liveness is checked symmetry is not sound: the calls, numbers     *)
(* there, come in the order of their names.  No call is forced to come, so *)
(* this leaves the fairness of Runner as it is.                            *)
InOrder == \A c, d \in Ops : c < d /\ pc[d] # "ready" => pc[c] # "ready"

(* Bound: how work ended matters to what its callers hear, and to nothing  *)
(* that comes after; one exit of its own and one by interruption will do.  *)
MCExits == {"success", "interrupted"}

MCNext ==
  \E c \in Ops :
    \/ Enter(c) /\ InOrder'
    \/ ForkShell(c) \/ CallStep(c) \/ Abandon(c) \/ FiberStep(c)
    \/ \E e \in MCExits : WorkExits(c, e)
    \/ BeginIdle(c) \/ EndIdle(c)

MCFairSpec == Init /\ [][MCNext]_vars /\ Fairness
===============================================================================
