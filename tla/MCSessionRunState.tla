-------------------------- MODULE MCSessionRunState --------------------------
(* SessionRunState for TLC: the calls are interchangeable. *)
EXTENDS SessionRunState, TLC

Symmetry == Permutations(Ops)

(* Bound: how work ended matters to what its callers hear, and not to the  *)
(* map or the status; one exit of its own and one by interruption will do. *)
MCExits == {"none", "success", "interrupted"}

MCSpec == SessionInit /\ [][SessionNext /\ exit' \in [Ops -> MCExits]]_allVars
===============================================================================
