------------------------------- MODULE WorkSlot -------------------------------
(***************************************************************************)
(* What a Runner promises its session, without fibers, locks or Deferreds: *)
(* a slot in which one piece of work is active, with room for one that is  *)
(* queued behind it.  Each piece of work goes through the slot at most     *)
(* once; cancelling empties the slot, and cancelled work never comes back. *)
(* Runner implements it (Runner!Slot), seen through its ref and the        *)
(* cancels that emptied it.                                                *)
(***************************************************************************)
CONSTANTS Ops, Objs, NoOp

VARIABLES phase,  \* phase[w]: how far work w has come
          slot    \* slot[w]: the slot w was submitted to

slotVars == <<phase, slot>>

Phases == {"new", "queued", "active", "finished", "cancelled"}

In(o, p) == {w \in Ops : phase[w] = p /\ slot[w] = o}

Init == phase = [w \in Ops |-> "new"] /\ slot = [w \in Ops |-> NoOp]

(* Work is submitted to an empty slot. *)
Start(w, o) ==
  /\ phase[w] = "new" /\ In(o, "active") = {}
  /\ phase' = [phase EXCEPT ![w] = "active"]
  /\ slot' = [slot EXCEPT ![w] = o]

(* Work is submitted behind active work. *)
Queue(w, o) ==
  /\ phase[w] = "new" /\ In(o, "active") # {} /\ In(o, "queued") = {}
  /\ phase' = [phase EXCEPT ![w] = "queued"]
  /\ slot' = [slot EXCEPT ![w] = o]

(* Active work ends and what is queued becomes active. *)
Finish(w) ==
  /\ phase[w] = "active"
  /\ phase' = [x \in Ops |-> IF x = w THEN "finished"
                             ELSE IF x \in In(slot[w], "queued") THEN "active" ELSE phase[x]]
  /\ UNCHANGED slot

(* Everything in the slot is cancelled. *)
CancelSlot(o) ==
  /\ phase' = [w \in Ops |-> IF w \in In(o, "active") \cup In(o, "queued")
                             THEN "cancelled" ELSE phase[w]]
  /\ UNCHANGED slot

Next ==
  \/ \E w \in Ops, o \in Objs : Start(w, o) \/ Queue(w, o)
  \/ \E w \in Ops : Finish(w)
  \/ \E o \in Objs : CancelSlot(o)

Spec == Init /\ [][Next]_slotVars
===============================================================================
