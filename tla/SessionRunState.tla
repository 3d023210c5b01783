--------------------------- MODULE SessionRunState ---------------------------
(***************************************************************************)
(* packages/opencode/src/session/run-state.ts: which Runner serves a       *)
(* session, and the status the session shows (session/status.ts).          *)
(*                                                                         *)
(* `runners` maps a session to its Runner.  Sessions share nothing here,   *)
(* so one of them is modelled and the map is one cell.  A call looks the   *)
(* Runner up, or makes one, and only then calls it; the Runner made by     *)
(* call c is named c.  The hooks of a Runner are steps of this module:     *)
(* onIdle deletes whatever the map holds for the session and then sets the *)
(* status to idle, onBusy sets it to busy.                                 *)
(*                                                                         *)
(* A status is published before the map of statuses changes (status.ts     *)
(* 39-48), so the change is at the end of a hook.                          *)
(*                                                                         *)
(* Effect may preempt a fiber between any two effects.  With Preempt FALSE *)
(* a fiber keeps the processor until it waits, which makes the races that  *)
(* remain independent of where the runtime preempts.                       *)
(***************************************************************************)
EXTENDS Runner

CONSTANT Preempt

ASSUME SessionAssumption == Objs = Ops /\ Preempt \in BOOLEAN

VARIABLES
  runners,  \* the Runner registered for the session, or NoOp
  status,   \* what SessionStatus.get answers
  stage,    \* stage[c]: whether c has looked the Runner up
  handle    \* handle[c]: the Runner that c looked up

sessionVars == <<runners, status, stage, handle>>
allVars == <<vars, sessionVars>>

SessionInit ==
  /\ Init
  /\ runners = NoOp /\ status = "idle"
  /\ stage = [c \in Ops |-> "new"]
  /\ handle = [c \in Ops |-> NoOp]

(* Mutant of Lookup: a registered Runner is replaced. *)
LookupCreates(c) ==
  /\ stage[c] = "new"
  /\ runners' = c
  /\ handle' = [handle EXCEPT ![c] = c]
  /\ stage' = [stage EXCEPT ![c] = "work"]
  /\ UNCHANGED <<vars, status>>

(* runner(): get or create, without a lock. *)
Lookup(c) ==
  /\ stage[c] = "new"
  /\ runners' = IF runners = NoOp THEN c ELSE runners
  /\ handle' = [handle EXCEPT ![c] = runners']
  /\ stage' = [stage EXCEPT ![c] = "work"]
  /\ UNCHANGED <<vars, status>>

RunOrShell(c) ==
  /\ stage[c] = "work"
  /\ EnsureRunning(c, handle[c]) \/ StartShell(c, handle[c])
  /\ UNCHANGED sessionVars

(* cancel finds the Runner; without one it only resets the status. *)
LookupCancel(c) ==
  /\ stage[c] = "new"
  /\ handle' = [handle EXCEPT ![c] = runners]
  /\ stage' = [stage EXCEPT ![c] = IF runners = NoOp THEN "publish" ELSE "cancel"]
  /\ UNCHANGED <<vars, runners, status>>

CancelRunner(c) ==
  /\ stage[c] = "cancel"
  /\ Cancel(c, handle[c])
  /\ UNCHANGED sessionVars

ResetStatus(c) ==
  /\ stage[c] = "publish"
  /\ stage' = [stage EXCEPT ![c] = "reset"]
  /\ status' = "idle"
  /\ UNCHANGED <<vars, runners, handle>>

(* Mutant of OnIdleBegins: the Runner stays in the map. *)
OnIdleKeepsRunner(c) ==
  /\ BeginIdle(c)
  /\ UNCHANGED sessionVars

(* onIdle: runners.delete(sessionID), whichever Runner that is ... *)
OnIdleBegins(c) ==
  /\ BeginIdle(c)
  /\ runners' = NoOp
  /\ UNCHANGED <<status, stage, handle>>

(* ... then status.set(sessionID, idle). *)
OnIdleEnds(c) ==
  /\ EndIdle(c)
  /\ status' = "idle"
  /\ UNCHANGED <<runners, stage, handle>>

OnBusyEnds(c) ==
  /\ ForkShell(c)
  /\ status' = "busy"
  /\ UNCHANGED <<runners, stage, handle>>

(* The prompt loop, the work of a run, shows busy in every iteration. *)
LoopShowsBusy(f) ==
  /\ kind[f] = "run" /\ fpc[f] = "working" /\ ~signal[f]
  /\ status' = "busy"
  /\ UNCHANGED <<vars, runners, stage, handle>>

RunnerInternal(c) ==
  /\ CallStep(c) \/ FiberStep(c) \/ Work(c)
  /\ UNCHANGED sessionVars

(* A call that has its Runner, or a hook that is due, waits for nothing. *)
Ready(c) ==
  \/ stage[c] \in {"work", "cancel"} /\ pc[c] = "ready" /\ lock[handle[c]] = NoOp
  \/ pc[c] = "idle" \/ fpc[c] = "idle"

(* Without preemption a step is taken by a call that is ready, if there is *)
(* one: any of them, when a lock that several waited for is released.      *)
SessionStep(c) ==
  /\ Preempt \/ Ready(c) \/ \A d \in Ops : ~Ready(d)
  /\ \/ Lookup(c) \/ RunOrShell(c) \/ LookupCancel(c) \/ CancelRunner(c) \/ ResetStatus(c)
     \/ OnIdleBegins(c) \/ OnIdleEnds(c) \/ OnBusyEnds(c) \/ LoopShowsBusy(c)
     \/ RunnerInternal(c)

SessionNext == \E c \in Ops : SessionStep(c)

SessionSpec == SessionInit /\ [][SessionNext]_allVars
-------------------------------------------------------------------------------
(* Every variable has its type, those of Runner included. *)
SessionTypeOK ==
  /\ TypeOK
  /\ runners \in Ops \cup {NoOp}
  /\ status \in {"idle", "busy"}
  /\ stage \in [Ops -> {"new", "work", "cancel", "publish", "reset"}]
  /\ handle \in [Ops -> Ops \cup {NoOp}]

Settled(c) ==
  /\ stage[c] \in {"new", "reset"} \/ pc[c] = "returned"
  /\ fpc[c] \in {"none", "ended"}

(* When nothing goes on in the session, it looks idle: no Runner is left   *)
(* in the map and the status is not stuck at busy, in whatever order runs, *)
(* shells and cancels came to an end (run-state.ts 62-71, 84-93).          *)
NothingLeftBehind == (\A c \in Ops : Settled(c)) => runners = NoOp /\ status = "idle"

(* Work of the session that no cancel has detached. *)
Going(f) == Unfinished(f) /\ ~Detached(f)

(* assertNotBusy, which revert, delete and compact rely on, answers "busy" *)
(* as long as work of the session is going on.                             *)
AssertNotBusySound == (\E f \in Ops : Going(f)) => runners # NoOp /\ Busy(runners)

(* A Runner took up new work while a cancel of its earlier work was still  *)
(* to come back for the idle hook, or after.                               *)
Replaced ==
  \E k, f \in Ops : /\ kind[k] = "cancel" /\ held[k] # Idle
                    /\ obj[f] = obj[k] /\ fpc[f] # "none" /\ f \notin {held[k].run, held[k].shell}

(* Two pieces of work go on in the session at once. *)
Overlap == \E f, g \in Ops : f # g /\ Going(f) /\ Going(g)

(* One run or shell of the session at a time, and assertNotBusy sound,     *)
(* however lookups, calls, hooks and cancels interleave, unless a Runner   *)
(* was given new work behind the back of a cancel: then that cancel's      *)
(* onIdle may delete a Runner registered since (run-state.ts 64,           *)
(* runner.ts 67-68, 180).                                                  *)
SerialUnlessReplaced == (AssertNotBusySound /\ ~Overlap) \/ Replaced
===============================================================================
