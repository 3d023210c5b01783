-------------------------------- MODULE Runner --------------------------------
(***************************************************************************)
(* packages/opencode/src/effect/runner.ts: a Runner serialises the work of *)
(* one session.  Its state, held in a SynchronizedRef, is Idle, Running,   *)
(* Shell or ShellThenRun; callers use ensureRunning (start or join a run), *)
(* startShell (only when idle) and cancel.                                 *)
(*                                                                         *)
(* A call is a member of Ops.  The handles a call makes (a run, a shell, a *)
(* pending run, and the Deferred its callers await) carry the name of the  *)
(* call: next() hands out each id once, so comparing ids is comparing the  *)
(* calls that took them.  A pending run keeps its Deferred when it starts, *)
(* hence its name.                                                         *)
(*                                                                         *)
(* Every function passed to SynchronizedRef.modify runs under the ref's    *)
(* lock and is one step; the effect it returns runs after the lock is      *)
(* released (Effect.flatten), so it has steps, and pc values, of its own.  *)
(* Only startShell awaits something (onBusy) while it holds the lock.      *)
(*                                                                         *)
(* onIdle and onBusy are hooks of the owner.  Here they take time and      *)
(* change nothing; SessionRunState says what they do.                      *)
(***************************************************************************)
CONSTANTS
  Ops,        \* the calls of ensureRunning, startShell and cancel
  Objs,       \* the Runner objects
  Impatient,  \* the calls whose own fiber may be interrupted while they wait
  NoOp        \* stands for an absent handle

ASSUME RunnerAssumption == NoOp \notin Ops \cup Objs /\ Impatient \subseteq Ops

VARIABLES
  state,    \* state[o]: the handles in the ref of Runner o
  lock,     \* lock[o]: the startShell call that holds the ref's lock, or NoOp
  kind,     \* kind[c]: the operation c called, "none" before the call
  obj,      \* obj[c]: the Runner c was called on
  pc,       \* pc[c]: where the calling fiber is
  held,     \* held[c]: the handles captured by the effect c runs unlocked
  ret,      \* ret[c]: how the call ended
  fpc,      \* fpc[c]: where the fiber forked for the work of c is
  exit,     \* exit[c]: the Exit of that work
  signal,   \* signal[c]: that fiber has been interrupted
  done,     \* done[c]: the Deferred that callers of run c await
  latch,    \* latch[c]: the ready latch passed with shell c
  marked    \* marked[c]: the Deferred `cancelled` of shell c is done

callVars  == <<kind, obj, pc, held, ret>>
fiberVars == <<fpc, exit, signal>>
syncVars  == <<done, latch, marked>>
vars == <<state, lock, callVars, fiberVars, syncVars>>

Idle               == [run |-> NoOp, shell |-> NoOp]
Running(r)         == [run |-> r, shell |-> NoOp]
Shell(s)           == [run |-> NoOp, shell |-> s]
ShellThenRun(s, r) == [run |-> r, shell |-> s]

State == [run : Ops \cup {NoOp}, shell : Ops \cup {NoOp}]

(* The getter `busy`, read without the lock. *)
Busy(o) == state[o] # Idle

Init ==
  /\ state = [o \in Objs |-> Idle]
  /\ lock = [o \in Objs |-> NoOp]
  /\ kind = [c \in Ops |-> "none"]
  /\ obj = [c \in Ops |-> NoOp]
  /\ pc = [c \in Ops |-> "ready"]
  /\ held = [c \in Ops |-> Idle]
  /\ ret = [c \in Ops |-> "none"]
  /\ fpc = [c \in Ops |-> "none"]
  /\ exit = [c \in Ops |-> "none"]
  /\ signal = [c \in Ops |-> FALSE]
  /\ done = [c \in Ops |-> "none"]
  /\ latch = [c \in Ops |-> "absent"]
  /\ marked = [c \in Ops |-> FALSE]
-------------------------------------------------------------------------------
(* ensureRunning, startShell and cancel up to the point where they leave   *)
(* the lock.  `op` calls o and goes on at `next` with the handles `st`.    *)

Call(c, o, op, next, st) ==
  /\ pc[c] = "ready" /\ lock[o] = NoOp
  /\ kind' = [kind EXCEPT ![c] = op]
  /\ obj' = [obj EXCEPT ![c] = o]
  /\ pc' = [pc EXCEPT ![c] = next]
  /\ held' = [held EXCEPT ![c] = st]

(* The fiber for the work of c is forked; it starts when it is scheduled. *)
Fork(c) == fpc' = [fpc EXCEPT ![c] = "forked"]

MakeDone(c) == done' = [done EXCEPT ![c] = "pending"]

(* A caller that finds a run, active or queued, awaits its Deferred. *)
JoinRun(c, o) ==
  /\ state[o].run # NoOp
  /\ Call(c, o, "run", "awaitDone", Running(state[o].run))
  /\ UNCHANGED <<state, lock, ret, fiberVars, syncVars>>

(* A caller that finds a shell alone queues a run behind it. *)
QueueRun(c, o) ==
  /\ state[o].run = NoOp /\ state[o].shell # NoOp
  /\ Call(c, o, "run", "awaitDone", Running(c))
  /\ MakeDone(c)
  /\ state' = [state EXCEPT ![o] = ShellThenRun(state[o].shell, c)]
  /\ UNCHANGED <<lock, ret, fiberVars, latch, marked>>

(* A caller that finds the Runner idle starts the run. *)
StartRun(c, o) ==
  /\ state[o] = Idle
  /\ Call(c, o, "run", "awaitDone", Running(c))
  /\ MakeDone(c)
  /\ Fork(c)
  /\ state' = [state EXCEPT ![o] = Running(c)]
  /\ UNCHANGED <<lock, ret, exit, signal, latch, marked>>

EnsureRunning(c, o) == JoinRun(c, o) \/ QueueRun(c, o) \/ StartRun(c, o)

RejectShell(c, o) ==
  /\ state[o] # Idle
  /\ Call(c, o, "shell", "returned", Idle)
  /\ ret' = [ret EXCEPT ![c] = "busy"]
  /\ UNCHANGED <<state, lock, fiberVars, syncVars>>

(* startShell runs onBusy with the lock held: the state is still Idle. *)
EnterShell(c, o) ==
  /\ state[o] = Idle
  /\ Call(c, o, "shell", "onBusy", Idle)
  /\ lock' = [lock EXCEPT ![o] = c]
  /\ \E l \in {"absent", "closed"} : latch' = [latch EXCEPT ![c] = l]
  /\ UNCHANGED <<state, ret, fiberVars, done, marked>>

StartShell(c, o) == RejectShell(c, o) \/ EnterShell(c, o)

(* onBusy is over: the shell is forked as a child of the caller. *)
ForkShell(c) ==
  /\ pc[c] = "onBusy"
  /\ pc' = [pc EXCEPT ![c] = "awaitShell"]
  /\ Fork(c)
  /\ state' = [state EXCEPT ![obj[c]] = Shell(c)]
  /\ lock' = [lock EXCEPT ![obj[c]] = NoOp]
  /\ UNCHANGED <<kind, obj, held, ret, exit, signal, syncVars>>

(* Mutant of Cancel: a shell keeps the ref until it has been stopped. *)
CancelKeepsShell(c, o) ==
  /\ Call(c, o, "cancel",
          IF state[o] = Idle THEN "returned"
          ELSE IF state[o].shell # NoOp THEN "awaitReady" ELSE "interrupt", state[o])
  /\ ret' = [ret EXCEPT ![c] = IF state[o] = Idle THEN "ok" ELSE "none"]
  /\ state' = IF state[o].shell = NoOp THEN [state EXCEPT ![o] = Idle] ELSE state
  /\ UNCHANGED <<lock, fiberVars, syncVars>>

(* cancel puts the Runner back to Idle first; what it found is stopped     *)
(* afterwards, without the lock.                                           *)
Cancel(c, o) ==
  /\ Call(c, o, "cancel",
          IF state[o] = Idle THEN "returned"
          ELSE IF state[o].shell # NoOp THEN "awaitReady" ELSE "interrupt", state[o])
  /\ ret' = [ret EXCEPT ![c] = IF state[o] = Idle THEN "ok" ELSE "none"]
  /\ state' = [state EXCEPT ![o] = Idle]
  /\ UNCHANGED <<lock, fiberVars, syncVars>>
-------------------------------------------------------------------------------
(* The unlocked part of the calls. *)

Goto(c, from, to) == pc[c] = from /\ pc' = [pc EXCEPT ![c] = to]

Return(c, from, value) ==
  /\ Goto(c, from, "returned")
  /\ ret' = [ret EXCEPT ![c] = value]

(* awaitDone: RunnerCancelled is turned into the owner's onInterrupt. *)
AwaitDone(c) ==
  /\ pc[c] = "awaitDone" /\ done[held[c].run] # "pending"
  /\ Return(c, "awaitDone",
            IF done[held[c].run] = "cancelled" THEN "interrupted" ELSE done[held[c].run])
  /\ UNCHANGED <<state, lock, kind, obj, held, fiberVars, syncVars>>

ShellInterrupted(c) == exit[c] = "interrupted" \/ (marked[c] /\ exit[c] = "mixed")

AwaitShell(c) ==
  /\ fpc[c] = "ended"
  /\ Return(c, "awaitShell",
            IF exit[c] = "success" THEN "success"
            ELSE IF ShellInterrupted(c) THEN "interrupted" ELSE "failure")
  /\ UNCHANGED <<state, lock, kind, obj, held, fiberVars, syncVars>>

(* Mutant of AwaitReady: a shell without a latch is waited for. *)
AwaitReadyAlways(c) ==
  /\ pc[c] = "awaitReady" /\ latch[held[c].shell] = "open"
  /\ Goto(c, "awaitReady", "interrupt")
  /\ marked' = [marked EXCEPT ![held[c].shell] = TRUE]
  /\ UNCHANGED <<state, lock, kind, obj, held, ret, fiberVars, done, latch>>

(* stopShell: wait for the latch, if there is one, then mark the shell. *)
AwaitReady(c) ==
  /\ pc[c] = "awaitReady" /\ latch[held[c].shell] # "closed"
  /\ Goto(c, "awaitReady", "interrupt")
  /\ marked' = [marked EXCEPT ![held[c].shell] = TRUE]
  /\ UNCHANGED <<state, lock, kind, obj, held, ret, fiberVars, done, latch>>

(* The fiber that a cancel stops. *)
Target(c) == IF held[c].shell # NoOp THEN held[c].shell ELSE held[c].run

(* A fiber interrupted before it was scheduled ends at once, without its   *)
(* finalizers (finishRun, finishShell); later it sees the interruption     *)
(* wherever its work is interruptible.                                     *)
InterruptFiber(f) ==
  /\ signal' = [signal EXCEPT ![f] = TRUE]
  /\ fpc' = IF fpc[f] = "forked" THEN [fpc EXCEPT ![f] = "ended"] ELSE fpc
  /\ exit' = IF fpc[f] = "forked" THEN [exit EXCEPT ![f] = "interrupted"] ELSE exit

CancelInterrupts(c) ==
  /\ Goto(c, "interrupt", "awaitExit")
  /\ InterruptFiber(Target(c))
  /\ UNCHANGED <<state, lock, kind, obj, held, ret, syncVars>>

(* Mutant of CancelAwaitsExit: the run's finalizer is trusted to answer. *)
CancelTrustsFinalizer(c) ==
  /\ pc[c] = "awaitExit" /\ fpc[Target(c)] = "ended"
  /\ Goto(c, "awaitExit", "idleIfCurrent")
  /\ UNCHANGED <<state, lock, kind, obj, held, ret, fiberVars, syncVars>>

(* Fiber.interrupt returns when the fiber has ended. *)
CancelAwaitsExit(c) ==
  /\ pc[c] = "awaitExit" /\ fpc[Target(c)] = "ended"
  /\ Goto(c, "awaitExit", IF held[c].run # NoOp THEN "failDone" ELSE "idleIfCurrent")
  /\ UNCHANGED <<state, lock, kind, obj, held, ret, fiberVars, syncVars>>

(* Completing a Deferred that is already done has no effect. *)
Complete(d, value) ==
  done' = [done EXCEPT ![d] = IF done[d] = "pending" THEN value ELSE done[d]]

CancelFailsDone(c) ==
  /\ Goto(c, "failDone", "idleIfCurrent")
  /\ Complete(held[c].run, "cancelled")
  /\ UNCHANGED <<state, lock, kind, obj, held, ret, fiberVars, latch, marked>>

IdleIfCurrent(c) ==
  /\ pc[c] = "idleIfCurrent" /\ lock[obj[c]] = NoOp
  /\ \/ /\ state[obj[c]] = Idle
        /\ Goto(c, "idleIfCurrent", "idle")
        /\ UNCHANGED ret
     \/ /\ state[obj[c]] # Idle
        /\ Return(c, "idleIfCurrent", "ok")
  /\ UNCHANGED <<state, lock, kind, obj, held, fiberVars, syncVars>>

(* onIdle, run by a cancel; the hook begins and ends. *)
CancelBeginsIdle(c) ==
  /\ Goto(c, "idle", "onIdle")
  /\ UNCHANGED <<state, lock, kind, obj, held, ret, fiberVars, syncVars>>

CancelEndsIdle(c) ==
  /\ Return(c, "onIdle", "ok")
  /\ UNCHANGED <<state, lock, kind, obj, held, fiberVars, syncVars>>

(* The fiber of a waiting call is interrupted: a startShell in onBusy      *)
(* releases the lock, one that awaits its shell takes the child with it,   *)
(* a cancel stops where it is.                                             *)
Abandon(c) ==
  /\ c \in Impatient /\ pc[c] \notin {"ready", "returned"}
  /\ Return(c, pc[c], "abandoned")
  /\ lock' = IF pc[c] = "onBusy" THEN [lock EXCEPT ![obj[c]] = NoOp] ELSE lock
  /\ IF pc[c] = "awaitShell" THEN InterruptFiber(c) ELSE UNCHANGED fiberVars
  /\ UNCHANGED <<state, kind, obj, held, syncVars>>
-------------------------------------------------------------------------------
(* The forked fibers: the work, then finishRun or finishShell, which run   *)
(* as finalizers and cannot be interrupted.                                *)

FiberGoto(f, from, to) == fpc[f] = from /\ fpc' = [fpc EXCEPT ![f] = to]

FiberStarts(f) ==
  /\ FiberGoto(f, "forked", "working")
  /\ UNCHANGED <<state, lock, callVars, exit, signal, syncVars>>

(* A shell opens its latch once it has recorded its messages. *)
ShellReady(f) ==
  /\ fpc[f] = "working" /\ latch[f] = "closed"
  /\ latch' = [latch EXCEPT ![f] = "open"]
  /\ UNCHANGED <<state, lock, callVars, fiberVars, done, marked>>

(* The work ends; it is interrupted, alone or with other errors, only      *)
(* after a signal, and a signal does not prevent another exit.             *)
WorkExits(f, e) ==
  /\ e \in {"interrupted", "mixed"} => signal[f]
  /\ latch[f] # "closed"
  /\ FiberGoto(f, "working", "exited")
  /\ exit' = [exit EXCEPT ![f] = e]
  /\ UNCHANGED <<state, lock, callVars, signal, syncVars>>

(* Mutant of FinishRun: the ref is not reset. *)
FinishRunKeepsState(f) ==
  /\ kind[f] = "run" /\ lock[obj[f]] = NoOp
  /\ FiberGoto(f, "exited", IF state[obj[f]] = Running(f) THEN "idle" ELSE "complete")
  /\ UNCHANGED <<state, lock, callVars, exit, signal, syncVars>>

(* Mutant of FinishRun: any run that ends resets the ref, whatever its id. *)
FinishRunAnyId(f) ==
  /\ kind[f] = "run" /\ lock[obj[f]] = NoOp
  /\ \/ /\ state[obj[f]].run # NoOp /\ state[obj[f]].shell = NoOp
        /\ state' = [state EXCEPT ![obj[f]] = Idle]
        /\ FiberGoto(f, "exited", "idle")
     \/ /\ state[obj[f]].run = NoOp \/ state[obj[f]].shell # NoOp
        /\ FiberGoto(f, "exited", "complete")
        /\ UNCHANGED state
  /\ UNCHANGED <<lock, callVars, exit, signal, syncVars>>

(* finishRun: idle only if this run is still the current one. *)
FinishRun(f) ==
  /\ kind[f] = "run" /\ lock[obj[f]] = NoOp
  /\ \/ /\ state[obj[f]] = Running(f)
        /\ state' = [state EXCEPT ![obj[f]] = Idle]
        /\ FiberGoto(f, "exited", "idle")
     \/ /\ state[obj[f]] # Running(f)
        /\ FiberGoto(f, "exited", "complete")
        /\ UNCHANGED state
  /\ UNCHANGED <<lock, callVars, exit, signal, syncVars>>

(* Mutant of FinishShell: the run queued behind the shell is dropped. *)
FinishShellDropsQueue(f) ==
  /\ kind[f] = "shell" /\ lock[obj[f]] = NoOp /\ fpc[f] = "exited"
  /\ \/ /\ state[obj[f]].shell = f
        /\ state' = [state EXCEPT ![obj[f]] = Idle]
        /\ fpc' = [fpc EXCEPT ![f] = "idle"]
     \/ /\ state[obj[f]].shell # f
        /\ fpc' = [fpc EXCEPT ![f] = "ended"]
        /\ UNCHANGED state
  /\ UNCHANGED <<lock, callVars, exit, signal, syncVars>>

(* finishShell: a queued run is started in the same locked step. *)
FinishShell(f) ==
  /\ kind[f] = "shell" /\ lock[obj[f]] = NoOp /\ fpc[f] = "exited"
  /\ LET st == state[obj[f]] IN
     \/ /\ st = Shell(f)
        /\ state' = [state EXCEPT ![obj[f]] = Idle]
        /\ fpc' = [fpc EXCEPT ![f] = "idle"]
     \/ /\ st.shell = f /\ st.run # NoOp
        /\ state' = [state EXCEPT ![obj[f]] = Running(st.run)]
        /\ fpc' = [fpc EXCEPT ![f] = "ended", ![st.run] = "forked"]
     \/ /\ st.shell # f
        /\ fpc' = [fpc EXCEPT ![f] = "ended"]
        /\ UNCHANGED state
  /\ UNCHANGED <<lock, callVars, exit, signal, syncVars>>

FiberBeginsIdle(f) ==
  /\ FiberGoto(f, "idle", "onIdle")
  /\ UNCHANGED <<state, lock, callVars, exit, signal, syncVars>>

FiberEndsIdle(f) ==
  /\ FiberGoto(f, "onIdle", IF kind[f] = "run" THEN "complete" ELSE "ended")
  /\ UNCHANGED <<state, lock, callVars, exit, signal, syncVars>>

(* Mutants of Outcome: the Exit as it is; every failure a cancellation. *)
OutcomeAsIs(e) == e

OutcomeCancelled(e) == IF e = "success" THEN "success" ELSE "cancelled"

(* complete: an interruption alone becomes RunnerCancelled. *)
Outcome(e) ==
  CASE e = "success" -> "success"
    [] e = "interrupted" -> "cancelled"
    [] OTHER -> "failure"

CompleteRun(f) ==
  /\ FiberGoto(f, "complete", "ended")
  /\ Complete(f, Outcome(exit[f]))
  /\ UNCHANGED <<state, lock, callVars, exit, signal, latch, marked>>
-------------------------------------------------------------------------------
Exits == {"success", "failure", "interrupted", "mixed"}

(* A call continues after the lock; hooks are told apart for the owner.    *)
CallStep(c) ==
  \/ AwaitDone(c) \/ AwaitShell(c) \/ AwaitReady(c) \/ CancelInterrupts(c)
  \/ CancelAwaitsExit(c) \/ CancelFailsDone(c) \/ IdleIfCurrent(c)

FiberStep(f) == FiberStarts(f) \/ ShellReady(f) \/ FinishRun(f) \/ FinishShell(f) \/ CompleteRun(f)

BeginIdle(c) == CancelBeginsIdle(c) \/ FiberBeginsIdle(c)

EndIdle(c) == CancelEndsIdle(c) \/ FiberEndsIdle(c)

Work(f) == \E e \in Exits : WorkExits(f, e)

Enter(c) == \E o \in Objs : EnsureRunning(c, o) \/ StartShell(c, o) \/ Cancel(c, o)

Next ==
  \E c \in Ops :
    \/ Enter(c) \/ ForkShell(c) \/ CallStep(c) \/ Abandon(c)
    \/ FiberStep(c) \/ Work(c) \/ BeginIdle(c) \/ EndIdle(c)

Spec == Init /\ [][Next]_vars

(* The runtime schedules every fiber that can take a step, hooks end, and  *)
(* interrupted work unwinds.  Nobody has to call, and work that nobody     *)
(* interrupts may go on for ever.                                          *)
Unwind(f) == signal[f] /\ Work(f)

Fairness == \A c \in Ops : WF_vars(ForkShell(c) \/ CallStep(c) \/ CancelBeginsIdle(c) \/ CancelEndsIdle(c))
                        /\ WF_vars(FiberStep(c) \/ FiberBeginsIdle(c) \/ FiberEndsIdle(c) \/ Unwind(c))

FairSpec == Spec /\ Fairness
(* Properties. *)

CallPCs ==
  {"ready", "awaitDone", "onBusy", "awaitShell", "awaitReady", "interrupt",
   "awaitExit", "failDone", "idleIfCurrent", "idle", "onIdle", "returned"}

FiberPCs == {"none", "forked", "working", "exited", "idle", "onIdle", "complete", "ended"}

(* Every variable has its type, and a call that awaits a run holds it. *)
TypeOK ==
  /\ state \in [Objs -> State]
  /\ lock \in [Objs -> Ops \cup {NoOp}]
  /\ kind \in [Ops -> {"none", "run", "shell", "cancel"}]
  /\ obj \in [Ops -> Objs \cup {NoOp}]
  /\ pc \in [Ops -> CallPCs]
  /\ held \in [Ops -> State]
  /\ ret \in [Ops -> {"none", "success", "failure", "interrupted", "busy", "ok", "abandoned"}]
  /\ fpc \in [Ops -> FiberPCs]
  /\ exit \in [Ops -> Exits \cup {"none"}]
  /\ signal \in [Ops -> BOOLEAN]
  /\ done \in [Ops -> {"none", "pending", "success", "failure", "cancelled"}]
  /\ latch \in [Ops -> {"absent", "closed", "open"}]
  /\ marked \in [Ops -> BOOLEAN]
  /\ \A c \in Ops : pc[c] = "awaitDone" => held[c].run \in Ops

(* A fiber that has not yet been through finishRun or finishShell. *)
Unfinished(f) == fpc[f] \in {"forked", "working", "exited"}

(* A cancel has taken handle f out of the state. *)
Detached(f) == \E k \in Ops : kind[k] = "cancel" /\ f \in {held[k].run, held[k].shell}

(* The Runner of f regards f as the work that is going on. *)
Current(f) == state[obj[f]].shell = f \/ state[obj[f]] = Running(f)

(* The caller of shell f was interrupted, and with it f. *)
Orphaned(f) == kind[f] = "shell" /\ ret[f] = "abandoned"

(* What the ref refers to is alive: the state never names a run or a shell *)
(* that has already finished, and never a queued run that already started. *)
(* (runner.ts 70-106, 140-169.)  The one exception is a shell that died    *)
(* with its caller before it was scheduled: nothing resets the state.      *)
HandlesAlive ==
  \A o \in Objs :
    /\ state[o].shell # NoOp =>
         Unfinished(state[o].shell) \/ (Orphaned(state[o].shell) /\ fpc[state[o].shell] = "ended")
    /\ state[o].run # NoOp /\ state[o].shell = NoOp => Unfinished(state[o].run)
    /\ state[o].run # NoOp /\ state[o].shell # NoOp => fpc[state[o].run] = "none"

(* Work of one Runner never overlaps, whether runs or shells, except with  *)
(* work a cancel has detached and that is still unwinding (the test        *)
(* "cancel does not deadlock when replacement work starts before           *)
(* interrupted run exits").                                                *)
Exclusive ==
  \A f, g \in Ops :
    f # g /\ obj[f] = obj[g] /\ Unfinished(f) /\ Unfinished(g) => Detached(f) \/ Detached(g)

(* A queued run that a cancel found behind a shell never starts, although  *)
(* the shell's finalizer is still to come ("cancel during shell_then_run   *)
(* cancels both").                                                         *)
CancelledQueueNeverStarts ==
  \A k \in Ops :
    kind[k] = "cancel" /\ held[k].shell # NoOp /\ held[k].run # NoOp => fpc[held[k].run] = "none"

(* A caller that awaits a run is never left alone with a Deferred nobody   *)
(* will complete: the run's fiber is on its way, or it is queued behind a  *)
(* shell that is still to finish, or a cancel is about to fail it.  Only a *)
(* call that was itself interrupted (the cancel, or the shell's caller)    *)
(* can break the chain.                                                    *)
NoStrandedCaller ==
  \A c \in Ops : pc[c] = "awaitDone" /\ done[held[c].run] = "pending" =>
    LET r == held[c].run  st == state[obj[held[c].run]] IN
    \/ fpc[r] \notin {"none", "ended"}
    \/ st.run = r /\ st.shell # NoOp /\ (Unfinished(st.shell) \/ Orphaned(st.shell))
    \/ \E k \in Ops : /\ kind[k] = "cancel" /\ held[k].run = r
                      /\ \/ pc[k] \in {"awaitReady", "interrupt", "awaitExit", "failDone"}
                         \/ ret[k] = "abandoned"

(* Callers hear the truth about the shared work: success and failure are   *)
(* the exit of the one fiber that ran it, and "interrupted" is heard only  *)
(* if a cancel detached that run or shell.                                 *)
OutcomesTrue ==
  \A c \in Ops : pc[c] = "returned" =>
    LET r == IF kind[c] = "run" THEN held[c].run ELSE c IN
    /\ ret[c] = "success" => exit[r] = "success"
    /\ ret[c] = "failure" => exit[r] \in {"failure", "mixed"}
    /\ ret[c] = "interrupted" => Detached(r)

(* The slot a Runner implements: what the ref holds is active or queued,   *)
(* what a cancel took out of it is cancelled, and other forked work is     *)
(* finished.                                                               *)
Phase(c) ==
  IF Detached(c) THEN "cancelled"
  ELSE IF obj[c] = NoOp THEN "new"
  ELSE IF Current(c) THEN "active"
  ELSE IF state[obj[c]].run = c THEN "queued"
  ELSE IF fpc[c] # "none" THEN "finished" ELSE "new"

(* A call's work is submitted where it first appears in the ref. *)
Submitted(c) == Phase(c) # "new"

Slot == INSTANCE WorkSlot WITH
          phase <- [c \in Ops |-> Phase(c)],
          slot <- [c \in Ops |-> IF Submitted(c) THEN obj[c] ELSE NoOp]

(* Every step of a Runner is a step of the slot or leaves it alone. *)
ImplementsSlot == Slot!Spec

(* A cancel waits for the latch of a shell that died before it could open  *)
(* it: the shell's caller was interrupted before the shell was scheduled.  *)
Hangs(k) ==
  /\ kind[k] = "cancel" /\ pc[k] = "awaitReady"
  /\ Orphaned(held[k].shell)
  /\ fpc[held[k].shell] = "ended" /\ latch[held[k].shell] = "closed"

(* In the end every cancel has returned, however many runs, shells and     *)
(* cancels it met, but for one case: the caller of a shell with a latch    *)
(* was interrupted before the shell was scheduled, and the cancel that     *)
(* found that shell in the ref waits for ever at runner.ts 110 (Hangs).    *)
CancelReturns == \A k \in Ops : <>[](kind[k] = "cancel" => pc[k] = "returned" \/ Hangs(k))

(* The cancel that took run r was itself interrupted, or hangs. *)
LetDown(r) ==
  \E k \in Ops : kind[k] = "cancel" /\ held[k].run = r /\ (ret[k] = "abandoned" \/ Hangs(k))

(* "cancel with queued callers resolves all": whoever awaits a run that a  *)
(* cancel detached gets an answer in the end, unless that cancel is        *)
(* interrupted before it comes to it, or hangs.                            *)
CancelResolvesCallers ==
  \A c \in Ops : <>[](pc[c] = "awaitDone" /\ Detached(held[c].run) => LetDown(held[c].run))

(* "ensureRunning queues behind shell then runs after": in the end a run   *)
(* that has not started, and whose callers have not been told so, waits    *)
(* for a shell that is at work.  Or for a shell that died with its caller  *)
(* before it was scheduled, or for a cancel that was interrupted or hangs. *)
QueuedRunServed ==
  \A r \in Ops :
    <>[](fpc[r] = "none" /\ done[r] = "pending"
         => \/ \E o \in Objs : LET s == state[o].shell IN
                 /\ state[o].run = r /\ s # NoOp
                 /\ fpc[s] = "working" \/ (Orphaned(s) /\ fpc[s] = "ended")
            \/ LetDown(r))
===============================================================================
