----------------------------- MODULE RunnerProofs -----------------------------
(* Theorems about Runner, for any set of calls, of Runners and of calls    *)
(* that may be interrupted.                                                *)
EXTENDS Runner, TLAPS

(* Every reachable state is well typed: each step of a call or of a fiber  *)
(* assigns values of the declared sets (runner.ts 33-205).                 *)
LEMMA TypeInit == Init => TypeOK
  BY RunnerAssumption DEF Init, TypeOK, State, Idle, CallPCs, FiberPCs

(* Each step of a call or of a fiber preserves the types.                  *)
LEMMA TypeNext == TypeOK /\ [Next]_vars => TypeOK'
<1> USE RunnerAssumption
<1> SUFFICES ASSUME TypeOK, [Next]_vars PROVE TypeOK'
  OBVIOUS
<1> USE DEF TypeOK, State, Idle, Running, Shell, ShellThenRun, CallPCs, FiberPCs, Exits,
            callVars, fiberVars, syncVars
<1>1. ASSUME NEW c \in Ops, NEW o \in Objs, EnsureRunning(c, o) PROVE TypeOK'
  <2>1. CASE JoinRun(c, o)
    BY <2>1 DEF JoinRun, Call
  <2>2. CASE QueueRun(c, o)
    BY <2>2 DEF QueueRun, Call, MakeDone
  <2>3. CASE StartRun(c, o)
    BY <2>3 DEF StartRun, Call, Fork, MakeDone
  <2> QED
    BY <1>1, <2>1, <2>2, <2>3 DEF EnsureRunning
<1>2. ASSUME NEW c \in Ops, NEW o \in Objs, StartShell(c, o) PROVE TypeOK'
  <2>1. CASE RejectShell(c, o)
    BY <2>1 DEF RejectShell, Call
  <2>2. CASE EnterShell(c, o)
    BY <2>2 DEF EnterShell, Call
  <2> QED
    BY <1>2, <2>1, <2>2 DEF StartShell
<1>3. ASSUME NEW c \in Ops, NEW o \in Objs, Cancel(c, o) PROVE TypeOK'
  BY <1>3 DEF Cancel, Call
<1>4. ASSUME NEW c \in Ops, ForkShell(c) PROVE TypeOK'
  BY <1>4 DEF ForkShell, Fork
<1>5. ASSUME NEW c \in Ops, CallStep(c) PROVE TypeOK'
  <2>1. CASE AwaitDone(c)
    BY <2>1 DEF AwaitDone, Return, Goto
  <2>2. CASE AwaitShell(c)
    BY <2>2 DEF AwaitShell, Return, Goto
  <2>3. CASE AwaitReady(c)
    BY <2>3 DEF AwaitReady, Goto
  <2>4. CASE CancelInterrupts(c)
    BY <2>4 DEF CancelInterrupts, Goto, InterruptFiber
  <2>5. CASE CancelAwaitsExit(c)
    BY <2>5 DEF CancelAwaitsExit, Goto
  <2>6. CASE CancelFailsDone(c)
    BY <2>6 DEF CancelFailsDone, Goto, Complete
  <2>7. CASE IdleIfCurrent(c)
    <3>1. CASE Goto(c, "idleIfCurrent", "idle") /\ UNCHANGED ret
      BY <2>7, <3>1 DEF IdleIfCurrent, Goto
    <3>2. CASE Return(c, "idleIfCurrent", "ok")
      BY <2>7, <3>2 DEF IdleIfCurrent, Return, Goto
    <3> QED
      BY <2>7, <3>1, <3>2 DEF IdleIfCurrent
  <2> QED
    BY <1>5, <2>1, <2>2, <2>3, <2>4, <2>5, <2>6, <2>7 DEF CallStep
<1>6. ASSUME NEW c \in Ops, Abandon(c) PROVE TypeOK'
  <2>1. lock' \in [Objs -> Ops \cup {NoOp}]
    BY <1>6 DEF Abandon
  <2>2. fpc' \in [Ops -> FiberPCs] /\ exit' \in [Ops -> Exits \cup {"none"}] /\ signal' \in [Ops -> BOOLEAN]
    <3>1. CASE InterruptFiber(c)
      BY <3>1 DEF InterruptFiber
    <3> QED
      BY <1>6, <3>1 DEF Abandon
  <2>3. pc' = [pc EXCEPT ![c] = "returned"] /\ ret' = [ret EXCEPT ![c] = "abandoned"]
    BY <1>6 DEF Abandon, Return, Goto
  <2> QED
    BY <1>6, <2>1, <2>2, <2>3 DEF Abandon
<1>7. ASSUME NEW c \in Ops, FiberStep(c) PROVE TypeOK'
  <2>1. CASE FiberStarts(c)
    BY <2>1 DEF FiberStarts, FiberGoto
  <2>2. CASE ShellReady(c)
    BY <2>2 DEF ShellReady
  <2>3. CASE FinishRun(c)
    <3>1. state' \in [Objs -> State] /\ UNCHANGED <<lock, callVars, exit, signal, syncVars>>
      BY <2>3 DEF FinishRun
    <3>2. fpc' \in [Ops -> FiberPCs]
      BY <2>3 DEF FinishRun, FiberGoto
    <3> QED
      BY <3>1, <3>2
  <2>4. CASE FinishShell(c)
    <3>1. state' \in [Objs -> State] /\ UNCHANGED <<lock, callVars, exit, signal, syncVars>>
      BY <2>4 DEF FinishShell
    <3>2. fpc' \in [Ops -> FiberPCs]
      <4>1. CASE fpc' = [fpc EXCEPT ![c] = "ended", ![state[obj[c]].run] = "forked"]
        BY <4>1
      <4> QED
        BY <2>4, <4>1 DEF FinishShell
    <3> QED
      BY <3>1, <3>2
  <2>5. CASE CompleteRun(c)
    BY <2>5 DEF CompleteRun, FiberGoto, Complete, Outcome
  <2> QED
    BY <1>7, <2>1, <2>2, <2>3, <2>4, <2>5 DEF FiberStep
<1>8. ASSUME NEW c \in Ops, Work(c) PROVE TypeOK'
  BY <1>8 DEF Work, WorkExits, FiberGoto
<1>9. ASSUME NEW c \in Ops, BeginIdle(c) PROVE TypeOK'
  <2>1. CASE CancelBeginsIdle(c)
    BY <2>1 DEF CancelBeginsIdle, Goto
  <2>2. CASE FiberBeginsIdle(c)
    BY <2>2 DEF FiberBeginsIdle, FiberGoto
  <2> QED
    BY <1>9, <2>1, <2>2 DEF BeginIdle
<1>10. ASSUME NEW c \in Ops, EndIdle(c) PROVE TypeOK'
  <2>1. CASE CancelEndsIdle(c)
    BY <2>1 DEF CancelEndsIdle, Return, Goto
  <2>2. CASE FiberEndsIdle(c)
    BY <2>2 DEF FiberEndsIdle, FiberGoto
  <2> QED
    BY <1>10, <2>1, <2>2 DEF EndIdle
<1>11. CASE UNCHANGED vars
  BY <1>11 DEF vars
<1> QED
  BY <1>1, <1>2, <1>3, <1>4, <1>5, <1>6, <1>7, <1>8, <1>9, <1>10, <1>11 DEF Next, Enter

(* Type correctness holds in every reachable state. *)
THEOREM TypeCorrect == Spec => []TypeOK
  BY TypeInit, TypeNext, PTL DEF Spec
-------------------------------------------------------------------------------
(* The inductive invariant.  Exclusive alone is not inductive: it follows  *)
(* from the fact that the ref and the cancels between them account for     *)
(* every fiber that has not finished (FibersTracked), which in turn needs  *)
(* that a handle is never both in the ref and detached (HandlesNamed), and *)
(* that the lock keeps the ref Idle while a startShell runs onBusy.        *)

CancelPCs == {"awaitReady", "interrupt", "awaitExit", "failDone", "idleIfCurrent", "idle"}

CallsConsistent ==
  \A c \in Ops :
    /\ pc[c] = "ready" <=> kind[c] = "none"
    /\ kind[c] # "none" => obj[c] \in Objs
    /\ pc[c] = "onBusy" => kind[c] = "shell" /\ lock[obj[c]] = c /\ state[obj[c]] = Idle
    /\ pc[c] = "awaitShell" => kind[c] = "shell"
    /\ pc[c] \in CancelPCs => kind[c] = "cancel"
    /\ pc[c] \in {"awaitReady", "interrupt", "awaitExit"} => held[c] # Idle
    /\ ret[c] # "none" => pc[c] = "returned"
    /\ fpc[c] # "none" => kind[c] \in {"run", "shell"} /\ pc[c] # "onBusy"

HandlesNamed ==
  \A o \in Objs :
    /\ state[o].shell # NoOp =>
         /\ kind[state[o].shell] = "shell" /\ obj[state[o].shell] = o
         /\ pc[state[o].shell] # "onBusy" /\ ~Detached(state[o].shell)
    /\ state[o].run # NoOp =>
         kind[state[o].run] = "run" /\ obj[state[o].run] = o /\ ~Detached(state[o].run)

HeldNamed ==
  \A k \in Ops : kind[k] = "cancel" =>
    /\ held[k].run # NoOp => kind[held[k].run] = "run"
    /\ held[k].shell # NoOp => kind[held[k].shell] = "shell" /\ pc[held[k].shell] # "onBusy"

FibersTracked == \A f \in Ops : Unfinished(f) => Current(f) \/ Detached(f)

Inv ==
  /\ CallsConsistent /\ HandlesNamed /\ HeldNamed
  /\ HandlesAlive /\ FibersTracked /\ CancelledQueueNeverStarts

(* Inv holds before the first call.                                        *)
LEMMA InvInit == Init => Inv
<1> SUFFICES ASSUME Init PROVE Inv
  OBVIOUS
<1> USE RunnerAssumption DEF Init, Idle
<1>1. CallsConsistent
  BY DEF CallsConsistent, CancelPCs
<1>2. HandlesNamed /\ HandlesAlive
  BY DEF HandlesNamed, HandlesAlive
<1>3. HeldNamed /\ FibersTracked /\ CancelledQueueNeverStarts
  BY DEF HeldNamed, FibersTracked, Unfinished, CancelledQueueNeverStarts
<1> QED
  BY <1>1, <1>2, <1>3 DEF Inv

(* A step that leaves the ref, the calls' operations and their handles     *)
(* alone preserves what Inv says of them if a fiber that it finishes is    *)
(* detached or has died with its caller.                                   *)
LEMMA QuietStep ==
  ASSUME TypeOK, Inv, UNCHANGED <<state, kind, obj, held>>,
         \A f \in Ops : fpc'[f] = "none" <=> fpc[f] = "none",
         \A f \in Ops : Unfinished(f)' => Unfinished(f),
         \A f \in Ops : Unfinished(f) /\ ~Unfinished(f)' =>
                          Detached(f) \/ (fpc'[f] = "ended" /\ Orphaned(f)'),
         \A f \in Ops : fpc[f] = "ended" => fpc'[f] = "ended",
         \A c \in Ops : pc'[c] = "onBusy" => pc[c] = "onBusy",
         \A c \in Ops : ret[c] = "abandoned" => ret'[c] = "abandoned"
  PROVE  HandlesNamed' /\ HeldNamed' /\ HandlesAlive' /\ FibersTracked' /\ CancelledQueueNeverStarts'
<1> USE RunnerAssumption DEF TypeOK, State, Inv
<1>1. \A f \in Ops : Detached(f)' <=> Detached(f)
  BY DEF Detached
<1>2. \A f \in Ops : Current(f)' <=> Current(f)
  BY DEF Current, Running
<1>3. HandlesNamed'
  BY <1>1 DEF HandlesNamed
<1>4. HeldNamed' /\ CancelledQueueNeverStarts'
  BY DEF HeldNamed, CancelledQueueNeverStarts
<1>5. HandlesAlive'
  BY <1>1 DEF HandlesAlive, HandlesNamed, Orphaned
<1>6. FibersTracked'
  BY <1>1, <1>2 DEF FibersTracked
<1> QED
  BY <1>3, <1>4, <1>5, <1>6

(* Inv does not depend on anything but the variables of Runner.            *)
LEMMA UnchangedInv ==
  ASSUME TypeOK, Inv, UNCHANGED <<state, lock, kind, obj, pc, held, ret, fpc>>
  PROVE  Inv'
<1>1. CallsConsistent'
  BY DEF Inv, CallsConsistent
<1>2. HandlesNamed' /\ HeldNamed' /\ HandlesAlive' /\ FibersTracked' /\ CancelledQueueNeverStarts'
  BY QuietStep DEF Unfinished
<1> QED
  BY <1>1, <1>2 DEF Inv

(* A call that moves on, without touching a fiber. *)
LEMMA QuietCall ==
  ASSUME TypeOK, Inv, NEW c \in Ops, NEW from, NEW to, Goto(c, from, to),
         UNCHANGED <<state, lock, kind, obj, held, fpc>>,
         from \notin {"ready", "returned"}, to \notin {"ready", "onBusy", "awaitShell"},
         to \in CancelPCs => from \in CancelPCs,
         to \in {"awaitReady", "interrupt", "awaitExit"} => from \in {"awaitReady", "interrupt"},
         ret' = ret \/ (to = "returned" /\ \E v : ret' = [ret EXCEPT ![c] = v])
  PROVE  Inv'
<1> USE DEF TypeOK, Goto
<1>1. CallsConsistent'
  BY DEF Inv, CallsConsistent, CancelPCs
<1>2. \A d \in Ops : ret[d] = "abandoned" => ret'[d] = "abandoned"
  BY DEF Inv, CallsConsistent
<1>3. HandlesNamed' /\ HeldNamed' /\ HandlesAlive' /\ FibersTracked' /\ CancelledQueueNeverStarts'
  BY <1>2, QuietStep DEF Unfinished
<1> QED
  BY <1>1, <1>3 DEF Inv

(* A fiber that moves on, without touching the ref or a call. *)
LEMMA QuietFiber ==
  ASSUME TypeOK, Inv, NEW f \in Ops, NEW from, NEW to, FiberGoto(f, from, to),
         UNCHANGED <<state, lock, callVars>>,
         from \notin {"none", "ended"}, to \notin {"none", "forked"},
         from = "exited" => Detached(f),
         to \in {"working", "exited"} => Unfinished(f),
         from \in {"forked", "working"} => to \in {"working", "exited"}
  PROVE  Inv'
<1> USE DEF TypeOK, FiberGoto, callVars
<1>1. CallsConsistent'
  BY DEF Inv, CallsConsistent, CancelPCs
<1>2. HandlesNamed' /\ HeldNamed' /\ HandlesAlive' /\ FibersTracked' /\ CancelledQueueNeverStarts'
  BY QuietStep DEF Unfinished
<1> QED
  BY <1>1, <1>2 DEF Inv

(* What a call does after the lock touches the ref in no case, and only a  *)
(* cancel that interrupts touches a fiber: one it has detached.            *)
LEMMA CallStepInv ==
  ASSUME TypeOK, Inv, NEW c \in Ops, CallStep(c)
  PROVE  Inv'
<1> USE RunnerAssumption DEF TypeOK, State, Idle, CancelPCs, fiberVars
<1>1. CASE AwaitDone(c)
  BY <1>1, QuietCall DEF AwaitDone, Return
<1>2. CASE AwaitShell(c)
  BY <1>2, QuietCall DEF AwaitShell, Return
<1>3. CASE AwaitReady(c)
  BY <1>3, QuietCall DEF AwaitReady
<1>4. CASE CancelInterrupts(c)
  <2>1. Target(c) \in Ops /\ Detached(Target(c))
    BY <1>4 DEF CancelInterrupts, Goto, Inv, CallsConsistent, Target, Detached
  <2>2. CallsConsistent'
    BY <1>4, <2>1 DEF CancelInterrupts, Goto, InterruptFiber, Inv, CallsConsistent
  <2>3. HandlesNamed' /\ HeldNamed' /\ HandlesAlive' /\ FibersTracked' /\ CancelledQueueNeverStarts'
    <3>1. \A g \in Ops : g # Target(c) => fpc'[g] = fpc[g]
      BY <1>4, <2>1 DEF CancelInterrupts, InterruptFiber
    <3>2. fpc'[Target(c)] = IF fpc[Target(c)] = "forked" THEN "ended" ELSE fpc[Target(c)]
      BY <1>4, <2>1 DEF CancelInterrupts, InterruptFiber
    <3>3. UNCHANGED <<state, kind, obj, held, ret>>
      BY <1>4 DEF CancelInterrupts
    <3>4. \A d \in Ops : pc'[d] = "onBusy" => pc[d] = "onBusy"
      BY <1>4 DEF CancelInterrupts, Goto
    <3> QED
      BY <2>1, <3>1, <3>2, <3>3, <3>4, QuietStep DEF Unfinished
  <2> QED
    BY <2>2, <2>3 DEF Inv
<1>5. CASE CancelAwaitsExit(c)
  BY <1>5, QuietCall DEF CancelAwaitsExit
<1>6. CASE CancelFailsDone(c)
  BY <1>6, QuietCall DEF CancelFailsDone
<1>7. CASE IdleIfCurrent(c)
  BY <1>7, QuietCall DEF IdleIfCurrent, Return
<1> QED
  BY <1>1, <1>2, <1>3, <1>4, <1>5, <1>6, <1>7 DEF CallStep

(* A fiber that starts, opens its latch or completes its Deferred.         *)
LEMMA FiberStepInv ==
  ASSUME TypeOK, Inv, NEW f \in Ops,
         FiberStarts(f) \/ ShellReady(f) \/ CompleteRun(f) \/ Work(f)
  PROVE  Inv'
<1>1. CASE FiberStarts(f)
  <2>1. FiberGoto(f, "forked", "working") /\ UNCHANGED <<state, lock, callVars>> /\ Unfinished(f)
    BY <1>1 DEF FiberStarts, FiberGoto, Unfinished
  <2> QED
    BY <2>1, QuietFiber
<1>2. CASE ShellReady(f)
  <2>1. UNCHANGED <<state, lock, kind, obj, pc, held, ret, fpc>>
    BY <1>2 DEF ShellReady, callVars, fiberVars
  <2> QED
    BY <2>1, UnchangedInv
<1>3. CASE CompleteRun(f)
  BY <1>3, QuietFiber DEF CompleteRun, FiberGoto, Unfinished
<1>4. CASE Work(f)
  BY <1>4, QuietFiber DEF Work, WorkExits, FiberGoto, Unfinished
<1> QED
  BY <1>1, <1>2, <1>3, <1>4

(* An interrupted caller leaves the ref alone: its shell may die with it.  *)
LEMMA AbandonInv ==
  ASSUME TypeOK, Inv, NEW c \in Ops, Abandon(c)
  PROVE  Inv'
<1> USE RunnerAssumption DEF TypeOK, State, Idle
<1>1. /\ pc' = [pc EXCEPT ![c] = "returned"] /\ ret' = [ret EXCEPT ![c] = "abandoned"]
      /\ pc[c] \notin {"ready", "returned"} /\ UNCHANGED <<state, kind, obj, held>>
  BY DEF Abandon, Return, Goto
<1>2. \A o \in Objs : lock'[o] = lock[o] \/ (lock[o] = c /\ pc[c] = "onBusy")
  BY DEF Abandon, Inv, CallsConsistent
<1>3. \A g \in Ops : fpc'[g] = fpc[g] \/ (g = c /\ kind[c] = "shell" /\ fpc[g] = "forked" /\ fpc'[g] = "ended")
  <2>1. CASE pc[c] = "awaitShell"
    <3>1. InterruptFiber(c) /\ kind[c] = "shell"
      BY <2>1 DEF Abandon, Inv, CallsConsistent
    <3> QED
      BY <3>1 DEF InterruptFiber
  <2>2. CASE pc[c] # "awaitShell"
    BY <2>2 DEF Abandon, fiberVars
  <2> QED
    BY <2>1, <2>2
<1>4. CallsConsistent'
  BY <1>1, <1>2, <1>3 DEF Inv, CallsConsistent, CancelPCs
<1>5. HandlesNamed' /\ HeldNamed' /\ HandlesAlive' /\ FibersTracked' /\ CancelledQueueNeverStarts'
  <2>1. \A f \in Ops : Unfinished(f) /\ ~Unfinished(f)' => fpc'[f] = "ended" /\ Orphaned(f)'
    BY <1>1, <1>3 DEF Unfinished, Orphaned
  <2>2. \A d \in Ops : ret[d] = "abandoned" => ret'[d] = "abandoned"
    BY <1>1
  <2> QED
    BY <1>1, <1>3, <2>1, <2>2, QuietStep DEF Unfinished
<1> QED
  BY <1>4, <1>5 DEF Inv

(* The idle hook leaves the ref and the handles alone.                     *)
LEMMA IdleHookInv ==
  ASSUME TypeOK, Inv, NEW c \in Ops, BeginIdle(c) \/ EndIdle(c)
  PROVE  Inv'
<1>1. CASE CancelBeginsIdle(c)
  BY <1>1, QuietCall DEF CancelBeginsIdle, fiberVars, CancelPCs
<1>2. CASE CancelEndsIdle(c)
  BY <1>2, QuietCall DEF CancelEndsIdle, Return, fiberVars, CancelPCs
<1>3. CASE FiberBeginsIdle(c)
  BY <1>3, QuietFiber DEF FiberBeginsIdle
<1>4. CASE FiberEndsIdle(c)
  BY <1>4, QuietFiber DEF FiberEndsIdle
<1> QED
  BY <1>1, <1>2, <1>3, <1>4 DEF BeginIdle, EndIdle

(* A call that has not been made is named nowhere. *)
LEMMA FreshCall ==
  ASSUME TypeOK, Inv, NEW c \in Ops, pc[c] = "ready"
  PROVE  /\ kind[c] = "none" /\ fpc[c] = "none" /\ ret[c] = "none" /\ ~Detached(c)
         /\ \A k \in Ops : kind[k] = "cancel" => held[k].run # c /\ held[k].shell # c
         /\ \A o \in Objs : state[o].run # c /\ state[o].shell # c
<1> USE RunnerAssumption DEF TypeOK, State, Inv
<1>1. kind[c] = "none" /\ fpc[c] = "none" /\ ret[c] = "none"
  BY DEF CallsConsistent
<1>2. \A k \in Ops : kind[k] = "cancel" => held[k].run # c /\ held[k].shell # c
  <2> SUFFICES ASSUME NEW k \in Ops, kind[k] = "cancel" PROVE held[k].run # c /\ held[k].shell # c
    OBVIOUS
  <2>1. c # NoOp
    OBVIOUS
  <2>2. CASE held[k].run = c
    BY <1>1, <2>1, <2>2 DEF HeldNamed
  <2>3. CASE held[k].shell = c
    BY <1>1, <2>1, <2>3 DEF HeldNamed
  <2> QED
    BY <2>2, <2>3
<1>3. \A o \in Objs : state[o].run # c /\ state[o].shell # c
  BY <1>1 DEF HandlesNamed
<1> QED
  BY <1>1, <1>2, <1>3 DEF Detached

(* ensureRunning and startShell detach nothing. *)
LEMMA CallDetachesNothing ==
  ASSUME TypeOK, Inv, NEW c \in Ops, NEW o \in Objs, NEW op, NEW next, NEW st,
         Call(c, o, op, next, st), op # "cancel"
  PROVE  \A f \in Ops : Detached(f)' <=> Detached(f)
  BY FreshCall DEF Call, Detached, TypeOK

(* A caller that joins a run, or is rejected, changes no handle.           *)
LEMMA JoinInv ==
  ASSUME TypeOK, Inv, NEW c \in Ops, NEW o \in Objs,
         JoinRun(c, o) \/ RejectShell(c, o) \/ EnterShell(c, o)
  PROVE  Inv'
<1> USE RunnerAssumption DEF TypeOK, State, Idle, Running, fiberVars
<1>1. PICK op \in {"run", "shell"}, next \in {"awaitDone", "returned", "onBusy"}, st \in State :
         Call(c, o, op, next, st)
  BY DEF JoinRun, RejectShell, EnterShell
<1>2. UNCHANGED <<state, fpc>>
  BY DEF JoinRun, RejectShell, EnterShell
<1>3. pc[c] = "ready" /\ pc' = [pc EXCEPT ![c] = next] /\ kind' = [kind EXCEPT ![c] = op]
      /\ obj' = [obj EXCEPT ![c] = o] /\ held' = [held EXCEPT ![c] = st]
  BY <1>1 DEF Call
<1>4. CallsConsistent'
  <2>1. CASE JoinRun(c, o) \/ RejectShell(c, o)
    BY <2>1, <1>2, FreshCall DEF JoinRun, RejectShell, Call, Inv, CallsConsistent, CancelPCs
  <2>2. CASE EnterShell(c, o)
    BY <2>2, <1>2, FreshCall DEF EnterShell, Call, Inv, CallsConsistent, CancelPCs
  <2> QED
    BY <2>1, <2>2
<1>5. \A f \in Ops : Detached(f)' <=> Detached(f)
  BY <1>1, CallDetachesNothing
<1>6. HandlesNamed'
  BY <1>2, <1>3, <1>5, FreshCall DEF Inv, HandlesNamed
<1>7. HeldNamed' /\ CancelledQueueNeverStarts'
  BY <1>2, <1>3, FreshCall DEF Inv, HeldNamed, CancelledQueueNeverStarts
<1>8. \A f \in Ops : ret[f] = "abandoned" => ret'[f] = "abandoned"
  BY FreshCall, <1>3 DEF JoinRun, RejectShell, EnterShell
<1>9. HandlesAlive'
  BY <1>2, <1>3, <1>8, FreshCall DEF Inv, HandlesAlive, Unfinished, Orphaned
<1>10. FibersTracked'
  BY <1>2, <1>3, <1>5, FreshCall DEF Inv, FibersTracked, Unfinished, Current
<1> QED
  BY <1>4, <1>6, <1>7, <1>9, <1>10 DEF Inv

(* A caller that queues a run or starts one names itself in the ref.       *)
LEMMA QueueInv ==
  ASSUME TypeOK, Inv, NEW c \in Ops, NEW o \in Objs, QueueRun(c, o) \/ StartRun(c, o)
  PROVE  Inv'
<1> USE RunnerAssumption DEF TypeOK, State
<1>1. /\ pc[c] = "ready" /\ lock[o] = NoOp
      /\ pc' = [pc EXCEPT ![c] = "awaitDone"] /\ kind' = [kind EXCEPT ![c] = "run"]
      /\ obj' = [obj EXCEPT ![c] = o] /\ held' = [held EXCEPT ![c] = Running(c)]
      /\ UNCHANGED <<lock, ret>>
  BY DEF QueueRun, StartRun, Call
<1>2. /\ state[o].run = NoOp
      /\ state' = [state EXCEPT ![o] = [run |-> c, shell |-> state[o].shell]]
  BY DEF QueueRun, StartRun, ShellThenRun, Running, Idle
<1>3. fpc' = IF state[o].shell = NoOp THEN [fpc EXCEPT ![c] = "forked"] ELSE fpc
  BY DEF QueueRun, StartRun, Fork, fiberVars, Idle
<1>4. CallsConsistent'
  BY <1>1, <1>2, <1>3, FreshCall DEF Inv, CallsConsistent, CancelPCs, Idle
<1>5. \A f \in Ops : Detached(f)' <=> Detached(f)
  BY CallDetachesNothing DEF QueueRun, StartRun
<1>6. HandlesNamed'
  BY <1>1, <1>2, <1>5, FreshCall DEF Inv, HandlesNamed
<1>7. HeldNamed' /\ CancelledQueueNeverStarts'
  <2>1. HeldNamed'
    BY <1>1, FreshCall DEF Inv, HeldNamed
  <2>2. \A k \in Ops : kind'[k] = "cancel" => kind[k] = "cancel" /\ held'[k] = held[k]
    BY <1>1
  <2>3. \A k \in Ops : kind[k] = "cancel" => held[k].run # c
    BY <1>1, FreshCall
  <2> QED
    BY <1>3, <2>1, <2>2, <2>3 DEF Inv, CancelledQueueNeverStarts
<1>8. HandlesAlive'
  BY <1>1, <1>2, <1>3, FreshCall DEF Inv, HandlesAlive, Unfinished, Orphaned
<1>9. FibersTracked'
  <2>1. \A f \in Ops : Unfinished(f)' => (f = c /\ Current(f)') \/ (Unfinished(f) /\ f # c)
    <3>1. fpc[c] = "none"
      BY <1>1, FreshCall
    <3>2. \A f \in Ops : f # c /\ Unfinished(f)' => Unfinished(f)
      BY <1>3 DEF Unfinished
    <3>3. \A f \in Ops : f = c /\ Unfinished(f)' => state[o].shell = NoOp
      BY <1>3, <3>1 DEF Unfinished
    <3>4. \A f \in Ops : f = c /\ state[o].shell = NoOp => Current(f)'
      BY <1>1, <1>2 DEF Current, Running
    <3> QED
      BY <3>2, <3>3, <3>4
  <2>2. \A f \in Ops : Current(f) /\ f # c => Current(f)'
    BY <1>1, <1>2 DEF Current, Running
  <2> QED
    BY <1>5, <2>1, <2>2 DEF Inv, FibersTracked
<1> QED
  BY <1>4, <1>6, <1>7, <1>8, <1>9 DEF Inv

(* startShell puts its shell in a ref that is still Idle under the lock.   *)
LEMMA ForkShellInv ==
  ASSUME TypeOK, Inv, NEW c \in Ops, ForkShell(c)
  PROVE  Inv'
<1> USE RunnerAssumption DEF TypeOK, State
<1>1. /\ pc[c] = "onBusy" /\ kind[c] = "shell" /\ obj[c] \in Objs /\ lock[obj[c]] = c
      /\ state[obj[c]] = Idle /\ fpc[c] = "none" /\ ret[c] = "none"
  BY DEF ForkShell, Inv, CallsConsistent
<1>2. /\ pc' = [pc EXCEPT ![c] = "awaitShell"] /\ fpc' = [fpc EXCEPT ![c] = "forked"]
      /\ state' = [state EXCEPT ![obj[c]] = Shell(c)] /\ lock' = [lock EXCEPT ![obj[c]] = NoOp]
      /\ UNCHANGED <<kind, obj, held, ret>>
  BY DEF ForkShell, Fork
<1>3. \A f \in Ops : Detached(f)' <=> Detached(f)
  BY <1>2 DEF Detached
<1>4. ~Detached(c) /\ \A k \in Ops : kind[k] = "cancel" => held[k].run # c /\ held[k].shell # c
  BY <1>1 DEF Inv, HeldNamed, Detached
<1>5. CallsConsistent'
  BY <1>1, <1>2 DEF Inv, CallsConsistent, CancelPCs
<1>6. HandlesNamed'
  BY <1>1, <1>2, <1>3, <1>4 DEF Inv, HandlesNamed, Shell
<1>7. HeldNamed' /\ CancelledQueueNeverStarts'
  BY <1>1, <1>2, <1>4 DEF Inv, HeldNamed, CancelledQueueNeverStarts
<1>8. HandlesAlive'
  BY <1>1, <1>2 DEF Inv, HandlesAlive, HandlesNamed, Unfinished, Orphaned, Shell
<1>9. FibersTracked'
  BY <1>1, <1>2, <1>3 DEF Inv, FibersTracked, Unfinished, Current, Idle, Running, Shell
<1> QED
  BY <1>5, <1>6, <1>7, <1>8, <1>9 DEF Inv

(* cancel takes every handle out of the ref, and thereby detaches it.      *)
LEMMA CancelInv ==
  ASSUME TypeOK, Inv, NEW c \in Ops, NEW o \in Objs, Cancel(c, o)
  PROVE  Inv'
<1> USE RunnerAssumption DEF TypeOK, State
<1>1. /\ pc[c] = "ready" /\ lock[o] = NoOp
      /\ kind' = [kind EXCEPT ![c] = "cancel"] /\ obj' = [obj EXCEPT ![c] = o]
      /\ held' = [held EXCEPT ![c] = state[o]] /\ state' = [state EXCEPT ![o] = Idle]
      /\ UNCHANGED <<lock, fpc>>
  BY DEF Cancel, Call, fiberVars
<1>2. \A f \in Ops : Detached(f)' <=> Detached(f) \/ f = state[o].run \/ f = state[o].shell
  BY <1>1, FreshCall DEF Detached
<1>3. CallsConsistent'
  BY <1>1, FreshCall DEF Cancel, Call, Inv, CallsConsistent, CancelPCs, Idle
<1>4. HandlesNamed'
  <2>1. \A p \in Objs : p # o => state'[p] = state[p]
    BY <1>1
  <2>2. \A p \in Objs : p # o /\ state[p].run # NoOp => state[p].run # state[o].run
    BY DEF Inv, HandlesNamed
  <2>3. \A p \in Objs : p # o /\ state[p].shell # NoOp => state[p].shell # state[o].shell
    BY DEF Inv, HandlesNamed
  <2>4. \A p, q \in Objs : state[p].run # NoOp => state[p].run # state[q].shell
    BY DEF Inv, HandlesNamed
  <2>5. state'[o] = [run |-> NoOp, shell |-> NoOp]
    BY <1>1 DEF Idle
  <2>6. \A d \in Ops : pc'[d] = "onBusy" => pc[d] = "onBusy"
    BY DEF Cancel, Call
  <2>7. ASSUME NEW p \in Objs, p # o PROVE
          /\ state[p].shell # NoOp => /\ kind'[state[p].shell] = "shell" /\ obj'[state[p].shell] = p
                                      /\ pc'[state[p].shell] # "onBusy" /\ ~Detached(state[p].shell)'
          /\ state[p].run # NoOp => kind'[state[p].run] = "run" /\ obj'[state[p].run] = p /\ ~Detached(state[p].run)'
    BY <1>1, <1>2, <2>2, <2>3, <2>4, <2>6, <2>7, FreshCall DEF Inv, HandlesNamed
  <2> QED
    BY <2>1, <2>5, <2>7 DEF HandlesNamed
<1>5. HeldNamed'
  <2>1. \A d \in Ops : d # c => held'[d] = held[d] /\ kind'[d] = kind[d]
    BY <1>1
  <2>2. \A d \in Ops : pc'[d] = "onBusy" => pc[d] = "onBusy"
    BY DEF Cancel, Call
  <2>3. held'[c] = state[o] /\ c # state[o].run /\ c # state[o].shell
    BY <1>1, FreshCall
  <2>4. \A k \in Ops : kind[k] = "cancel" => held[k].run # c /\ held[k].shell # c
    BY <1>1, FreshCall
  <2> QED
    BY <2>1, <2>2, <2>3, <2>4 DEF Inv, HeldNamed, HandlesNamed
<1>6. CancelledQueueNeverStarts'
  BY <1>1 DEF Inv, CancelledQueueNeverStarts, HandlesAlive
<1>7. HandlesAlive'
  BY <1>1, FreshCall DEF Cancel, Inv, HandlesAlive, Unfinished, Orphaned, Idle
<1>8. FibersTracked'
  <2>1. \A f \in Ops : Unfinished(f)' => Unfinished(f) /\ f # c
    BY <1>1, FreshCall DEF Unfinished
  <2>2. \A f \in Ops : f # c /\ Current(f) => Current(f)' \/ Detached(f)'
    BY <1>1, <1>2 DEF Current, Running
  <2> QED
    BY <1>2, <2>1, <2>2 DEF Inv, FibersTracked
<1> QED
  BY <1>3, <1>4, <1>5, <1>6, <1>7, <1>8 DEF Inv

(* finishRun empties the ref only if it names the run that ends.           *)
LEMMA FinishRunInv ==
  ASSUME TypeOK, Inv, NEW f \in Ops, FinishRun(f)
  PROVE  Inv'
<1> USE RunnerAssumption DEF TypeOK, State
<1>1. kind[f] = "run" /\ obj[f] \in Objs /\ Unfinished(f) /\ fpc[f] = "exited" /\ lock[obj[f]] = NoOp
  BY DEF FinishRun, FiberGoto, Unfinished, Inv, CallsConsistent
<1>2. CASE state[obj[f]] # Running(f)
  <2>1. Detached(f)
    BY <1>1, <1>2 DEF Inv, FibersTracked, Current, HandlesNamed
  <2> QED
    BY <1>2, <2>1, QuietFiber DEF FinishRun, FiberGoto
<1>3. CASE state[obj[f]] = Running(f)
  <2>1. /\ state' = [state EXCEPT ![obj[f]] = Idle] /\ fpc' = [fpc EXCEPT ![f] = "idle"]
        /\ UNCHANGED <<lock, kind, obj, pc, held, ret>>
    BY <1>3 DEF FinishRun, FiberGoto, callVars
  <2>2. CallsConsistent'
    BY <1>1, <2>1 DEF Inv, CallsConsistent, CancelPCs
  <2>3. \A g \in Ops : Detached(g)' <=> Detached(g)
    BY <2>1 DEF Detached
  <2>4. HandlesNamed'
    BY <2>1, <2>3 DEF Inv, HandlesNamed, Idle
  <2>5. HeldNamed' /\ CancelledQueueNeverStarts'
    BY <1>1, <2>1 DEF Inv, HeldNamed, CancelledQueueNeverStarts
  <2>6. HandlesAlive'
    BY <1>1, <2>1 DEF Inv, HandlesAlive, HandlesNamed, Unfinished, Orphaned, Idle
  <2>7. FibersTracked'
    BY <1>1, <1>3, <2>1, <2>3 DEF Inv, FibersTracked, Unfinished, Current, Running, Idle
  <2> QED
    BY <2>2, <2>4, <2>5, <2>6, <2>7 DEF Inv
<1> QED
  BY <1>2, <1>3

(* finishShell starts the queued run, which no cancel has detached.        *)
LEMMA FinishShellInv ==
  ASSUME TypeOK, Inv, NEW f \in Ops, FinishShell(f)
  PROVE  Inv'
<1> USE RunnerAssumption DEF TypeOK, State
<1> DEFINE o == obj[f]  r == state[o].run
<1>1. /\ kind[f] = "shell" /\ o \in Objs /\ Unfinished(f) /\ fpc[f] = "exited" /\ lock[o] = NoOp
      /\ UNCHANGED <<lock, kind, obj, pc, held, ret>>
  BY DEF FinishShell, callVars, Unfinished, Inv, CallsConsistent
<1>2. \A g \in Ops : Detached(g)' <=> Detached(g)
  BY <1>1 DEF Detached
<1>3. CASE state[o].shell # f
  <2>1. fpc' = [fpc EXCEPT ![f] = "ended"] /\ UNCHANGED state
    BY <1>3 DEF FinishShell, Shell
  <2>2. Detached(f)
    <3>1. state[o] # Running(f)
      BY <1>1 DEF Inv, HandlesNamed, Running
    <3> QED
      BY <1>1, <1>3, <3>1 DEF Inv, FibersTracked, Current
  <2> QED
    BY <1>1, <2>1, <2>2, QuietFiber DEF FiberGoto, callVars
<1>4. CASE state[o] = Shell(f)
  <2>1. state' = [state EXCEPT ![o] = Idle] /\ fpc' = [fpc EXCEPT ![f] = "idle"]
    BY <1>4 DEF FinishShell, Shell
  <2>2. CallsConsistent'
    BY <1>1, <2>1 DEF Inv, CallsConsistent, CancelPCs
  <2>3. HandlesNamed'
    BY <1>1, <1>2, <2>1 DEF Inv, HandlesNamed, Idle
  <2>4. HeldNamed' /\ CancelledQueueNeverStarts'
    BY <1>1, <2>1 DEF Inv, HeldNamed, CancelledQueueNeverStarts
  <2>5. HandlesAlive'
    BY <1>1, <2>1 DEF Inv, HandlesAlive, HandlesNamed, Unfinished, Orphaned, Idle
  <2>6. FibersTracked'
    BY <1>1, <1>2, <1>4, <2>1 DEF Inv, FibersTracked, Unfinished, Current, Running, Shell, Idle
  <2> QED
    BY <2>2, <2>3, <2>4, <2>5, <2>6 DEF Inv
<1>5. CASE state[o].shell = f /\ r # NoOp
  <2>1. /\ state' = [state EXCEPT ![o] = Running(r)]
        /\ fpc' = [fpc EXCEPT ![f] = "ended", ![r] = "forked"]
    BY <1>5 DEF FinishShell, Shell
  <2>2. r \in Ops /\ r # f /\ kind[r] = "run" /\ obj[r] = o /\ ~Detached(r) /\ fpc[r] = "none"
    BY <1>1, <1>5 DEF Inv, HandlesNamed, HandlesAlive
  <2>3. \A g \in Ops : fpc'[g] = IF g = r THEN "forked" ELSE IF g = f THEN "ended" ELSE fpc[g]
    BY <2>1, <2>2
  <2>4. \A p \in Objs : state'[p] = IF p = o THEN Running(r) ELSE state[p]
    BY <1>1, <2>1
  <2>5. CallsConsistent'
    BY <1>1, <2>2, <2>3, <2>4 DEF Inv, CallsConsistent, CancelPCs
  <2>6. HandlesNamed'
    BY <1>1, <1>2, <2>2, <2>4 DEF Inv, HandlesNamed, Running
  <2>7. HeldNamed' /\ CancelledQueueNeverStarts'
    BY <1>1, <2>2, <2>3 DEF Inv, HeldNamed, CancelledQueueNeverStarts, Detached
  <2>8. HandlesAlive'
    BY <1>1, <2>2, <2>3, <2>4 DEF Inv, HandlesAlive, HandlesNamed, Unfinished, Orphaned, Running
  <2>9. FibersTracked'
    <3>1. \A g \in Ops : g = r => Current(g)'
      BY <1>1, <2>2, <2>4 DEF Current, Running
    <3>2. \A g \in Ops : Unfinished(g)' => g = r \/ (Unfinished(g) /\ g # f)
      BY <2>3 DEF Unfinished
    <3>3. ASSUME NEW g \in Ops, Unfinished(g), Current(g), g # f PROVE Current(g)'
      <4>1. obj[g] # o
        BY <1>5, <3>3 DEF Current, Running
      <4>2. obj[g] \in Objs
        BY <3>3 DEF Inv, CallsConsistent, Unfinished
      <4> QED
        BY <1>1, <2>4, <3>3, <4>1, <4>2 DEF Current, Running
    <3> QED
      BY <1>2, <3>1, <3>2, <3>3 DEF Inv, FibersTracked
  <2> QED
    BY <2>5, <2>6, <2>7, <2>8, <2>9 DEF Inv
<1> QED
  BY <1>3, <1>4, <1>5 DEF FinishShell

(* Inv is inductive.                                                       *)
LEMMA InvNext == TypeOK /\ Inv /\ [Next]_vars => Inv'
<1> SUFFICES ASSUME TypeOK, Inv, [Next]_vars PROVE Inv'
  OBVIOUS
<1>1. ASSUME NEW c \in Ops, Enter(c) PROVE Inv'
  BY <1>1, JoinInv, QueueInv, CancelInv DEF Enter, EnsureRunning, StartShell
<1>2. ASSUME NEW c \in Ops, ForkShell(c) \/ CallStep(c) \/ Abandon(c) PROVE Inv'
  BY <1>2, ForkShellInv, CallStepInv, AbandonInv
<1>3. ASSUME NEW c \in Ops, FiberStep(c) \/ Work(c) PROVE Inv'
  BY <1>3, FiberStepInv, FinishRunInv, FinishShellInv DEF FiberStep
<1>4. ASSUME NEW c \in Ops, BeginIdle(c) \/ EndIdle(c) PROVE Inv'
  BY <1>4, IdleHookInv
<1>5. CASE UNCHANGED vars
  BY <1>5, UnchangedInv DEF vars, callVars, fiberVars
<1> QED
  BY <1>1, <1>2, <1>3, <1>4, <1>5 DEF Next

(* TypeOK and Inv hold in every reachable state.                           *)
LEMMA Invariance == Spec => [](TypeOK /\ Inv)
  BY TypeInit, TypeNext, InvInit, InvNext, PTL DEF Spec
-------------------------------------------------------------------------------
(* Work that is neither detached nor finished is the work the ref names,   *)
(* and the ref names one piece of work that is going on: runs and shells   *)
(* of one Runner overlap only with cancelled work (runner.ts 70-205).      *)
THEOREM ExclusiveWork == Spec => []Exclusive
<1>1. TypeOK /\ Inv => Exclusive
  <2>1. SUFFICES ASSUME TypeOK, Inv, NEW f \in Ops, NEW g \in Ops, f # g, obj[f] = obj[g],
                        Unfinished(f), Unfinished(g), ~Detached(f), ~Detached(g)
                 PROVE  FALSE
    BY DEF Exclusive
  <2>2. obj[f] \in Objs /\ fpc[f] # "none" /\ fpc[g] # "none"
    BY <2>1 DEF Inv, CallsConsistent, Unfinished
  <2>3. Current(f) /\ Current(g)
    BY <2>1 DEF Inv, FibersTracked
  <2> QED
    BY <2>1, <2>2, <2>3, RunnerAssumption DEF Current, Running
<1> QED
  BY <1>1, Invariance, PTL

(* The ref never names work that is over, nor a queued run that has        *)
(* already started (runner.ts 70-106, 171-202).                            *)
THEOREM LiveHandles == Spec => []HandlesAlive
  BY Invariance, PTL DEF Inv

(* cancel during shell_then_run cancels both: the finalizer of the shell,  *)
(* which runs later, does not start the queued run (runner.ts 93-106).     *)
THEOREM CancelledQueue == Spec => []CancelledQueueNeverStarts
  BY Invariance, PTL DEF Inv
===============================================================================
