--------------------------- MODULE RunnerSlotProofs ---------------------------
(* Theorems about what the callers of a Runner are told, and about the     *)
(* slot that a Runner implements, for any set of calls, of Runners and of  *)
(* calls that may be interrupted.                                          *)
EXTENDS RunnerProofs

(* A call that has been made keeps its operation, its Runner and its       *)
(* handles; one that has ended keeps its answer; and what a cancel has     *)
(* detached stays detached, as what died with its caller stays orphaned.   *)
LEMMA CallsKeep ==
  ASSUME TypeOK, Inv, [Next]_vars
  PROVE  /\ \A c \in Ops : kind[c] # "none" => kind'[c] = kind[c] /\ obj'[c] = obj[c] /\ held'[c] = held[c]
         /\ \A c \in Ops : ret[c] # "none" => ret'[c] = ret[c] /\ pc'[c] = "returned"
         /\ \A f \in Ops : Detached(f) => Detached(f)'
         /\ \A f \in Ops : Orphaned(f) => Orphaned(f)'
<1> USE RunnerAssumption DEF TypeOK, callVars, fiberVars, syncVars
<1> DEFINE Kept == \A c \in Ops : kind[c] # "none" => kind'[c] = kind[c] /\ obj'[c] = obj[c] /\ held'[c] = held[c]
           Told == \A c \in Ops : ret[c] # "none" => ret'[c] = ret[c] /\ pc'[c] = "returned"
<1>1. \A c \in Ops : (pc[c] = "ready" <=> kind[c] = "none") /\ (ret[c] # "none" => pc[c] = "returned")
  BY DEF Inv, CallsConsistent
<1>2. ASSUME NEW c \in Ops, Enter(c) PROVE Kept /\ Told
  <2>1. PICK o \in Objs : EnsureRunning(c, o) \/ StartShell(c, o) \/ Cancel(c, o)
    BY <1>2 DEF Enter
  <2>2. PICK op, next, st : Call(c, o, op, next, st)
    BY <2>1 DEF EnsureRunning, JoinRun, QueueRun, StartRun, StartShell, RejectShell, EnterShell, Cancel
  <2>3. ret' = ret \/ \E v : ret' = [ret EXCEPT ![c] = v]
    BY <2>1 DEF EnsureRunning, JoinRun, QueueRun, StartRun, StartShell, RejectShell, EnterShell, Cancel
  <2> QED
    BY <1>1, <2>2, <2>3 DEF Call
<1>3. ASSUME NEW c \in Ops, ForkShell(c) PROVE Kept /\ Told
  BY <1>1, <1>3 DEF ForkShell
<1>4. ASSUME NEW c \in Ops, CallStep(c) \/ Abandon(c) \/ CancelBeginsIdle(c) \/ CancelEndsIdle(c) PROVE Kept /\ Told
  <2>1. UNCHANGED <<kind, obj, held>> /\ (ret' = ret \/ \E v : ret' = [ret EXCEPT ![c] = v])
    BY <1>4 DEF CallStep, AwaitDone, AwaitShell, AwaitReady, CancelInterrupts, CancelAwaitsExit,
                CancelFailsDone, IdleIfCurrent, Abandon, CancelBeginsIdle, CancelEndsIdle, Return
  <2>2. pc[c] # "returned" /\ \E to : pc' = [pc EXCEPT ![c] = to]
    BY <1>4 DEF CallStep, AwaitDone, AwaitShell, AwaitReady, CancelInterrupts, CancelAwaitsExit,
                CancelFailsDone, IdleIfCurrent, Abandon, CancelBeginsIdle, CancelEndsIdle, Return, Goto
  <2> QED
    BY <1>1, <2>1, <2>2
<1>5. ASSUME NEW c \in Ops, FiberStep(c) \/ Work(c) \/ FiberBeginsIdle(c) \/ FiberEndsIdle(c) PROVE Kept /\ Told
  <2>1. UNCHANGED callVars
    BY <1>5 DEF FiberStep, FiberStarts, ShellReady, FinishRun, FinishShell, CompleteRun, Work, WorkExits,
                FiberBeginsIdle, FiberEndsIdle
  <2> QED
    BY <1>1, <2>1
<1>6. ASSUME UNCHANGED vars PROVE Kept /\ Told
  BY <1>1, <1>6 DEF vars
<1>7. Kept /\ Told
  BY <1>2, <1>3, <1>4, <1>5, <1>6 DEF Next, BeginIdle, EndIdle
<1>8. \A f \in Ops : Detached(f) => Detached(f)'
  BY <1>7 DEF Detached
<1>9. \A f \in Ops : Orphaned(f) => Orphaned(f)'
  BY <1>7 DEF Orphaned
<1> QED
  BY <1>7, <1>8, <1>9
-------------------------------------------------------------------------------
(* The inductive invariant for the callers.  A Deferred says only that it  *)
(* is done, so NoStrandedCaller needs the same of every run, awaited or    *)
(* not (RunsAnswered).  OutcomesTrue needs that an Exit stands once it is  *)
(* there, and that only a cancel, or the end of a shell's caller, sends a  *)
(* signal (ExitsStand), which makes Deferreds tell the truth.              *)

CallersNamed ==
  \A c \in Ops :
    /\ kind[c] = "run" => held[c].run # NoOp /\ kind[held[c].run] = "run"
    /\ pc[c] = "awaitDone" => kind[c] = "run"
    /\ done[c] # "none" => kind[c] = "run"
    /\ fpc[c] = "complete" => kind[c] = "run"

Queued(r) == \E o \in Objs : state[o].run = r /\ state[o].shell # NoOp

(* Cancel k has still to fail the Deferred it holds, or died before. *)
Failing(k) == pc[k] \in {"awaitReady", "interrupt", "awaitExit", "failDone"} \/ ret[k] = "abandoned"

RunsAnswered ==
  \A r \in Ops : done[r] = "pending" =>
    \/ fpc[r] \notin {"none", "ended"}
    \/ Queued(r)
    \/ \E k \in Ops : kind[k] = "cancel" /\ held[k].run = r /\ Failing(k)

ExitsStand ==
  \A f \in Ops :
    /\ exit[f] = "none" <=> fpc[f] \in {"none", "forked", "working"}
    /\ exit[f] = "interrupted" => signal[f]
    /\ signal[f] => Detached(f) \/ Orphaned(f)
    /\ marked[f] => Detached(f)

AnswersTrue ==
  \A r \in Ops :
    /\ done[r] = "success" => exit[r] = "success"
    /\ done[r] = "failure" => exit[r] \in {"failure", "mixed"}
    /\ done[r] = "cancelled" => Detached(r)

CallersInv == CallersNamed /\ RunsAnswered /\ ExitsStand /\ AnswersTrue /\ OutcomesTrue

(* CallersInv holds before the first call. *)
LEMMA CallersInit == Init => CallersInv
  BY RunnerAssumption DEF Init, Idle, CallersInv, CallersNamed, RunsAnswered, ExitsStand, AnswersTrue, OutcomesTrue

(* Runs are named as before by a step that makes no call and completes no  *)
(* Deferred that is not pending.                                           *)
LEMMA NamedNext ==
  ASSUME TypeOK, Inv, CallersNamed, [Next]_vars
  PROVE  CallersNamed'
<1> USE RunnerAssumption DEF TypeOK, State, callVars, fiberVars, syncVars
<1>1. ASSUME NEW c \in Ops, NEW o \in Objs, JoinRun(c, o) PROVE CallersNamed'
  BY <1>1, FreshCall DEF JoinRun, Call, CallersNamed, Running, Inv, HandlesNamed
<1>2. ASSUME NEW c \in Ops, NEW o \in Objs, QueueRun(c, o) \/ StartRun(c, o) PROVE CallersNamed'
  <2>1. /\ kind' = [kind EXCEPT ![c] = "run"] /\ held' = [held EXCEPT ![c] = Running(c)]
        /\ pc' = [pc EXCEPT ![c] = "awaitDone"] /\ done' = [done EXCEPT ![c] = "pending"]
        /\ \A d \in Ops : fpc'[d] = "complete" => fpc[d] = "complete"
    BY <1>2 DEF QueueRun, StartRun, Call, MakeDone, Fork
  <2> QED
    BY <1>2, <2>1, FreshCall DEF CallersNamed, Running
<1>3. ASSUME NEW c \in Ops, NEW o \in Objs, StartShell(c, o) \/ Cancel(c, o) PROVE CallersNamed'
  <2>1. PICK op \in {"shell", "cancel"}, next \in CallPCs \ {"awaitDone"}, st \in State :
          Call(c, o, op, next, st) /\ UNCHANGED <<done, fpc>>
    BY <1>3 DEF StartShell, RejectShell, EnterShell, Cancel, Idle, CallPCs
  <2>2. pc[c] = "ready" /\ kind[c] = "none"
    BY <2>1, FreshCall DEF Call
  <2> QED
    BY <2>1, <2>2 DEF Call, CallersNamed
<1>4. ASSUME NEW c \in Ops, ForkShell(c) PROVE CallersNamed'
  BY <1>4 DEF ForkShell, Fork, CallersNamed
<1>5. ASSUME NEW c \in Ops, CallStep(c) \/ Abandon(c) \/ CancelBeginsIdle(c) \/ CancelEndsIdle(c) PROVE CallersNamed'
  <2>1. UNCHANGED <<kind, held>> /\ \A d \in Ops : pc'[d] = "awaitDone" => pc[d] = "awaitDone"
    BY <1>5 DEF CallStep, AwaitDone, AwaitShell, AwaitReady, CancelInterrupts, CancelAwaitsExit,
                CancelFailsDone, IdleIfCurrent, Abandon, CancelBeginsIdle, CancelEndsIdle, Return, Goto
  <2>2. \A d \in Ops : done'[d] # "none" => done[d] # "none"
    BY <1>5 DEF CallStep, AwaitDone, AwaitShell, AwaitReady, CancelInterrupts, CancelAwaitsExit,
                CancelFailsDone, Complete, IdleIfCurrent, Abandon, CancelBeginsIdle, CancelEndsIdle
  <2>3. \A d \in Ops : fpc'[d] = "complete" => fpc[d] = "complete"
    BY <1>5 DEF CallStep, AwaitDone, AwaitShell, AwaitReady, CancelInterrupts, CancelAwaitsExit, InterruptFiber,
                CancelFailsDone, IdleIfCurrent, Abandon, CancelBeginsIdle, CancelEndsIdle
  <2> QED
    BY <2>1, <2>2, <2>3 DEF CallersNamed
<1>6. ASSUME NEW f \in Ops, FiberStep(f) \/ Work(f) \/ FiberBeginsIdle(f) \/ FiberEndsIdle(f) PROVE CallersNamed'
  <2>1. UNCHANGED callVars
    BY <1>6 DEF FiberStep, FiberStarts, ShellReady, FinishRun, FinishShell, CompleteRun, Work, WorkExits,
                FiberBeginsIdle, FiberEndsIdle
  <2>2. \A d \in Ops : done'[d] # "none" => done[d] # "none"
    BY <1>6 DEF FiberStep, FiberStarts, ShellReady, FinishRun, FinishShell, CompleteRun, Complete, Work, WorkExits,
                FiberBeginsIdle, FiberEndsIdle
  <2>3. \A d \in Ops : fpc'[d] = "complete" => fpc[d] = "complete" \/ kind[d] = "run"
    <3>1. CASE FinishShell(f)
      BY <3>1 DEF FinishShell
    <3> QED
      BY <1>6, <3>1 DEF FiberStep, FiberStarts, ShellReady, FinishRun, CompleteRun, Work, WorkExits,
                        FiberBeginsIdle, FiberEndsIdle, FiberGoto
  <2> QED
    BY <2>1, <2>2, <2>3 DEF CallersNamed
<1>7. ASSUME UNCHANGED vars PROVE CallersNamed'
  BY <1>7 DEF vars, CallersNamed
<1> QED
  BY <1>1, <1>2, <1>3, <1>4, <1>5, <1>6, <1>7 DEF Next, Enter, EnsureRunning, BeginIdle, EndIdle

(* A cancel that has still to fail a run goes on until it has. *)
LEMMA FailingStays ==
  ASSUME TypeOK, Inv, [Next]_vars, NEW k \in Ops, NEW r \in Ops,
         kind[k] = "cancel", held[k].run = r, Failing(k), done'[r] = "pending"
  PROVE  kind'[k] = "cancel" /\ held'[k].run = r /\ Failing(k)'
<1> USE RunnerAssumption DEF TypeOK, State, callVars, fiberVars, syncVars
<1>1. kind'[k] = "cancel" /\ held'[k].run = r /\ (ret[k] = "abandoned" => ret'[k] = "abandoned")
  BY CallsKeep
<1>2. pc[k] # "ready" /\ k # NoOp
  BY DEF Inv, CallsConsistent
<1>3. ASSUME NEW c \in Ops, Enter(c) PROVE pc'[k] = pc[k]
  BY <1>2, <1>3 DEF Enter, EnsureRunning, JoinRun, QueueRun, StartRun, StartShell, RejectShell, EnterShell, Cancel, Call
<1>4. ASSUME NEW c \in Ops, ForkShell(c) PROVE pc[k] = "onBusy" \/ pc'[k] = pc[k]
  BY <1>4 DEF ForkShell
<1>5. ASSUME NEW c \in Ops, CallStep(c) PROVE Failing(k)'
  <2>1. CASE c # k
    <3>1. pc'[k] = pc[k]
      BY <1>5, <2>1 DEF CallStep, AwaitDone, AwaitShell, AwaitReady, CancelInterrupts, CancelAwaitsExit,
                    CancelFailsDone, IdleIfCurrent, Return, Goto
    <3> QED
      BY <1>1, <3>1 DEF Failing
  <2>2. CASE c = k /\ ~AwaitReady(c) /\ ~CancelInterrupts(c) /\ ~CancelAwaitsExit(c) /\ ~CancelFailsDone(c)
    BY <1>1, <1>5, <2>2 DEF CallStep, AwaitDone, AwaitShell, IdleIfCurrent, Return, Goto, Failing
  <2>3. CASE c = k /\ (AwaitReady(c) \/ CancelInterrupts(c))
    BY <1>1, <2>3 DEF AwaitReady, CancelInterrupts, Goto, Failing
  <2>4. CASE c = k /\ CancelAwaitsExit(c)
    BY <1>1, <2>4 DEF CancelAwaitsExit, Goto, Failing
  <2>5. CASE c = k /\ CancelFailsDone(c)
    BY <2>5 DEF CancelFailsDone, Complete
  <2> QED
    BY <1>5, <2>1, <2>2, <2>3, <2>4, <2>5
<1>6. ASSUME NEW c \in Ops, Abandon(c) PROVE Failing(k)'
  BY <1>1, <1>6 DEF Abandon, Return, Goto, Failing
<1>7. ASSUME NEW c \in Ops, CancelBeginsIdle(c) \/ CancelEndsIdle(c) PROVE pc[k] \in {"idle", "onIdle"} \/ pc'[k] = pc[k]
  BY <1>7 DEF CancelBeginsIdle, CancelEndsIdle, Return, Goto
<1>8. ASSUME NEW f \in Ops, FiberStep(f) \/ Work(f) \/ FiberBeginsIdle(f) \/ FiberEndsIdle(f) PROVE pc' = pc
  BY <1>8 DEF FiberStep, FiberStarts, ShellReady, FinishRun, FinishShell, CompleteRun, Work, WorkExits,
              FiberBeginsIdle, FiberEndsIdle
<1>9. ASSUME UNCHANGED vars PROVE pc' = pc
  BY <1>9 DEF vars
<1> QED
  BY <1>1, <1>3, <1>4, <1>5, <1>6, <1>7, <1>8, <1>9 DEF Next, BeginIdle, EndIdle, Failing

(* A fiber that runs goes on until it completes its Deferred, or is ended  *)
(* by a cancel that fails it.                                              *)
LEMMA FiberGoesOn ==
  ASSUME TypeOK, Inv, CallersNamed, [Next]_vars, NEW r \in Ops,
         fpc[r] \notin {"none", "ended"}, done[r] = "pending", done'[r] = "pending"
  PROVE  \/ fpc'[r] \notin {"none", "ended"}
         \/ \E k \in Ops : kind'[k] = "cancel" /\ held'[k].run = r /\ Failing(k)'
<1> USE RunnerAssumption DEF TypeOK, State, callVars, fiberVars, syncVars
<1>1. kind[r] = "run" /\ pc[r] # "awaitShell"
  BY DEF CallersNamed, Inv, CallsConsistent
<1>2. ASSUME NEW c \in Ops, Enter(c) \/ ForkShell(c) PROVE fpc'[r] = fpc[r] \/ fpc'[r] = "forked"
  BY <1>2 DEF Enter, EnsureRunning, JoinRun, QueueRun, StartRun, StartShell, RejectShell, EnterShell, Cancel,
              ForkShell, Fork
<1>3. ASSUME NEW c \in Ops, CancelInterrupts(c), fpc'[r] # fpc[r]
      PROVE  \E k \in Ops : kind'[k] = "cancel" /\ held'[k].run = r /\ Failing(k)'
  <2>1. kind[c] = "cancel" /\ Target(c) = r /\ pc'[c] = "awaitExit" /\ UNCHANGED <<kind, held>>
    BY <1>3 DEF CancelInterrupts, InterruptFiber, Goto, Inv, CallsConsistent, CancelPCs
  <2>2. held[c].shell = NoOp
    BY <1>1, <2>1 DEF Target, Inv, HeldNamed
  <2> QED
    BY <2>1, <2>2 DEF Target, Failing
<1>4. ASSUME NEW c \in Ops, CallStep(c), ~CancelInterrupts(c) PROVE fpc' = fpc
  BY <1>4 DEF CallStep, AwaitDone, AwaitShell, AwaitReady, CancelAwaitsExit, CancelFailsDone, IdleIfCurrent
<1>5. ASSUME NEW c \in Ops, Abandon(c) PROVE fpc'[r] = fpc[r]
  BY <1>1, <1>5 DEF Abandon, InterruptFiber
<1>6. ASSUME NEW f \in Ops, FiberStep(f) PROVE fpc'[r] \notin {"none", "ended"}
  <2>1. CASE FiberStarts(f) \/ ShellReady(f) \/ FinishRun(f)
    BY <2>1 DEF FiberStarts, ShellReady, FinishRun, FiberGoto
  <2>2. CASE FinishShell(f)
    BY <1>1, <2>2 DEF FinishShell
  <2>3. CASE CompleteRun(f)
    BY <2>3 DEF CompleteRun, FiberGoto, Complete, Outcome
  <2> QED
    BY <1>6, <2>1, <2>2, <2>3 DEF FiberStep
<1>7. ASSUME NEW c \in Ops, Work(c) \/ BeginIdle(c) \/ EndIdle(c) PROVE fpc'[r] \notin {"none", "ended"}
  BY <1>1, <1>7 DEF Work, WorkExits, BeginIdle, EndIdle, CancelBeginsIdle, CancelEndsIdle, FiberBeginsIdle,
              FiberEndsIdle, FiberGoto
<1>8. ASSUME UNCHANGED vars PROVE fpc' = fpc
  BY <1>8 DEF vars
<1> QED
  BY <1>2, <1>3, <1>4, <1>5, <1>6, <1>7, <1>8 DEF Next

(* A queued run stays in the ref until it is started or a cancel takes it. *)
LEMMA QueuedGoesOn ==
  ASSUME TypeOK, Inv, [Next]_vars, NEW r \in Ops, Queued(r)
  PROVE  \/ fpc'[r] \notin {"none", "ended"}
         \/ Queued(r)'
         \/ \E k \in Ops : kind'[k] = "cancel" /\ held'[k].run = r /\ Failing(k)'
<1> USE RunnerAssumption DEF TypeOK, State, callVars, fiberVars, syncVars
<1>1. PICK p \in Objs : state[p].run = r /\ state[p].shell # NoOp
  BY DEF Queued
<1>2. ASSUME NEW c \in Ops, NEW o \in Objs, EnsureRunning(c, o) \/ StartShell(c, o) PROVE state'[p] = state[p]
  BY <1>1, <1>2 DEF EnsureRunning, JoinRun, QueueRun, StartRun, StartShell, RejectShell, EnterShell, Idle
<1>3. ASSUME NEW c \in Ops, NEW o \in Objs, Cancel(c, o), o # p PROVE state'[p] = state[p]
  BY <1>3 DEF Cancel
<1>4. ASSUME NEW c \in Ops, Cancel(c, p) PROVE kind'[c] = "cancel" /\ held'[c].run = r /\ Failing(c)'
  BY <1>1, <1>4 DEF Cancel, Call, Idle, Failing
<1>5. ASSUME NEW c \in Ops, ForkShell(c) PROVE state'[p] = state[p]
  BY <1>1, <1>5 DEF ForkShell, Inv, CallsConsistent, Idle
<1>6. ASSUME NEW c \in Ops, CallStep(c) \/ Abandon(c) PROVE state' = state
  BY <1>6 DEF CallStep, AwaitDone, AwaitShell, AwaitReady, CancelInterrupts, CancelAwaitsExit, CancelFailsDone,
              IdleIfCurrent, Abandon
<1>7. ASSUME NEW f \in Ops, FinishRun(f) PROVE state'[p] = state[p]
  BY <1>1, <1>7 DEF FinishRun, Running
<1>8. ASSUME NEW f \in Ops, FinishShell(f) PROVE state'[p] = state[p] \/ fpc'[r] = "forked"
  <2>1. CASE obj[f] = p /\ state[p].shell = f
    BY <1>1, <1>8, <2>1 DEF FinishShell, Shell
  <2>2. CASE obj[f] # p \/ state[p].shell # f
    BY <1>8, <2>2 DEF FinishShell, Shell
  <2> QED
    BY <2>1, <2>2
<1>9. ASSUME NEW c \in Ops, FiberStarts(c) \/ ShellReady(c) \/ CompleteRun(c) \/ Work(c) \/ BeginIdle(c) \/ EndIdle(c)
      PROVE  state' = state
  BY <1>9 DEF FiberStarts, ShellReady, CompleteRun, Work, WorkExits, BeginIdle, EndIdle, CancelBeginsIdle,
              CancelEndsIdle, FiberBeginsIdle, FiberEndsIdle
<1>10. ASSUME UNCHANGED vars PROVE state' = state
  BY <1>10 DEF vars
<1>11. state'[p] = state[p] => Queued(r)'
  BY <1>1 DEF Queued
<1> QED
  BY <1>2, <1>3, <1>4, <1>5, <1>6, <1>7, <1>8, <1>9, <1>10, <1>11 DEF Next, Enter, FiberStep

(* A run becomes pending when it is forked or queued. *)
LEMMA PendingBegins ==
  ASSUME TypeOK, Inv, [Next]_vars, NEW r \in Ops, done[r] # "pending", done'[r] = "pending"
  PROVE  fpc'[r] = "forked" \/ Queued(r)'
<1> USE RunnerAssumption DEF TypeOK, State, callVars, fiberVars, syncVars
<1>1. ASSUME NEW c \in Ops, NEW o \in Objs, QueueRun(c, o) \/ StartRun(c, o)
      PROVE  fpc'[r] = "forked" \/ Queued(r)'
  BY <1>1 DEF QueueRun, StartRun, MakeDone, Fork, Queued, ShellThenRun
<1>2. ASSUME NEW c \in Ops, NEW o \in Objs, JoinRun(c, o) \/ StartShell(c, o) \/ Cancel(c, o) PROVE FALSE
  BY <1>2 DEF JoinRun, StartShell, RejectShell, EnterShell, Cancel
<1>3. ASSUME NEW c \in Ops, CallStep(c) PROVE FALSE
  BY <1>3 DEF CallStep, AwaitDone, AwaitShell, AwaitReady, CancelInterrupts, CancelAwaitsExit, CancelFailsDone,
              Complete, IdleIfCurrent
<1>4. ASSUME NEW c \in Ops, ForkShell(c) \/ Abandon(c) \/ Work(c) \/ BeginIdle(c) \/ EndIdle(c) PROVE FALSE
  BY <1>4 DEF ForkShell, Abandon, Work, WorkExits, BeginIdle, EndIdle, CancelBeginsIdle, CancelEndsIdle,
              FiberBeginsIdle, FiberEndsIdle
<1>5. ASSUME NEW f \in Ops, FiberStep(f) PROVE FALSE
  BY <1>5 DEF FiberStep, FiberStarts, ShellReady, FinishRun, FinishShell, CompleteRun, Complete
<1>6. ~UNCHANGED vars
  BY DEF vars
<1> QED
  BY <1>1, <1>2, <1>3, <1>4, <1>5, <1>6 DEF Next, Enter, EnsureRunning

(* Whoever awaits a run will be answered: RunsAnswered is inductive. *)
LEMMA AnsweredNext ==
  ASSUME TypeOK, Inv, CallersNamed, RunsAnswered, [Next]_vars
  PROVE  RunsAnswered'
<1> SUFFICES ASSUME NEW r \in Ops, done'[r] = "pending"
             PROVE  \/ fpc'[r] \notin {"none", "ended"}
                    \/ Queued(r)'
                    \/ \E k \in Ops : kind'[k] = "cancel" /\ held'[k].run = r /\ Failing(k)'
  BY DEF RunsAnswered
<1>1. CASE done[r] # "pending"
  BY <1>1, PendingBegins
<1>2. CASE done[r] = "pending" /\ fpc[r] \notin {"none", "ended"}
  BY <1>2, FiberGoesOn
<1>3. CASE Queued(r)
  BY <1>3, QueuedGoesOn
<1>4. ASSUME NEW k \in Ops, kind[k] = "cancel", held[k].run = r, Failing(k)
      PROVE  kind'[k] = "cancel" /\ held'[k].run = r /\ Failing(k)'
  BY <1>4, FailingStays
<1> QED
  BY <1>1, <1>2, <1>3, <1>4 DEF RunsAnswered

(* Only a cancel interrupts a fiber, or the end of its shell's caller, and *)
(* an Exit is there from the end of the work on.                           *)
LEMMA ExitsNext ==
  ASSUME TypeOK, Inv, CallersNamed, ExitsStand, [Next]_vars
  PROVE  ExitsStand'
<1> USE RunnerAssumption DEF TypeOK, State, Exits, callVars, fiberVars, syncVars
<1>1. \A f \in Ops : (Detached(f) => Detached(f)') /\ (Orphaned(f) => Orphaned(f)')
  BY CallsKeep
<1>2. ASSUME UNCHANGED <<exit, signal, marked>>,
             \A f \in Ops : (fpc'[f] \in {"none", "forked", "working"}) <=> (fpc[f] \in {"none", "forked", "working"})
      PROVE  ExitsStand'
  BY <1>1, <1>2 DEF ExitsStand
<1>3. ASSUME NEW f \in Ops, InterruptFiber(f), UNCHANGED marked, Detached(f)' \/ Orphaned(f)' PROVE ExitsStand'
  BY <1>1, <1>3 DEF InterruptFiber, ExitsStand
<1>4. ASSUME NEW c \in Ops, NEW o \in Objs, JoinRun(c, o) \/ QueueRun(c, o) \/ StartShell(c, o) \/ Cancel(c, o)
      PROVE  ExitsStand'
  BY <1>2, <1>4 DEF JoinRun, QueueRun, StartShell, RejectShell, EnterShell, Cancel
<1>5. ASSUME NEW c \in Ops, NEW o \in Objs, StartRun(c, o) PROVE ExitsStand'
  <2>1. fpc[c] = "none"
    BY <1>5, FreshCall DEF StartRun, Call
  <2> QED
    BY <1>2, <1>5, <2>1 DEF StartRun, Fork
<1>6. ASSUME NEW c \in Ops, ForkShell(c) PROVE ExitsStand'
  <2>1. fpc[c] = "none"
    BY <1>6 DEF ForkShell, Inv, CallsConsistent
  <2> QED
    BY <1>2, <1>6, <2>1 DEF ForkShell, Fork
<1>7. ASSUME NEW c \in Ops, AwaitReady(c) PROVE ExitsStand'
  <2>1. kind[c] = "cancel" /\ UNCHANGED <<fpc, exit, signal>> /\ marked' = [marked EXCEPT ![held[c].shell] = TRUE]
    BY <1>7 DEF AwaitReady, Inv, CallsConsistent, CancelPCs
  <2>2. \A f \in Ops : marked'[f] => marked[f] \/ Detached(f)
    BY <2>1 DEF Detached
  <2> QED
    BY <1>1, <2>1, <2>2 DEF ExitsStand
<1>8. ASSUME NEW c \in Ops, CancelInterrupts(c) PROVE ExitsStand'
  <2>1. Target(c) \in Ops /\ Detached(Target(c))
    BY <1>8 DEF CancelInterrupts, Goto, Inv, CallsConsistent, CancelPCs, Target, Detached, Idle
  <2> QED
    BY <1>1, <1>3, <1>8, <2>1 DEF CancelInterrupts
<1>9. ASSUME NEW c \in Ops, CallStep(c), ~AwaitReady(c), ~CancelInterrupts(c) PROVE ExitsStand'
  BY <1>2, <1>9 DEF CallStep, AwaitDone, AwaitShell, CancelAwaitsExit, CancelFailsDone, IdleIfCurrent
<1>10. ASSUME NEW c \in Ops, Abandon(c) PROVE ExitsStand'
  <2>1. CASE pc[c] = "awaitShell"
    <3>1. InterruptFiber(c) /\ UNCHANGED marked /\ kind'[c] = "shell" /\ ret'[c] = "abandoned"
      BY <1>10, <2>1 DEF Abandon, Return, Inv, CallsConsistent
    <3> QED
      BY <1>3, <3>1 DEF Orphaned
  <2>2. CASE pc[c] # "awaitShell"
    BY <1>2, <1>10, <2>2 DEF Abandon
  <2> QED
    BY <2>1, <2>2
<1>11. ASSUME NEW f \in Ops, FiberStarts(f) \/ ShellReady(f) \/ FinishRun(f) \/ CompleteRun(f) PROVE ExitsStand'
  BY <1>2, <1>11 DEF FiberStarts, ShellReady, FinishRun, CompleteRun, FiberGoto
<1>12. ASSUME NEW f \in Ops, FinishShell(f) PROVE ExitsStand'
  <2>1. \A r \in Ops : state[obj[f]].run = r /\ state[obj[f]].shell # NoOp => fpc[r] = "none"
    BY <1>12 DEF FinishShell, Inv, CallsConsistent, HandlesAlive
  <2> QED
    BY <1>2, <1>12, <2>1 DEF FinishShell
<1>13. ASSUME NEW f \in Ops, Work(f) PROVE ExitsStand'
  BY <1>1, <1>13 DEF Work, WorkExits, FiberGoto, ExitsStand
<1>14. ASSUME NEW c \in Ops, BeginIdle(c) \/ EndIdle(c) PROVE ExitsStand'
  BY <1>2, <1>14 DEF BeginIdle, EndIdle, CancelBeginsIdle, CancelEndsIdle, FiberBeginsIdle, FiberEndsIdle, FiberGoto
<1>15. ASSUME UNCHANGED vars PROVE ExitsStand'
  BY <1>2, <1>15 DEF vars
<1> QED
  BY <1>4, <1>5, <1>6, <1>7, <1>8, <1>9, <1>10, <1>11, <1>12, <1>13, <1>14, <1>15 DEF Next, Enter, EnsureRunning, FiberStep

(* An Exit is never replaced. *)
LEMMA ExitStays ==
  ASSUME TypeOK, ExitsStand, [Next]_vars, NEW f \in Ops, exit[f] # "none"
  PROVE  exit'[f] = exit[f]
<1> USE DEF TypeOK, callVars, fiberVars, syncVars
<1>1. fpc[f] \notin {"forked", "working"}
  BY DEF ExitsStand
<1>2. ASSUME NEW c \in Ops, Enter(c) \/ ForkShell(c) PROVE exit' = exit
  BY <1>2 DEF Enter, EnsureRunning, JoinRun, QueueRun, StartRun, StartShell, RejectShell, EnterShell, Cancel, ForkShell
<1>3. ASSUME NEW c \in Ops, CallStep(c) \/ Abandon(c) PROVE exit' = exit \/ \E g \in Ops \cup {NoOp} : InterruptFiber(g)
  BY <1>3 DEF State, CallStep, AwaitDone, AwaitShell, AwaitReady, CancelInterrupts, CancelAwaitsExit, CancelFailsDone,
              IdleIfCurrent, Abandon, Target
<1>4. ASSUME NEW g \in Ops \cup {NoOp}, InterruptFiber(g) PROVE exit'[f] = exit[f]
  BY <1>1, <1>4 DEF InterruptFiber
<1>5. ASSUME NEW g \in Ops, Work(g) PROVE exit'[f] = exit[f]
  BY <1>1, <1>5 DEF Work, WorkExits, FiberGoto
<1>6. ASSUME NEW g \in Ops, FiberStep(g) \/ BeginIdle(g) \/ EndIdle(g) PROVE exit' = exit
  BY <1>6 DEF FiberStep, FiberStarts, ShellReady, FinishRun, FinishShell, CompleteRun, BeginIdle, EndIdle,
              CancelBeginsIdle, CancelEndsIdle, FiberBeginsIdle, FiberEndsIdle
<1> QED
  BY <1>2, <1>3, <1>4, <1>5, <1>6 DEF Next, vars

(* A Deferred is completed with what the Exit says, or by a cancel. *)
LEMMA AnswersNext ==
  ASSUME TypeOK, Inv, CallersNamed, ExitsStand, AnswersTrue, [Next]_vars
  PROVE  AnswersTrue'
<1> USE RunnerAssumption DEF TypeOK, State, callVars, fiberVars, syncVars
<1>1. \A r \in Ops : (Detached(r) => Detached(r)') /\ (exit[r] # "none" => exit'[r] = exit[r])
  BY CallsKeep, ExitStays
<1>2. ASSUME \A r \in Ops : done'[r] = done[r] \/ done'[r] = "pending" PROVE AnswersTrue'
  BY <1>1, <1>2 DEF AnswersTrue
<1>3. ASSUME NEW c \in Ops, Enter(c) \/ ForkShell(c) \/ Abandon(c) \/ Work(c) \/ BeginIdle(c) \/ EndIdle(c)
      PROVE  AnswersTrue'
  BY <1>2, <1>3 DEF Enter, EnsureRunning, JoinRun, QueueRun, StartRun, StartShell, RejectShell, EnterShell, Cancel,
                    MakeDone, ForkShell, Abandon, Work, WorkExits, BeginIdle, EndIdle, CancelBeginsIdle,
                    CancelEndsIdle, FiberBeginsIdle, FiberEndsIdle
<1>4. ASSUME NEW c \in Ops, CancelFailsDone(c) PROVE AnswersTrue'
  <2>1. kind[c] = "cancel" /\ UNCHANGED exit
    BY <1>4 DEF CancelFailsDone, Goto, Inv, CallsConsistent, CancelPCs
  <2>2. \A r \in Ops : done'[r] = done[r] \/ (done'[r] = "cancelled" /\ Detached(r))
    BY <1>4, <2>1 DEF CancelFailsDone, Complete, Detached
  <2> QED
    BY <1>1, <2>1, <2>2 DEF AnswersTrue
<1>5. ASSUME NEW c \in Ops, CallStep(c), ~CancelFailsDone(c) PROVE AnswersTrue'
  BY <1>2, <1>5 DEF CallStep, AwaitDone, AwaitShell, AwaitReady, CancelInterrupts, CancelAwaitsExit, IdleIfCurrent
<1>6. ASSUME NEW f \in Ops, CompleteRun(f) PROVE AnswersTrue'
  <2>1. kind[f] = "run" /\ exit[f] # "none" /\ fpc[f] = "complete"
    BY <1>6 DEF CompleteRun, FiberGoto, CallersNamed, ExitsStand
  <2>2. \A r \in Ops : done'[r] = done[r] \/ (r = f /\ done'[r] = Outcome(exit[f]))
    BY <1>6 DEF CompleteRun, Complete
  <2>3. exit[f] = "interrupted" => Detached(f)
    BY <2>1 DEF ExitsStand, Orphaned
  <2>4. exit'[f] = exit[f]
    BY <1>6 DEF CompleteRun
  <2>5. \/ exit[f] = "success" /\ Outcome(exit[f]) = "success"
        \/ exit[f] = "interrupted" /\ Outcome(exit[f]) = "cancelled"
        \/ exit[f] \in {"failure", "mixed"} /\ Outcome(exit[f]) = "failure"
    BY <2>1 DEF Outcome, Exits
  <2> QED
    BY <1>1, <2>2, <2>3, <2>4, <2>5 DEF AnswersTrue
<1>7. ASSUME NEW f \in Ops, FiberStep(f), ~CompleteRun(f) PROVE AnswersTrue'
  BY <1>2, <1>7 DEF FiberStep, FiberStarts, ShellReady, FinishRun, FinishShell
<1>8. ASSUME UNCHANGED vars PROVE AnswersTrue'
  BY <1>2, <1>8 DEF vars
<1> QED
  BY <1>3, <1>4, <1>5, <1>6, <1>7, <1>8 DEF Next

(* A call that has its answer keeps it, and only awaitDone and the waiting *)
(* for a shell answer with an outcome.                                     *)
LEMMA CallAnswers ==
  ASSUME TypeOK, Inv, [Next]_vars, NEW c \in Ops
  PROVE  /\ pc[c] = "returned" => ret'[c] = ret[c]
         /\ pc[c] # "returned" => AwaitDone(c) \/ AwaitShell(c) \/ ret'[c] \in {"none", "busy", "ok", "abandoned"}
<1> USE DEF TypeOK, callVars, fiberVars, syncVars
<1>1. pc[c] # "returned" => ret[c] = "none"
  BY DEF Inv, CallsConsistent
<1>2. ASSUME ret'[c] = ret[c] PROVE pc[c] # "returned" => ret'[c] = "none"
  BY <1>1, <1>2
<1>3. ASSUME NEW d \in Ops, Enter(d)
      PROVE  ret'[c] = ret[c] \/ (pc[c] # "returned" /\ ret'[c] \in {"none", "busy", "ok"})
  BY <1>3 DEF Enter, EnsureRunning, JoinRun, QueueRun, StartRun, StartShell, RejectShell, EnterShell, Cancel, Call
<1>4. ASSUME NEW d \in Ops, AwaitDone(d) \/ AwaitShell(d)
      PROVE  ret'[c] = ret[c] \/ (pc[c] # "returned" /\ (AwaitDone(c) \/ AwaitShell(c)))
  BY <1>4 DEF AwaitDone, AwaitShell, Return, Goto
<1>5. ASSUME NEW d \in Ops, CallStep(d), ~AwaitDone(d), ~AwaitShell(d)
      PROVE  ret'[c] = ret[c] \/ (pc[c] # "returned" /\ ret'[c] = "ok")
  BY <1>5 DEF CallStep, AwaitReady, CancelInterrupts, CancelAwaitsExit, CancelFailsDone, IdleIfCurrent, Return, Goto
<1>6. ASSUME NEW d \in Ops, Abandon(d) \/ BeginIdle(d) \/ EndIdle(d)
      PROVE  ret'[c] = ret[c] \/ (pc[c] # "returned" /\ ret'[c] \in {"ok", "abandoned"})
  BY <1>6 DEF Abandon, BeginIdle, EndIdle, CancelBeginsIdle, CancelEndsIdle, FiberBeginsIdle, FiberEndsIdle,
              Return, Goto
<1>7. ASSUME NEW d \in Ops, ForkShell(d) \/ FiberStep(d) \/ Work(d) PROVE ret' = ret
  BY <1>7 DEF ForkShell, FiberStep, FiberStarts, ShellReady, FinishRun, FinishShell, CompleteRun, Work, WorkExits
<1>8. ASSUME UNCHANGED vars PROVE ret' = ret
  BY <1>8 DEF vars
<1> QED
  BY <1>2, <1>3, <1>4, <1>5, <1>6, <1>7, <1>8 DEF Next

(* A call that ends reads its Deferred, or the Exit of its shell. *)
LEMMA OutcomesNext ==
  ASSUME TypeOK, Inv, CallersNamed, ExitsStand, AnswersTrue, OutcomesTrue, [Next]_vars
  PROVE  OutcomesTrue'
<1> USE RunnerAssumption DEF TypeOK, State, callVars, fiberVars, syncVars
<1> DEFINE work(c) == IF kind[c] = "run" THEN held[c].run ELSE c
<1>1. \A r \in Ops : (Detached(r) => Detached(r)') /\ (exit[r] # "none" => exit'[r] = exit[r])
  BY CallsKeep, ExitStays
<1>2. ASSUME NEW c \in Ops, pc[c] = "returned" PROVE work(c) \in Ops /\ work(c)' = work(c) /\ ret'[c] = ret[c]
  <2>1. kind[c] # "none"
    BY <1>2 DEF Inv, CallsConsistent
  <2>2. kind'[c] = kind[c] /\ held'[c] = held[c]
    BY <2>1, CallsKeep
  <2>3. work(c) \in Ops
    BY DEF CallersNamed
  <2>4. ret'[c] = ret[c]
    BY <1>2, CallAnswers
  <2> QED
    BY <2>2, <2>3, <2>4
<1> DEFINE Honest(c) == /\ ret'[c] = "success" => exit'[work(c)'] = "success"
                        /\ ret'[c] = "failure" => exit'[work(c)'] \in {"failure", "mixed"}
                        /\ ret'[c] = "interrupted" => \E r \in Ops : r = work(c)' /\ Detached(r)'
<1>3. ASSUME NEW c \in Ops, pc[c] = "returned" PROVE Honest(c)
  BY <1>1, <1>2, <1>3 DEF OutcomesTrue
<1>4. ASSUME NEW c \in Ops, ret'[c] \notin {"success", "failure", "interrupted"} PROVE Honest(c)
  BY <1>4
<1>5. ASSUME NEW c \in Ops, AwaitDone(c) PROVE Honest(c)
  <2>1. /\ kind[c] = "run" /\ held[c].run \in Ops
        /\ ret'[c] = IF done[held[c].run] = "cancelled" THEN "interrupted" ELSE done[held[c].run]
        /\ UNCHANGED <<kind, obj, held, exit>>
    BY <1>5 DEF AwaitDone, Return, Goto, CallersNamed
  <2> QED
    BY <1>1, <2>1 DEF AnswersTrue
<1>6. ASSUME NEW c \in Ops, AwaitShell(c) PROVE Honest(c)
  <2>1. /\ kind[c] = "shell" /\ ret[c] # "abandoned" /\ fpc[c] = "ended" /\ UNCHANGED <<kind, obj, held, exit>>
        /\ ret'[c] = IF exit[c] = "success" THEN "success"
                     ELSE IF ShellInterrupted(c) THEN "interrupted" ELSE "failure"
    BY <1>6 DEF AwaitShell, Return, Goto, Inv, CallsConsistent
  <2>2. exit[c] # "none" /\ (ShellInterrupted(c) => Detached(c))
    BY <2>1 DEF ExitsStand, ShellInterrupted, Orphaned
  <2>3. ret'[c] = "failure" => exit[c] \in {"failure", "mixed"}
    BY <2>1, <2>2 DEF ShellInterrupted, Exits
  <2> QED
    BY <1>1, <2>1, <2>2, <2>3
<1>7. ASSUME NEW c \in Ops, pc[c] # "returned" PROVE Honest(c)
  BY <1>4, <1>5, <1>6, <1>7, CallAnswers
<1>8. \A c \in Ops : pc'[c] = "returned" => Honest(c)
  BY <1>3, <1>7
<1> QED
  BY <1>8 DEF OutcomesTrue

(* The invariants of the callers hold in every reachable state. *)
LEMMA CallersInvariance == Spec => []CallersInv
<1>1. TypeOK /\ Inv /\ CallersInv /\ [Next]_vars => CallersInv'
  BY NamedNext, AnsweredNext, ExitsNext, AnswersNext, OutcomesNext DEF CallersInv
<1> QED
  BY <1>1, CallersInit, Invariance, PTL DEF Spec

(* No caller awaits a Deferred that nobody will complete, unless a call    *)
(* that was to complete it was interrupted itself (runner.ts 52-68,        *)
(* 108-138, 171-202).                                                      *)
THEOREM CallersAnswered == Spec => []NoStrandedCaller
<1>1. TypeOK /\ Inv /\ CallersInv => NoStrandedCaller
  <2> SUFFICES ASSUME TypeOK, Inv, CallersInv, NEW c \in Ops, pc[c] = "awaitDone", done[held[c].run] = "pending",
                      fpc[held[c].run] \in {"none", "ended"},
                      ~\E k \in Ops : kind[k] = "cancel" /\ held[k].run = held[c].run /\ Failing(k)
               PROVE  LET r == held[c].run  st == state[obj[held[c].run]] IN
                        st.run = r /\ st.shell # NoOp /\ (Unfinished(st.shell) \/ Orphaned(st.shell))
    BY DEF NoStrandedCaller, Failing
  <2>1. held[c].run \in Ops /\ Queued(held[c].run)
    BY DEF TypeOK, CallersInv, RunsAnswered
  <2>2. PICK o \in Objs : state[o].run = held[c].run /\ state[o].shell # NoOp
    BY <2>1 DEF Queued
  <2>3. obj[held[c].run] = o /\ (Unfinished(state[o].shell) \/ Orphaned(state[o].shell))
    BY <2>1, <2>2, RunnerAssumption DEF Inv, HandlesNamed, HandlesAlive
  <2> QED
    BY <2>2, <2>3
<1> QED
  BY <1>1, Invariance, CallersInvariance, PTL

(* Callers hear the truth about the work they share (runner.ts 52-60,      *)
(* 140-169): how it ended, or that a cancel stopped it.                    *)
THEOREM HonestOutcomes == Spec => []OutcomesTrue
  BY CallersInvariance, PTL DEF CallersInv
-------------------------------------------------------------------------------
(* Runner implements WorkSlot.  What the slot holds is what the ref names: *)
(* each step of a Runner either leaves every phase as it is or is one of   *)
(* Start, Queue, Finish and CancelSlot.                                    *)

(* The handles of the ref are the work that is active and queued. *)
LEMMA SlotHolds ==
  ASSUME TypeOK, Inv, NEW o \in Objs
  PROVE  /\ Slot!In(o, "active") = {w \in Ops : state[o].shell = w \/ state[o] = Running(w)}
         /\ Slot!In(o, "queued") = {w \in Ops : state[o].shell # NoOp /\ state[o].run = w}
<1> USE RunnerAssumption DEF TypeOK, State
<1>1. ASSUME NEW w \in Ops PROVE
        /\ (Phase(w) = "active" /\ obj[w] = o) <=> (state[o].shell = w \/ state[o] = Running(w))
        /\ (Phase(w) = "queued" /\ obj[w] = o) <=> (state[o].shell # NoOp /\ state[o].run = w)
  <2>1. state[o].shell = w \/ state[o].run = w => obj[w] = o /\ ~Detached(w)
    BY DEF Inv, HandlesNamed
  <2>2. state[o].shell = w => state[o].run # w
    BY DEF Inv, HandlesNamed
  <2> QED
    BY <2>1, <2>2 DEF Phase, Current, Running
<1>2. ASSUME NEW p \in {"active", "queued"} PROVE Slot!In(o, p) = {w \in Ops : Phase(w) = p /\ obj[w] = o}
  BY DEF Slot!In, Submitted
<1>3. Slot!In(o, "active") = {w \in Ops : state[o].shell = w \/ state[o] = Running(w)}
  BY <1>1, <1>2
<1>4. Slot!In(o, "queued") = {w \in Ops : state[o].shell # NoOp /\ state[o].run = w}
  BY <1>1, <1>2
<1> QED
  BY <1>3, <1>4

(* A step changes nothing in the slot if no phase changes. *)
LEMMA SlotStutters ==
  ASSUME \A w \in Ops : Phase(w)' = Phase(w),
         \A w \in Ops : Phase(w) # "new" => obj'[w] = obj[w]
  PROVE  UNCHANGED Slot!slotVars
<1>1. \A w \in Ops : Submitted(w)' <=> Submitted(w)
  BY DEF Submitted
<1> QED
  BY <1>1 DEF Slot!slotVars, Submitted

(* The ref, the handles and the fibers that exist make up the phases. *)
LEMMA QuietPhases ==
  ASSUME TypeOK, UNCHANGED <<state, kind, obj, held>>, \A w \in Ops : fpc'[w] = "none" <=> fpc[w] = "none"
  PROVE  UNCHANGED Slot!slotVars
<1>1. \A w \in Ops : (Detached(w)' <=> Detached(w)) /\ (Current(w)' <=> Current(w))
  BY DEF Detached, Current, Running
<1>2. \A w \in Ops : Phase(w)' = Phase(w)
  BY <1>1 DEF Phase
<1> QED
  BY <1>2, SlotStutters

(* A caller that joins a run, is rejected or waits for the hook submits    *)
(* nothing.                                                                *)
LEMMA JoinStutters ==
  ASSUME TypeOK, Inv, NEW c \in Ops, NEW o \in Objs, JoinRun(c, o) \/ RejectShell(c, o) \/ EnterShell(c, o)
  PROVE  UNCHANGED Slot!slotVars
<1> USE RunnerAssumption DEF TypeOK, State, fiberVars
<1>1. PICK op, next, st :
         op \in {"run", "shell"} /\ Call(c, o, op, next, st) /\ UNCHANGED <<state, fpc>>
  BY DEF JoinRun, RejectShell, EnterShell
<1>2. \A w \in Ops : Detached(w)' <=> Detached(w)
  BY <1>1, CallDetachesNothing
<1>3. fpc[c] = "none" /\ ~Detached(c) /\ \A p \in Objs : state[p].run # c /\ state[p].shell # c
  BY <1>1, FreshCall DEF Call
<1>4. Phase(c) = "new" /\ Phase(c)' = "new"
  BY <1>1, <1>2, <1>3 DEF Phase, Current, Running, Call
<1>5. \A w \in Ops : w # c => obj'[w] = obj[w]
  BY <1>1 DEF Call
<1>6. \A w \in Ops : w # c => Phase(w)' = Phase(w)
  BY <1>1, <1>2, <1>5 DEF Phase, Current, Running
<1> QED
  BY <1>4, <1>5, <1>6, SlotStutters

(* Work that is submitted changes its own phase and slot. *)
LEMMA SubmitsOne ==
  ASSUME NEW c \in Ops, NEW o, NEW p, Phase(c)' = p, p # "new", obj'[c] = o,
         \A w \in Ops \ {c} : Phase(w)' = Phase(w) /\ obj'[w] = obj[w]
  PROVE  /\ [w \in Ops |-> Phase(w)]' = [[w \in Ops |-> Phase(w)] EXCEPT ![c] = p]
         /\ [w \in Ops |-> IF Submitted(w) THEN obj[w] ELSE NoOp]'
              = [[w \in Ops |-> IF Submitted(w) THEN obj[w] ELSE NoOp] EXCEPT ![c] = o]
<1>1. \A w \in Ops : Submitted(w)' <=> w = c \/ Submitted(w)
  BY DEF Submitted
<1> QED
  BY <1>1

(* A run that is started and a shell that is forked enter an empty slot, a *)
(* run that is queued enters one that is not.                              *)
LEMMA StepsSubmit ==
  ASSUME TypeOK, Inv, NEW c \in Ops, NEW o \in Objs,
         \/ StartRun(c, o) \/ QueueRun(c, o)
         \/ ForkShell(c) /\ o = obj[c]
  PROVE  Slot!Start(c, o) \/ Slot!Queue(c, o)
<1> USE RunnerAssumption DEF TypeOK, State, fiberVars
<1>1. CASE StartRun(c, o) \/ QueueRun(c, o)
  <2>1. /\ Call(c, o, "run", "awaitDone", Running(c)) /\ state[o].run = NoOp
        /\ state' = [state EXCEPT ![o] = [run |-> c, shell |-> state[o].shell]]
        /\ \A w \in Ops : w # c => fpc'[w] = fpc[w]
    BY <1>1 DEF StartRun, QueueRun, Running, ShellThenRun, Idle, Fork
  <2>2. \A w \in Ops : Detached(w)' <=> Detached(w)
    BY <2>1, CallDetachesNothing
  <2>3. fpc[c] = "none" /\ ~Detached(c) /\ \A p \in Objs : state[p].run # c /\ state[p].shell # c
    BY <2>1, FreshCall DEF Call
  <2>4. obj' = [obj EXCEPT ![c] = o]
    BY <2>1 DEF Call
  <2>5. Phase(c) = "new"
    BY <2>3 DEF Phase, Current, Running
  <2>6. Phase(c)' = IF state[o].shell = NoOp THEN "active" ELSE "queued"
    BY <2>1, <2>2, <2>3, <2>4 DEF Phase, Current, Running
  <2>7. ASSUME NEW w \in Ops, w # c PROVE Phase(w)' = Phase(w) /\ obj'[w] = obj[w]
    <3>1. (Current(w)' <=> Current(w)) /\ (obj[w] \in Objs => (state'[obj[w]].run = w <=> state[obj[w]].run = w))
      BY <2>1, <2>4, <2>7 DEF Current, Running
    <3> QED
      BY <2>1, <2>2, <2>4, <2>7, <3>1 DEF Phase
  <2>8. Slot!In(o, "active") = {} <=> state[o].shell = NoOp
    <3>1. Slot!In(o, "active") = {w \in Ops : state[o].shell = w \/ state[o] = Running(w)}
      BY SlotHolds
    <3>2. \A w \in Ops : state[o] # Running(w)
      BY <2>1 DEF Running
    <3>3. state[o].shell \in Ops \cup {NoOp} /\ NoOp \notin Ops
      OBVIOUS
    <3>4. ASSUME state[o].shell = NoOp PROVE Slot!In(o, "active") = {}
      BY <3>1, <3>2, <3>3, <3>4
    <3>5. ASSUME state[o].shell # NoOp PROVE state[o].shell \in Slot!In(o, "active")
      BY <3>1, <3>3, <3>5
    <3> QED
      BY <3>4, <3>5
  <2>9. Slot!In(o, "queued") = {}
    BY <2>1, SlotHolds
  <2>10. obj'[c] = o
    BY <2>4
  <2>11. CASE state[o].shell = NoOp
    <3>1. Phase(c)' = "active" /\ Slot!In(o, "active") = {}
      BY <2>6, <2>8, <2>11
    <3> QED
      BY <2>5, <2>7, <2>10, <3>1, SubmitsOne DEF Slot!Start
  <2>12. CASE state[o].shell # NoOp
    BY <2>5, <2>6, <2>7, <2>8, <2>9, <2>10, <2>12, SubmitsOne DEF Slot!Queue
  <2> QED
    BY <2>11, <2>12
<1>2. CASE ForkShell(c) /\ o = obj[c]
  <2>1. /\ state[o] = Idle /\ state' = [state EXCEPT ![o] = Shell(c)] /\ fpc[c] = "none"
        /\ UNCHANGED <<kind, obj, held>> /\ \A w \in Ops : w # c => fpc'[w] = fpc[w]
    BY <1>2 DEF ForkShell, Fork, Inv, CallsConsistent
  <2>2. \A w \in Ops : Detached(w)' <=> Detached(w)
    BY <2>1 DEF Detached
  <2>3. ~Detached(c)
    BY <1>2 DEF ForkShell, Inv, HeldNamed, CallsConsistent, Detached
  <2>4. Phase(c) = "new" /\ Phase(c)' = "active"
    BY <1>2, <2>1, <2>2, <2>3 DEF Phase, Current, Running, Idle, Shell
  <2>5. ASSUME NEW w \in Ops, w # c PROVE Phase(w)' = Phase(w)
    <3>1. (Current(w)' <=> Current(w)) /\ (obj[w] \in Objs => (state'[obj[w]].run = w <=> state[obj[w]].run = w))
      BY <2>1, <2>5 DEF Current, Running, Idle, Shell
    <3> QED
      BY <2>1, <2>2, <2>5, <3>1 DEF Phase
  <2>6. Slot!In(o, "active") = {}
    BY <2>1, SlotHolds DEF Running, Idle
  <2> QED
    BY <1>2, <2>1, <2>4, <2>5, <2>6, SubmitsOne DEF Slot!Start
<1> QED
  BY <1>1, <1>2

(* cancel empties the slot. *)
LEMMA StepCancels ==
  ASSUME TypeOK, Inv, NEW c \in Ops, NEW o \in Objs, Cancel(c, o)
  PROVE  Slot!CancelSlot(o)
<1> USE RunnerAssumption DEF TypeOK, State
<1>1. /\ pc[c] = "ready" /\ kind' = [kind EXCEPT ![c] = "cancel"] /\ obj' = [obj EXCEPT ![c] = o]
      /\ held' = [held EXCEPT ![c] = state[o]] /\ state' = [state EXCEPT ![o] = Idle] /\ UNCHANGED fpc
  BY DEF Cancel, Call, fiberVars
<1>2. \A w \in Ops : Detached(w)' <=> Detached(w) \/ w = state[o].run \/ w = state[o].shell
  BY <1>1, FreshCall DEF Detached
<1>3. fpc[c] = "none" /\ ~Detached(c) /\ \A p \in Objs : state[p].run # c /\ state[p].shell # c
  BY <1>1, FreshCall
<1>4. \A w \in Ops : w \in Slot!In(o, "active") \cup Slot!In(o, "queued") <=> w = state[o].run \/ w = state[o].shell
  BY SlotHolds DEF Running
<1>5. Phase(c) = "new" /\ Phase(c)' = "new"
  BY <1>1, <1>2, <1>3 DEF Phase, Current, Running, Idle
<1>6. ASSUME NEW w \in Ops, w # c, w # state[o].run, w # state[o].shell PROVE Phase(w)' = Phase(w)
  <2>1. obj'[w] = obj[w] /\ (Detached(w)' <=> Detached(w))
    BY <1>1, <1>2, <1>6
  <2>2. obj[w] \in Objs => (Current(w)' <=> Current(w)) /\ (state'[obj[w]].run = w <=> state[obj[w]].run = w)
    BY <1>1, <1>6 DEF Current, Running, Idle
  <2> QED
    BY <1>1, <2>1, <2>2 DEF Phase
<1>7. ASSUME NEW w \in Ops, w = state[o].run \/ w = state[o].shell PROVE Phase(w)' = "cancelled" /\ Phase(w) # "new"
  <2>1. ~Detached(w) /\ obj[w] = o
    BY <1>7 DEF Inv, HandlesNamed
  <2> QED
    BY <1>2, <1>7, <2>1 DEF Phase, Current, Running
<1>8. \A w \in Ops : w # c => obj'[w] = obj[w]
  BY <1>1
<1> QED
  BY <1>3, <1>4, <1>5, <1>6, <1>7, <1>8 DEF Slot!CancelSlot, Submitted

(* Active work that ends leaves the slot to what is queued. *)
LEMMA StepFinishes ==
  ASSUME TypeOK, Inv, NEW f \in Ops, NEW o \in Objs, obj[f] = o, state[o].shell = f \/ state[o] = Running(f),
         state' = [state EXCEPT ![o] = IF state[o].shell = NoOp \/ state[o].run = NoOp
                                       THEN Idle ELSE Running(state[o].run)],
         UNCHANGED <<kind, obj, held>>, fpc'[f] # "none",
         \A w \in Ops : w # f /\ w # state[o].run => fpc'[w] = fpc[w]
  PROVE  Slot!Finish(f)
<1> USE RunnerAssumption DEF TypeOK, State
<1>1. \A w \in Ops : Detached(w)' <=> Detached(w)
  BY DEF Detached
<1>2. ~Detached(f) /\ Phase(f) = "active"
  BY DEF Inv, HandlesNamed, Phase, Current, Running
<1>3. Phase(f)' = "finished"
  <2>1. state'[o].run # f /\ state'[o].shell # f
    BY DEF Inv, HandlesNamed, Running, Idle
  <2> QED
    BY <1>1, <1>2, <2>1 DEF Phase, Current, Running
<1>4. ASSUME NEW w \in Ops, w \in Slot!In(o, "queued") PROVE w # f /\ Phase(w) = "queued" /\ Phase(w)' = "active"
  <2>1. state[o].shell # NoOp /\ state[o].run = w
    BY <1>4, SlotHolds
  <2>2. w # f /\ obj[w] = o /\ ~Detached(w)
    BY <2>1 DEF Inv, HandlesNamed, Running
  <2> QED
    BY <1>1, <2>1, <2>2 DEF Phase, Current, Running
<1>5. ASSUME NEW w \in Ops, w # f, w \notin Slot!In(o, "queued") PROVE Phase(w)' = Phase(w)
  <2>1. w # state[o].run
    BY <1>5, SlotHolds DEF Running
  <2>2. obj[w] \in Objs => (Current(w)' <=> Current(w)) /\ (state'[obj[w]].run = w <=> state[obj[w]].run = w)
    BY <1>5, <2>1 DEF Current, Running, Idle
  <2> QED
    BY <1>1, <1>5, <2>1, <2>2 DEF Phase
<1>6. Submitted(f) /\ Submitted(f)'
  BY <1>2, <1>3 DEF Submitted
<1> QED
  BY <1>2, <1>3, <1>4, <1>5, <1>6 DEF Slot!Finish, Submitted

(* Every step of a Runner is a step of the slot or leaves it alone. *)
LEMMA SlotNext == TypeOK /\ Inv /\ [Next]_vars => [Slot!Next]_(Slot!slotVars)
<1> SUFFICES ASSUME TypeOK, Inv, [Next]_vars PROVE Slot!Next \/ UNCHANGED Slot!slotVars
  OBVIOUS
<1> USE RunnerAssumption DEF TypeOK, State, callVars, fiberVars, syncVars
<1>1. ASSUME NEW c \in Ops, NEW o \in Objs, EnsureRunning(c, o) \/ StartShell(c, o) \/ Cancel(c, o)
      PROVE  Slot!Next \/ UNCHANGED Slot!slotVars
  BY <1>1, JoinStutters, StepsSubmit, StepCancels DEF EnsureRunning, StartShell, Slot!Next
<1>2. ASSUME NEW c \in Ops, ForkShell(c) PROVE Slot!Next \/ UNCHANGED Slot!slotVars
  <2>1. obj[c] \in Objs
    BY <1>2 DEF ForkShell, Inv, CallsConsistent
  <2> QED
    BY <1>2, <2>1, StepsSubmit DEF Slot!Next
<1>3. ASSUME NEW c \in Ops, CallStep(c) PROVE UNCHANGED Slot!slotVars
  BY <1>3, QuietPhases DEF CallStep, AwaitDone, AwaitShell, AwaitReady, CancelInterrupts, InterruptFiber,
                           CancelAwaitsExit, CancelFailsDone, IdleIfCurrent
<1>4. ASSUME NEW c \in Ops, Abandon(c) PROVE UNCHANGED Slot!slotVars
  <2>1. \A w \in Ops : fpc'[w] = "none" <=> fpc[w] = "none"
    BY <1>4 DEF Abandon, InterruptFiber
  <2> QED
    BY <1>4, <2>1, QuietPhases DEF Abandon
<1>5. ASSUME NEW f \in Ops, FiberStarts(f) \/ ShellReady(f) \/ CompleteRun(f) \/ Work(f) PROVE UNCHANGED Slot!slotVars
  BY <1>5, QuietPhases DEF FiberStarts, ShellReady, CompleteRun, Work, WorkExits, FiberGoto
<1>6. ASSUME NEW c \in Ops, BeginIdle(c) \/ EndIdle(c) PROVE UNCHANGED Slot!slotVars
  BY <1>6, QuietPhases DEF BeginIdle, EndIdle, CancelBeginsIdle, CancelEndsIdle, FiberBeginsIdle, FiberEndsIdle, FiberGoto
<1>7. ASSUME NEW f \in Ops, FinishRun(f) PROVE Slot!Next \/ UNCHANGED Slot!slotVars
  <2>1. obj[f] \in Objs /\ fpc[f] = "exited" /\ UNCHANGED <<kind, obj, held>>
    BY <1>7 DEF FinishRun, FiberGoto, Inv, CallsConsistent
  <2>2. CASE state[obj[f]] = Running(f)
    <3>1. state[obj[f]].shell = NoOp
      BY <2>2 DEF Running
    <3>2. Slot!Finish(f)
      BY <1>7, <2>1, <2>2, <3>1, StepFinishes DEF FinishRun, FiberGoto
    <3> QED
      BY <3>2 DEF Slot!Next
  <2>3. CASE state[obj[f]] # Running(f)
    BY <1>7, <2>1, <2>3, QuietPhases DEF FinishRun, FiberGoto
  <2> QED
    BY <2>2, <2>3
<1>8. ASSUME NEW f \in Ops, FinishShell(f) PROVE Slot!Next \/ UNCHANGED Slot!slotVars
  <2>1. obj[f] \in Objs /\ fpc[f] = "exited" /\ UNCHANGED <<kind, obj, held>>
    BY <1>8 DEF FinishShell, Inv, CallsConsistent
  <2>2. CASE state[obj[f]].shell = f
    <3>1. fpc'[f] # "none" /\ \A w \in Ops : w # f /\ w # state[obj[f]].run => fpc'[w] = fpc[w]
      BY <1>8, <2>1, <2>2 DEF FinishShell
    <3>2. state' = [state EXCEPT ![obj[f]] = IF state[obj[f]].shell = NoOp \/ state[obj[f]].run = NoOp
                                             THEN Idle ELSE Running(state[obj[f]].run)]
      BY <1>8, <2>1, <2>2 DEF FinishShell, Shell
    <3>3. Slot!Finish(f)
      BY <2>1, <2>2, <3>1, <3>2, StepFinishes
    <3> QED
      BY <3>3 DEF Slot!Next
  <2>3. CASE state[obj[f]].shell # f
    BY <1>8, <2>1, <2>3, QuietPhases DEF FinishShell, Shell
  <2> QED
    BY <2>2, <2>3
<1>9. ASSUME UNCHANGED vars PROVE UNCHANGED Slot!slotVars
  BY <1>9, QuietPhases DEF vars
<1> QED
  BY <1>1, <1>2, <1>3, <1>4, <1>5, <1>6, <1>7, <1>8, <1>9 DEF Next, Enter, FiberStep

(* A Runner is a slot in which work is active, queued, finished and        *)
(* cancelled as WorkSlot says: cancelled work never comes back, and the    *)
(* slot never holds two pieces of active work (runner.ts 70-205).          *)
THEOREM RunnerImplementsSlot == Spec => ImplementsSlot
<1>1. Init => Slot!Init
  BY RunnerAssumption DEF Init, Slot!Init, Phase, Submitted, Detached
<1> QED
  BY <1>1, SlotNext, Invariance, PTL DEF Spec, ImplementsSlot, Slot!Spec
===============================================================================
