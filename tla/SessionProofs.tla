---------------------------- MODULE SessionProofs ----------------------------
(* Theorems about SessionRunState, for any number of calls and of Runners. *)
EXTENDS SessionRunState, RunnerProofs

(* The steps of a session, told apart. *)
StepCases(c) ==
  \/ Lookup(c)
  \/ LookupCancel(c)
  \/ ResetStatus(c)
  \/ LoopShowsBusy(c)
  \/ (RunOrShell(c) /\ JoinRun(c, handle[c]))
  \/ (RunOrShell(c) /\ QueueRun(c, handle[c]))
  \/ (RunOrShell(c) /\ StartRun(c, handle[c]))
  \/ (RunOrShell(c) /\ RejectShell(c, handle[c]))
  \/ (RunOrShell(c) /\ EnterShell(c, handle[c]))
  \/ CancelRunner(c)
  \/ OnBusyEnds(c)
  \/ (RunnerInternal(c) /\ AwaitDone(c))
  \/ (RunnerInternal(c) /\ AwaitShell(c))
  \/ (RunnerInternal(c) /\ AwaitReady(c))
  \/ (RunnerInternal(c) /\ CancelInterrupts(c))
  \/ (RunnerInternal(c) /\ CancelAwaitsExit(c))
  \/ (RunnerInternal(c) /\ CancelFailsDone(c))
  \/ (RunnerInternal(c) /\ IdleIfCurrent(c))
  \/ (RunnerInternal(c) /\ FiberStarts(c))
  \/ (RunnerInternal(c) /\ ShellReady(c))
  \/ (RunnerInternal(c) /\ FinishRun(c))
  \/ (RunnerInternal(c) /\ FinishShell(c))
  \/ (RunnerInternal(c) /\ CompleteRun(c))
  \/ (RunnerInternal(c) /\ Work(c))
  \/ (OnIdleBegins(c) /\ CancelBeginsIdle(c))
  \/ (OnIdleBegins(c) /\ FiberBeginsIdle(c))
  \/ (OnIdleEnds(c) /\ CancelEndsIdle(c))
  \/ (OnIdleEnds(c) /\ FiberEndsIdle(c))

(* Every step of a session is one of them.                                 *)
LEMMA Cases ==
  ASSUME NEW c \in Ops, SessionStep(c)
  PROVE  StepCases(c)
<1>1. CASE RunOrShell(c)
  BY <1>1 DEF StepCases, RunOrShell, EnsureRunning, StartShell
<1>2. CASE OnIdleBegins(c)
  BY <1>2 DEF StepCases, OnIdleBegins, BeginIdle
<1>3. CASE OnIdleEnds(c)
  BY <1>3 DEF StepCases, OnIdleEnds, EndIdle
<1>4. CASE RunnerInternal(c)
  BY <1>4 DEF StepCases, RunnerInternal, CallStep, FiberStep
<1> QED
  BY <1>1, <1>2, <1>3, <1>4 DEF SessionStep, StepCases
-------------------------------------------------------------------------------
(* A call that has found its Runner acts on that one, and nobody gives up  *)
(* waiting.                                                                *)
Stages ==
  \A c \in Ops :
    /\ stage[c] \in {"new", "publish", "reset"} => pc[c] = "ready"
    /\ stage[c] \in {"work", "cancel"} => handle[c] \in Ops
    /\ kind[c] # "none" => obj[c] = handle[c] /\ stage[c] = IF kind[c] = "cancel" THEN "cancel" ELSE "work"
    /\ ret[c] # "abandoned"

SessionBase == SessionTypeOK /\ Inv /\ Stages

(* Every step of a session preserves Stages.                               *)
LEMMA StagesNext ==
  ASSUME SessionTypeOK, Inv, Stages, NEW c \in Ops, StepCases(c)
  PROVE  Stages'
<1> USE SessionAssumption, RunnerAssumption DEF SessionTypeOK, TypeOK, Stages, Inv,
        CallsConsistent, CancelPCs
<1>1. CASE Lookup(c)
  BY <1>1 DEF Lookup, vars, callVars, fiberVars, syncVars
<1>2. CASE LookupCancel(c)
  BY <1>2 DEF LookupCancel, vars, callVars, fiberVars, syncVars
<1>3. CASE ResetStatus(c)
  BY <1>3 DEF ResetStatus, vars, callVars, fiberVars, syncVars
<1>4. CASE LoopShowsBusy(c)
  BY <1>4 DEF LoopShowsBusy, vars, callVars, fiberVars, syncVars
<1>5. CASE RunOrShell(c) /\ JoinRun(c, handle[c])
  BY <1>5 DEF RunOrShell, JoinRun, Call, sessionVars, fiberVars, syncVars
<1>6. CASE RunOrShell(c) /\ QueueRun(c, handle[c])
  BY <1>6 DEF RunOrShell, QueueRun, Call, sessionVars, fiberVars
<1>7. CASE RunOrShell(c) /\ StartRun(c, handle[c])
  BY <1>7 DEF RunOrShell, StartRun, Call, Fork, sessionVars
<1>8. CASE RunOrShell(c) /\ RejectShell(c, handle[c])
  BY <1>8 DEF RunOrShell, RejectShell, Call, sessionVars, fiberVars, syncVars
<1>9. CASE RunOrShell(c) /\ EnterShell(c, handle[c])
  BY <1>9 DEF RunOrShell, EnterShell, Call, sessionVars, fiberVars
<1>10. CASE CancelRunner(c)
  BY <1>10 DEF CancelRunner, Cancel, Call, sessionVars, fiberVars, syncVars
<1>11. CASE OnBusyEnds(c)
  BY <1>11 DEF OnBusyEnds, ForkShell, Fork, syncVars
<1>12. CASE RunnerInternal(c) /\ AwaitDone(c)
  BY <1>12 DEF RunnerInternal, AwaitDone, Return, Goto, fiberVars, sessionVars
<1>13. CASE RunnerInternal(c) /\ AwaitShell(c)
  BY <1>13 DEF RunnerInternal, AwaitShell, Return, Goto, fiberVars, sessionVars
<1>14. CASE RunnerInternal(c) /\ AwaitReady(c)
  BY <1>14 DEF RunnerInternal, AwaitReady, Goto, fiberVars, sessionVars
<1>15. CASE RunnerInternal(c) /\ CancelInterrupts(c)
  BY <1>15 DEF RunnerInternal, CancelInterrupts, Goto, InterruptFiber, sessionVars
<1>16. CASE RunnerInternal(c) /\ CancelAwaitsExit(c)
  BY <1>16 DEF RunnerInternal, CancelAwaitsExit, Goto, fiberVars, sessionVars
<1>17. CASE RunnerInternal(c) /\ CancelFailsDone(c)
  BY <1>17 DEF RunnerInternal, CancelFailsDone, Goto, fiberVars, sessionVars
<1>18. CASE RunnerInternal(c) /\ IdleIfCurrent(c)
  BY <1>18 DEF RunnerInternal, IdleIfCurrent, Return, Goto, fiberVars, sessionVars
<1>19. CASE RunnerInternal(c) /\ FiberStarts(c)
  BY <1>19 DEF RunnerInternal, FiberStarts, FiberGoto, callVars, sessionVars
<1>20. CASE RunnerInternal(c) /\ ShellReady(c)
  BY <1>20 DEF RunnerInternal, ShellReady, callVars, fiberVars, sessionVars
<1>21. CASE RunnerInternal(c) /\ FinishRun(c)
  BY <1>21 DEF RunnerInternal, FinishRun, FiberGoto, callVars, sessionVars
<1>22. CASE RunnerInternal(c) /\ FinishShell(c)
  BY <1>22 DEF RunnerInternal, FinishShell, callVars, sessionVars
<1>23. CASE RunnerInternal(c) /\ CompleteRun(c)
  BY <1>23 DEF RunnerInternal, CompleteRun, FiberGoto, callVars, sessionVars
<1>24. CASE RunnerInternal(c) /\ Work(c)
  BY <1>24 DEF RunnerInternal, Work, WorkExits, FiberGoto, callVars, sessionVars
<1>25. CASE OnIdleBegins(c) /\ CancelBeginsIdle(c)
  BY <1>25 DEF OnIdleBegins, CancelBeginsIdle, Goto, fiberVars
<1>26. CASE OnIdleBegins(c) /\ FiberBeginsIdle(c)
  BY <1>26 DEF OnIdleBegins, FiberBeginsIdle, FiberGoto, callVars
<1>27. CASE OnIdleEnds(c) /\ CancelEndsIdle(c)
  BY <1>27 DEF OnIdleEnds, CancelEndsIdle, Return, Goto, fiberVars
<1>28. CASE OnIdleEnds(c) /\ FiberEndsIdle(c)
  BY <1>28 DEF OnIdleEnds, FiberEndsIdle, FiberGoto, callVars
<1> QED
  BY <1>1, <1>2, <1>3, <1>4, <1>5, <1>6, <1>7, <1>8, <1>9, <1>10, <1>11,
     <1>12, <1>13, <1>14, <1>15, <1>16, <1>17, <1>18, <1>19, <1>20, <1>21,
     <1>22, <1>23, <1>24, <1>25, <1>26, <1>27, <1>28 DEF StepCases

(* Every step of a session is a step of its Runners, or leaves them alone. *)
LEMMA RunnerStep ==
  ASSUME SessionBase, [SessionNext]_allVars
  PROVE  [Next]_vars
<1> USE SessionAssumption DEF SessionBase
<1>1. ASSUME NEW c \in Ops, SessionStep(c) PROVE [Next]_vars
  <2>1. stage[c] \in {"work", "cancel"} => handle[c] \in Objs
    BY DEF Stages
  <2>2. CASE Lookup(c) \/ LookupCancel(c) \/ ResetStatus(c) \/ LoopShowsBusy(c)
    BY <2>2 DEF Lookup, LookupCancel, ResetStatus, LoopShowsBusy
  <2>3. CASE RunOrShell(c)
    BY <2>1, <2>3 DEF RunOrShell, Next, Enter
  <2>4. CASE CancelRunner(c)
    BY <2>1, <2>4 DEF CancelRunner, Next, Enter
  <2>5. CASE OnIdleBegins(c) \/ OnIdleEnds(c) \/ OnBusyEnds(c) \/ RunnerInternal(c)
    BY <2>5 DEF OnIdleBegins, OnIdleEnds, OnBusyEnds, RunnerInternal, Next
  <2> QED
    BY <1>1, <2>2, <2>3, <2>4, <2>5 DEF SessionStep
<1>2. CASE UNCHANGED allVars
  BY <1>2 DEF allVars
<1> QED
  BY <1>1, <1>2 DEF SessionNext

(* The variables of the session keep their types.                          *)
LEMMA SessionTypeNext ==
  ASSUME SessionBase, [SessionNext]_allVars
  PROVE  SessionTypeOK'
<1> USE DEF SessionBase
<1>1. TypeOK'
  BY RunnerStep, TypeNext DEF SessionTypeOK
<1>2. CASE UNCHANGED sessionVars
  BY <1>1, <1>2 DEF SessionTypeOK, sessionVars
<1>3. ASSUME NEW c \in Ops, SessionStep(c) PROVE SessionTypeOK'
  <2>1. CASE Lookup(c) \/ LookupCancel(c) \/ ResetStatus(c)
    BY <1>1, <2>1 DEF SessionTypeOK, Lookup, LookupCancel, ResetStatus
  <2>2. CASE OnIdleBegins(c) \/ OnIdleEnds(c) \/ OnBusyEnds(c) \/ LoopShowsBusy(c)
    BY <1>1, <2>2 DEF SessionTypeOK, OnIdleBegins, OnIdleEnds, OnBusyEnds, LoopShowsBusy
  <2>3. CASE RunOrShell(c) \/ CancelRunner(c) \/ RunnerInternal(c)
    BY <1>2, <2>3 DEF RunOrShell, CancelRunner, RunnerInternal
  <2> QED
    BY <1>3, <2>1, <2>2, <2>3 DEF SessionStep
<1> QED
  BY <1>2, <1>3 DEF SessionNext, allVars

(* SessionBase holds before the first call.                                *)
LEMMA BaseInit == SessionInit => SessionBase
<1> SUFFICES ASSUME SessionInit PROVE SessionBase
  OBVIOUS
<1>1. TypeOK /\ Inv
  BY TypeInit, InvInit DEF SessionInit
<1>2. SessionTypeOK /\ Stages
  BY <1>1 DEF SessionInit, Init, SessionTypeOK, Stages
<1> QED
  BY <1>1, <1>2 DEF SessionBase

(* SessionBase is inductive.                                               *)
LEMMA BaseNext ==
  ASSUME SessionBase, [SessionNext]_allVars
  PROVE  SessionBase'
<1>1. SessionTypeOK' /\ Inv'
  BY SessionTypeNext, RunnerStep, InvNext DEF SessionBase, SessionTypeOK
<1>2. Stages'
  <2>1. CASE UNCHANGED allVars
    BY <2>1 DEF SessionBase, Stages, allVars, vars, callVars, sessionVars
  <2> QED
    BY <2>1, Cases, StagesNext DEF SessionBase, SessionNext
<1> QED
  BY <1>1, <1>2 DEF SessionBase

(* SessionBase holds in every reachable state. *)
LEMMA BaseAlways == SessionSpec => []SessionBase
<1>1. SessionBase /\ [SessionNext]_allVars => SessionBase'
  BY BaseNext
<1> QED
  BY <1>1, BaseInit, PTL DEF SessionSpec

(* Every variable of a session has its type, those of its Runners          *)
(* included (run-state.ts 29-121, runner.ts 33-205).                       *)
THEOREM SessionTyped == SessionSpec => []SessionTypeOK
<1>1. SessionBase => SessionTypeOK
  BY DEF SessionBase
<1> QED
  BY <1>1, BaseAlways, PTL

(* A session uses its Runners as their specification allows, whichever of  *)
(* them its lookups have found: what is proved of Spec holds of every      *)
(* Runner of a session (run-state.ts 42-121).                              *)
THEOREM SessionRunsRunners == SessionSpec => Spec
<1>1. SessionInit => Init
  BY DEF SessionInit
<1>2. SessionBase /\ [SessionNext]_allVars => [Next]_vars
  BY RunnerStep
<1> QED
  BY <1>1, <1>2, BaseAlways, PTL DEF SessionSpec, Spec
-------------------------------------------------------------------------------
(* What a cancel took out of a Runner was that Runner's work and had been  *)
(* started; the cancel interrupts it, and no other cancel holds it.        *)
Cancelling(k) == kind[k] = "cancel" /\ held[k] # Idle

CancelsHold ==
  \A k \in Ops :
    /\ pc[k] \in CancelPCs => held[k] # Idle
    /\ Cancelling(k) => obj[Target(k)] = obj[k] /\ fpc[Target(k)] # "none"
    /\ Cancelling(k) /\ pc[k] \notin {"awaitReady", "interrupt"} => signal[Target(k)]

HeldOnce ==
  \A j, k \in Ops :
    j # k /\ Cancelling(j) /\ Cancelling(k) => Target(j) \notin {held[k].run, held[k].shell}

(* The target of a cancel is one of the calls.                             *)
LEMMA TargetTyped ==
  ASSUME SessionBase, NEW k \in Ops, Cancelling(k)
  PROVE  Target(k) \in Ops /\ Target(k) \in {held[k].run, held[k].shell} /\ Target(k) # NoOp
  BY RunnerAssumption DEF SessionBase, SessionTypeOK, TypeOK, State, Idle, Cancelling, Target

(* A cancel takes out of a Runner work of that Runner that no other cancel *)
(* holds and that has been started.                                        *)
LEMMA CancelTakes ==
  ASSUME SessionBase, NEW c \in Ops, CancelRunner(c), state[handle[c]] # Idle
  PROVE  /\ Target(c)' \in Ops /\ obj'[Target(c)'] = handle[c] /\ fpc'[Target(c)'] # "none"
         /\ kind[Target(c)'] # "none" /\ ~Detached(Target(c)')
<1> USE SessionAssumption, RunnerAssumption DEF SessionBase, SessionTypeOK, TypeOK, State, Idle
<1> DEFINE st == state[handle[c]]
           t == IF st.shell # NoOp THEN st.shell ELSE st.run
<1>1. handle[c] \in Objs /\ st \in State /\ kind[c] = "none"
  BY DEF CancelRunner, Cancel, Call, Stages, Inv, CallsConsistent
<1>2. t \in Ops
  BY <1>1
<1>3. Target(c)' = t
  BY <1>1 DEF CancelRunner, Cancel, Call, Target
<1>4. kind[t] # "none" /\ obj[t] = handle[c] /\ ~Detached(t)
  BY <1>1, <1>2 DEF Inv, HandlesNamed
<1>5. fpc[t] # "none"
  BY <1>1, <1>2 DEF Inv, HandlesAlive, Unfinished
<1>6. t # c
  BY <1>1, <1>4
<1>7. obj' = [obj EXCEPT ![c] = handle[c]] /\ fpc' = fpc
  BY DEF CancelRunner, Cancel, Call, fiberVars
<1> QED
  BY <1>2, <1>3, <1>4, <1>5, <1>6, <1>7

(* Every step of a session preserves CancelsHold.                          *)
LEMMA CancelsHoldNext ==
  ASSUME SessionBase, CancelsHold, NEW c \in Ops, StepCases(c)
  PROVE  CancelsHold'
<1> USE SessionAssumption, RunnerAssumption DEF SessionBase, SessionTypeOK, TypeOK, Stages,
        Inv, CallsConsistent, CancelsHold, CancelPCs, Cancelling, Target
<1>1. CASE Lookup(c)
  BY <1>1 DEF Lookup, vars, callVars, fiberVars, syncVars
<1>2. CASE LookupCancel(c)
  BY <1>2 DEF LookupCancel, vars, callVars, fiberVars, syncVars
<1>3. CASE ResetStatus(c)
  BY <1>3 DEF ResetStatus, vars, callVars, fiberVars, syncVars
<1>4. CASE LoopShowsBusy(c)
  BY <1>4 DEF LoopShowsBusy, vars, callVars, fiberVars, syncVars
<1>5. CASE RunOrShell(c) /\ JoinRun(c, handle[c])
  BY <1>5 DEF RunOrShell, JoinRun, Call, sessionVars, fiberVars, syncVars
<1>6. CASE RunOrShell(c) /\ QueueRun(c, handle[c])
  BY <1>6 DEF RunOrShell, QueueRun, Call, sessionVars, fiberVars
<1>7. CASE RunOrShell(c) /\ StartRun(c, handle[c])
  BY <1>7 DEF RunOrShell, StartRun, Call, Fork, sessionVars
<1>8. CASE RunOrShell(c) /\ RejectShell(c, handle[c])
  BY <1>8 DEF RunOrShell, RejectShell, Call, sessionVars, fiberVars, syncVars
<1>9. CASE RunOrShell(c) /\ EnterShell(c, handle[c])
  BY <1>9 DEF RunOrShell, EnterShell, Call, sessionVars, fiberVars
<1>10. CASE CancelRunner(c)
  <2>1. /\ kind' = [kind EXCEPT ![c] = "cancel"] /\ obj' = [obj EXCEPT ![c] = handle[c]]
        /\ held' = [held EXCEPT ![c] = state[handle[c]]] /\ UNCHANGED <<fpc, signal>>
        /\ pc' = [pc EXCEPT ![c] = IF state[handle[c]] = Idle THEN "returned"
                                   ELSE IF state[handle[c]].shell # NoOp THEN "awaitReady" ELSE "interrupt"]
    BY <1>10 DEF CancelRunner, Cancel, Call, fiberVars
  <2>2. \A k \in Ops : Cancelling(k) => Target(k) # c
    <3>1. pc[c] = "ready"
      BY <1>10 DEF CancelRunner, Cancel, Call
    <3> QED
      BY <3>1, TargetTyped, FreshCall DEF Cancelling
  <2>3. \A k \in Ops : k # c => Target(k)' = Target(k) /\ Cancelling(k)' = Cancelling(k)
    BY <2>1 DEF Target, Cancelling
  <2>4. CASE state[handle[c]] = Idle
    BY <2>1, <2>2, <2>3, <2>4, TargetTyped DEF CancelsHold, CancelPCs, Cancelling
  <2>5. CASE state[handle[c]] # Idle
    <3>1. obj'[Target(c)'] = handle[c] /\ fpc'[Target(c)'] # "none"
      BY <1>10, <2>5, CancelTakes
    <3>2. pc'[c] \in {"awaitReady", "interrupt"} /\ obj'[c] = handle[c] /\ held'[c] # Idle
      BY <2>1, <2>5
    <3>3. obj'[Target(c)'] = obj'[c]
      BY <3>1, <3>2
    <3>4. ASSUME NEW k \in Ops, k # c
          PROVE  /\ pc'[k] \in CancelPCs => held'[k] # Idle
                 /\ Cancelling(k)' => obj'[Target(k)'] = obj'[k] /\ fpc'[Target(k)'] # "none"
                 /\ Cancelling(k)' /\ pc'[k] \notin {"awaitReady", "interrupt"} => signal'[Target(k)']
      BY <2>1, <2>2, <2>3, <3>4, TargetTyped DEF CancelsHold
    <3> QED
      BY <3>1, <3>2, <3>3, <3>4 DEF CancelsHold
  <2> QED
    BY <2>4, <2>5
<1>11. CASE OnBusyEnds(c)
  BY <1>11 DEF OnBusyEnds, ForkShell, Fork, syncVars
<1>12. CASE RunnerInternal(c) /\ AwaitDone(c)
  BY <1>12 DEF RunnerInternal, AwaitDone, Return, Goto, fiberVars, sessionVars
<1>13. CASE RunnerInternal(c) /\ AwaitShell(c)
  BY <1>13 DEF RunnerInternal, AwaitShell, Return, Goto, fiberVars, sessionVars
<1>14. CASE RunnerInternal(c) /\ AwaitReady(c)
  BY <1>14 DEF RunnerInternal, AwaitReady, Goto, fiberVars, sessionVars
<1>15. CASE RunnerInternal(c) /\ CancelInterrupts(c)
  <2>1. /\ UNCHANGED <<kind, obj, held>> /\ pc[c] = "interrupt"
        /\ pc' = [pc EXCEPT ![c] = "awaitExit"] /\ signal' = [signal EXCEPT ![Target(c)] = TRUE]
        /\ \A g \in Ops : fpc[g] # "none" => fpc'[g] # "none"
    BY <1>15 DEF RunnerInternal, CancelInterrupts, Goto, InterruptFiber
  <2>2. \A k \in Ops : Target(k)' = Target(k) /\ Cancelling(k)' = Cancelling(k)
    BY <2>1 DEF Target, Cancelling
  <2> QED
    BY <2>1, <2>2, TargetTyped DEF CancelsHold, CancelPCs, Cancelling, CallsConsistent
<1>16. CASE RunnerInternal(c) /\ CancelAwaitsExit(c)
  BY <1>16 DEF RunnerInternal, CancelAwaitsExit, Goto, fiberVars, sessionVars
<1>17. CASE RunnerInternal(c) /\ CancelFailsDone(c)
  BY <1>17 DEF RunnerInternal, CancelFailsDone, Goto, fiberVars, sessionVars
<1>18. CASE RunnerInternal(c) /\ IdleIfCurrent(c)
  BY <1>18 DEF RunnerInternal, IdleIfCurrent, Return, Goto, fiberVars, sessionVars
<1>19. CASE RunnerInternal(c) /\ FiberStarts(c)
  BY <1>19 DEF RunnerInternal, FiberStarts, FiberGoto, callVars, sessionVars
<1>20. CASE RunnerInternal(c) /\ ShellReady(c)
  BY <1>20 DEF RunnerInternal, ShellReady, callVars, fiberVars, sessionVars
<1>21. CASE RunnerInternal(c) /\ FinishRun(c)
  <2>1. UNCHANGED <<kind, obj, pc, held, signal>> /\ \A g \in Ops : fpc[g] # "none" => fpc'[g] # "none"
    BY <1>21 DEF RunnerInternal, FinishRun, FiberGoto, callVars
  <2>2. \A k \in Ops : Target(k)' = Target(k) /\ Cancelling(k)' = Cancelling(k)
    BY <2>1 DEF Target, Cancelling
  <2> QED
    BY <2>1, <2>2, TargetTyped DEF CancelsHold
<1>22. CASE RunnerInternal(c) /\ FinishShell(c)
  <2>1. UNCHANGED <<kind, obj, pc, held, signal>> /\ \A g \in Ops : fpc[g] # "none" => fpc'[g] # "none"
    BY <1>22 DEF RunnerInternal, FinishShell, FiberGoto, callVars
  <2>2. \A k \in Ops : Target(k)' = Target(k) /\ Cancelling(k)' = Cancelling(k)
    BY <2>1 DEF Target, Cancelling
  <2> QED
    BY <2>1, <2>2, TargetTyped DEF CancelsHold
<1>23. CASE RunnerInternal(c) /\ CompleteRun(c)
  BY <1>23 DEF RunnerInternal, CompleteRun, FiberGoto, callVars, sessionVars
<1>24. CASE RunnerInternal(c) /\ Work(c)
  BY <1>24 DEF RunnerInternal, Work, WorkExits, FiberGoto, callVars, sessionVars
<1>25. CASE OnIdleBegins(c) /\ CancelBeginsIdle(c)
  BY <1>25 DEF OnIdleBegins, CancelBeginsIdle, Goto, fiberVars
<1>26. CASE OnIdleBegins(c) /\ FiberBeginsIdle(c)
  BY <1>26 DEF OnIdleBegins, FiberBeginsIdle, FiberGoto, callVars
<1>27. CASE OnIdleEnds(c) /\ CancelEndsIdle(c)
  BY <1>27 DEF OnIdleEnds, CancelEndsIdle, Return, Goto, fiberVars
<1>28. CASE OnIdleEnds(c) /\ FiberEndsIdle(c)
  BY <1>28 DEF OnIdleEnds, FiberEndsIdle, FiberGoto, callVars
<1> QED
  BY <1>1, <1>2, <1>3, <1>4, <1>5, <1>6, <1>7, <1>8, <1>9, <1>10, <1>11,
     <1>12, <1>13, <1>14, <1>15, <1>16, <1>17, <1>18, <1>19, <1>20, <1>21,
     <1>22, <1>23, <1>24, <1>25, <1>26, <1>27, <1>28 DEF StepCases

(* Every step of a session preserves HeldOnce.                             *)
LEMMA HeldOnceNext ==
  ASSUME SessionBase, HeldOnce, NEW c \in Ops, StepCases(c)
  PROVE  HeldOnce'
<1> USE SessionAssumption, RunnerAssumption DEF SessionBase, SessionTypeOK, TypeOK, Stages,
        Inv, CallsConsistent, HeldOnce, CancelPCs, Cancelling, Target
<1>1. CASE Lookup(c)
  BY <1>1 DEF Lookup, vars, callVars, fiberVars, syncVars
<1>2. CASE LookupCancel(c)
  BY <1>2 DEF LookupCancel, vars, callVars, fiberVars, syncVars
<1>3. CASE ResetStatus(c)
  BY <1>3 DEF ResetStatus, vars, callVars, fiberVars, syncVars
<1>4. CASE LoopShowsBusy(c)
  BY <1>4 DEF LoopShowsBusy, vars, callVars, fiberVars, syncVars
<1>5. CASE RunOrShell(c) /\ JoinRun(c, handle[c])
  BY <1>5 DEF RunOrShell, JoinRun, Call, sessionVars, fiberVars, syncVars
<1>6. CASE RunOrShell(c) /\ QueueRun(c, handle[c])
  BY <1>6 DEF RunOrShell, QueueRun, Call, sessionVars, fiberVars
<1>7. CASE RunOrShell(c) /\ StartRun(c, handle[c])
  BY <1>7 DEF RunOrShell, StartRun, Call, Fork, sessionVars
<1>8. CASE RunOrShell(c) /\ RejectShell(c, handle[c])
  BY <1>8 DEF RunOrShell, RejectShell, Call, sessionVars, fiberVars, syncVars
<1>9. CASE RunOrShell(c) /\ EnterShell(c, handle[c])
  BY <1>9 DEF RunOrShell, EnterShell, Call, sessionVars, fiberVars
<1>10. CASE CancelRunner(c)
  <2>1. kind' = [kind EXCEPT ![c] = "cancel"] /\ held' = [held EXCEPT ![c] = state[handle[c]]]
        /\ handle[c] \in Objs
    BY <1>10 DEF CancelRunner, Cancel, Call
  <2>2. \A k \in Ops : k # c => Target(k)' = Target(k) /\ Cancelling(k)' = Cancelling(k)
    BY <2>1 DEF Target, Cancelling
  <2>3. CASE state[handle[c]] = Idle
    BY <2>1, <2>2, <2>3 DEF HeldOnce, Cancelling
  <2>4. CASE state[handle[c]] # Idle
    <3>1. \A k \in Ops : Cancelling(k) => Target(c)' \notin {held[k].run, held[k].shell}
      BY <1>10, <2>4, CancelTakes DEF Detached, Cancelling
    <3>2. \A k \in Ops : Cancelling(k) => Detached(Target(k)) /\ Target(k) # NoOp
      BY TargetTyped DEF Detached, Cancelling
    <3>3. \A k \in Ops : Cancelling(k) => Target(k) \notin {state[handle[c]].run, state[handle[c]].shell}
      BY <2>1, <3>2 DEF HandlesNamed
    <3> QED
      BY <2>1, <2>2, <3>1, <3>3 DEF HeldOnce, Cancelling
  <2> QED
    BY <2>3, <2>4
<1>11. CASE OnBusyEnds(c)
  BY <1>11 DEF OnBusyEnds, ForkShell, Fork, syncVars
<1>12. CASE RunnerInternal(c) /\ AwaitDone(c)
  BY <1>12 DEF RunnerInternal, AwaitDone, Return, Goto, fiberVars, sessionVars
<1>13. CASE RunnerInternal(c) /\ AwaitShell(c)
  BY <1>13 DEF RunnerInternal, AwaitShell, Return, Goto, fiberVars, sessionVars
<1>14. CASE RunnerInternal(c) /\ AwaitReady(c)
  BY <1>14 DEF RunnerInternal, AwaitReady, Goto, fiberVars, sessionVars
<1>15. CASE RunnerInternal(c) /\ CancelInterrupts(c)
  BY <1>15 DEF RunnerInternal, CancelInterrupts, Goto, InterruptFiber, sessionVars
<1>16. CASE RunnerInternal(c) /\ CancelAwaitsExit(c)
  BY <1>16 DEF RunnerInternal, CancelAwaitsExit, Goto, fiberVars, sessionVars
<1>17. CASE RunnerInternal(c) /\ CancelFailsDone(c)
  BY <1>17 DEF RunnerInternal, CancelFailsDone, Goto, fiberVars, sessionVars
<1>18. CASE RunnerInternal(c) /\ IdleIfCurrent(c)
  BY <1>18 DEF RunnerInternal, IdleIfCurrent, Return, Goto, fiberVars, sessionVars
<1>19. CASE RunnerInternal(c) /\ FiberStarts(c)
  BY <1>19 DEF RunnerInternal, FiberStarts, FiberGoto, callVars, sessionVars
<1>20. CASE RunnerInternal(c) /\ ShellReady(c)
  BY <1>20 DEF RunnerInternal, ShellReady, callVars, fiberVars, sessionVars
<1>21. CASE RunnerInternal(c) /\ FinishRun(c)
  BY <1>21 DEF RunnerInternal, FinishRun, FiberGoto, callVars, sessionVars
<1>22. CASE RunnerInternal(c) /\ FinishShell(c)
  BY <1>22 DEF RunnerInternal, FinishShell, callVars, sessionVars
<1>23. CASE RunnerInternal(c) /\ CompleteRun(c)
  BY <1>23 DEF RunnerInternal, CompleteRun, FiberGoto, callVars, sessionVars
<1>24. CASE RunnerInternal(c) /\ Work(c)
  BY <1>24 DEF RunnerInternal, Work, WorkExits, FiberGoto, callVars, sessionVars
<1>25. CASE OnIdleBegins(c) /\ CancelBeginsIdle(c)
  BY <1>25 DEF OnIdleBegins, CancelBeginsIdle, Goto, fiberVars
<1>26. CASE OnIdleBegins(c) /\ FiberBeginsIdle(c)
  BY <1>26 DEF OnIdleBegins, FiberBeginsIdle, FiberGoto, callVars
<1>27. CASE OnIdleEnds(c) /\ CancelEndsIdle(c)
  BY <1>27 DEF OnIdleEnds, CancelEndsIdle, Return, Goto, fiberVars
<1>28. CASE OnIdleEnds(c) /\ FiberEndsIdle(c)
  BY <1>28 DEF OnIdleEnds, FiberEndsIdle, FiberGoto, callVars
<1> QED
  BY <1>1, <1>2, <1>3, <1>4, <1>5, <1>6, <1>7, <1>8, <1>9, <1>10, <1>11,
     <1>12, <1>13, <1>14, <1>15, <1>16, <1>17, <1>18, <1>19, <1>20, <1>21,
     <1>22, <1>23, <1>24, <1>25, <1>26, <1>27, <1>28 DEF StepCases
-------------------------------------------------------------------------------
(* A registered Runner is in use, or about to be, or its idle hook is on   *)
(* its way; so is a hook that will set the status idle when it shows busy. *)
Registered ==
  runners # NoOp =>
    \/ \E o \in Objs : state[o] # Idle
    \/ \E c \in Ops : \/ stage[c] = "work" /\ pc[c] = "ready"
                      \/ pc[c] = "onBusy" \/ pc[c] \in CancelPCs \/ fpc[c] = "idle"

ShownBusy ==
  status = "busy" =>
    \/ \E o \in Objs : state[o] # Idle
    \/ \E c \in Ops : pc[c] \in CancelPCs \cup {"onIdle"} \/ fpc[c] \in {"idle", "onIdle"}

(* Every step of a session preserves Registered.                           *)
LEMMA RegisteredNext ==
  ASSUME SessionBase, CancelsHold, Registered, NEW c \in Ops, StepCases(c)
  PROVE  Registered'
<1> USE SessionAssumption, RunnerAssumption DEF SessionBase, SessionTypeOK, TypeOK, Stages,
        Inv, CallsConsistent, Registered, CancelPCs, Idle, Running, Shell, ShellThenRun
<1>1. CASE Lookup(c)
  BY <1>1 DEF Lookup, vars, callVars, fiberVars, syncVars
<1>2. CASE LookupCancel(c)
  BY <1>2 DEF LookupCancel, vars, callVars, fiberVars, syncVars
<1>3. CASE ResetStatus(c)
  BY <1>3 DEF ResetStatus, vars, callVars, fiberVars, syncVars
<1>4. CASE LoopShowsBusy(c)
  BY <1>4 DEF LoopShowsBusy, vars, callVars, fiberVars, syncVars
<1>5. CASE RunOrShell(c) /\ JoinRun(c, handle[c])
  BY <1>5 DEF RunOrShell, JoinRun, Call, sessionVars, fiberVars, syncVars
<1>6. CASE RunOrShell(c) /\ QueueRun(c, handle[c])
  BY <1>6 DEF RunOrShell, QueueRun, Call, sessionVars, fiberVars
<1>7. CASE RunOrShell(c) /\ StartRun(c, handle[c])
  BY <1>7 DEF RunOrShell, StartRun, Call, Fork, sessionVars
<1>8. CASE RunOrShell(c) /\ RejectShell(c, handle[c])
  BY <1>8 DEF RunOrShell, RejectShell, Call, sessionVars, fiberVars, syncVars
<1>9. CASE RunOrShell(c) /\ EnterShell(c, handle[c])
  BY <1>9 DEF RunOrShell, EnterShell, Call, sessionVars, fiberVars
<1>10. CASE CancelRunner(c)
  BY <1>10 DEF CancelRunner, Cancel, Call, sessionVars, fiberVars, syncVars
<1>11. CASE OnBusyEnds(c)
  BY <1>11 DEF OnBusyEnds, ForkShell, Fork, syncVars
<1>12. CASE RunnerInternal(c) /\ AwaitDone(c)
  BY <1>12 DEF RunnerInternal, AwaitDone, Return, Goto, fiberVars, sessionVars
<1>13. CASE RunnerInternal(c) /\ AwaitShell(c)
  BY <1>13 DEF RunnerInternal, AwaitShell, Return, Goto, fiberVars, sessionVars
<1>14. CASE RunnerInternal(c) /\ AwaitReady(c)
  BY <1>14 DEF RunnerInternal, AwaitReady, Goto, fiberVars, sessionVars
<1>15. CASE RunnerInternal(c) /\ CancelInterrupts(c)
  BY <1>15 DEF RunnerInternal, CancelInterrupts, Goto, InterruptFiber, sessionVars
<1>16. CASE RunnerInternal(c) /\ CancelAwaitsExit(c)
  BY <1>16 DEF RunnerInternal, CancelAwaitsExit, Goto, fiberVars, sessionVars
<1>17. CASE RunnerInternal(c) /\ CancelFailsDone(c)
  BY <1>17 DEF RunnerInternal, CancelFailsDone, Goto, fiberVars, sessionVars
<1>18. CASE RunnerInternal(c) /\ IdleIfCurrent(c)
  BY <1>18 DEF RunnerInternal, IdleIfCurrent, Return, Goto, fiberVars, sessionVars
<1>19. CASE RunnerInternal(c) /\ FiberStarts(c)
  BY <1>19 DEF RunnerInternal, FiberStarts, FiberGoto, callVars, sessionVars
<1>20. CASE RunnerInternal(c) /\ ShellReady(c)
  BY <1>20 DEF RunnerInternal, ShellReady, callVars, fiberVars, sessionVars
<1>21. CASE RunnerInternal(c) /\ FinishRun(c)
  BY <1>21 DEF RunnerInternal, FinishRun, FiberGoto, callVars, sessionVars
<1>22. CASE RunnerInternal(c) /\ FinishShell(c)
  BY <1>22 DEF RunnerInternal, FinishShell, callVars, sessionVars
<1>23. CASE RunnerInternal(c) /\ CompleteRun(c)
  BY <1>23 DEF RunnerInternal, CompleteRun, FiberGoto, callVars, sessionVars
<1>24. CASE RunnerInternal(c) /\ Work(c)
  BY <1>24 DEF RunnerInternal, Work, WorkExits, FiberGoto, callVars, sessionVars
<1>25. CASE OnIdleBegins(c) /\ CancelBeginsIdle(c)
  BY <1>25 DEF OnIdleBegins, CancelBeginsIdle, Goto, fiberVars
<1>26. CASE OnIdleBegins(c) /\ FiberBeginsIdle(c)
  BY <1>26 DEF OnIdleBegins, FiberBeginsIdle, FiberGoto, callVars
<1>27. CASE OnIdleEnds(c) /\ CancelEndsIdle(c)
  BY <1>27 DEF OnIdleEnds, CancelEndsIdle, Return, Goto, fiberVars
<1>28. CASE OnIdleEnds(c) /\ FiberEndsIdle(c)
  BY <1>28 DEF OnIdleEnds, FiberEndsIdle, FiberGoto, callVars
<1> QED
  BY <1>1, <1>2, <1>3, <1>4, <1>5, <1>6, <1>7, <1>8, <1>9, <1>10, <1>11,
     <1>12, <1>13, <1>14, <1>15, <1>16, <1>17, <1>18, <1>19, <1>20, <1>21,
     <1>22, <1>23, <1>24, <1>25, <1>26, <1>27, <1>28 DEF StepCases

(* Every step of a session preserves ShownBusy.                            *)
LEMMA ShownBusyNext ==
  ASSUME SessionBase, CancelsHold, ShownBusy, NEW c \in Ops, StepCases(c)
  PROVE  ShownBusy'
<1> USE SessionAssumption, RunnerAssumption DEF SessionBase, SessionTypeOK, TypeOK, Stages,
        Inv, CallsConsistent, ShownBusy, CancelPCs, Idle, Running, Shell, ShellThenRun
<1>1. CASE Lookup(c)
  BY <1>1 DEF Lookup, vars, callVars, fiberVars, syncVars
<1>2. CASE LookupCancel(c)
  BY <1>2 DEF LookupCancel, vars, callVars, fiberVars, syncVars
<1>3. CASE ResetStatus(c)
  BY <1>3 DEF ResetStatus, vars, callVars, fiberVars, syncVars
<1>4. CASE LoopShowsBusy(c)
  <2>1. UNCHANGED vars /\ c # NoOp /\ fpc[c] = "working" /\ ~signal[c]
    BY <1>4 DEF LoopShowsBusy
  <2>2. CASE Current(c)
    <3>1. obj[c] \in Objs /\ state[obj[c]] # Idle
      BY <2>1, <2>2 DEF Current, Running, Idle
    <3> QED
      BY <2>1, <3>1 DEF ShownBusy, vars
  <2>3. CASE Detached(c)
    <3>1. PICK k \in Ops : kind[k] = "cancel" /\ c \in {held[k].run, held[k].shell}
      BY <2>3 DEF Detached
    <3>2. Cancelling(k)
      BY <2>1, <3>1 DEF Cancelling, Idle
    <3>3. c = Target(k)
      BY <2>1, <3>1 DEF CancelledQueueNeverStarts, Target
    <3>4. pc[k] \in CancelPCs
      BY <2>1, <3>2, <3>3 DEF CancelsHold, CancelPCs
    <3> QED
      BY <2>1, <3>4 DEF ShownBusy, vars, callVars, CancelPCs
  <2> QED
    BY <2>1, <2>2, <2>3 DEF FibersTracked, Unfinished
<1>5. CASE RunOrShell(c) /\ JoinRun(c, handle[c])
  BY <1>5 DEF RunOrShell, JoinRun, Call, sessionVars, fiberVars, syncVars
<1>6. CASE RunOrShell(c) /\ QueueRun(c, handle[c])
  BY <1>6 DEF RunOrShell, QueueRun, Call, sessionVars, fiberVars
<1>7. CASE RunOrShell(c) /\ StartRun(c, handle[c])
  BY <1>7 DEF RunOrShell, StartRun, Call, Fork, sessionVars
<1>8. CASE RunOrShell(c) /\ RejectShell(c, handle[c])
  BY <1>8 DEF RunOrShell, RejectShell, Call, sessionVars, fiberVars, syncVars
<1>9. CASE RunOrShell(c) /\ EnterShell(c, handle[c])
  BY <1>9 DEF RunOrShell, EnterShell, Call, sessionVars, fiberVars
<1>10. CASE CancelRunner(c)
  BY <1>10 DEF CancelRunner, Cancel, Call, sessionVars, fiberVars, syncVars
<1>11. CASE OnBusyEnds(c)
  BY <1>11 DEF OnBusyEnds, ForkShell, Fork, syncVars
<1>12. CASE RunnerInternal(c) /\ AwaitDone(c)
  BY <1>12 DEF RunnerInternal, AwaitDone, Return, Goto, fiberVars, sessionVars
<1>13. CASE RunnerInternal(c) /\ AwaitShell(c)
  BY <1>13 DEF RunnerInternal, AwaitShell, Return, Goto, fiberVars, sessionVars
<1>14. CASE RunnerInternal(c) /\ AwaitReady(c)
  BY <1>14 DEF RunnerInternal, AwaitReady, Goto, fiberVars, sessionVars
<1>15. CASE RunnerInternal(c) /\ CancelInterrupts(c)
  BY <1>15 DEF RunnerInternal, CancelInterrupts, Goto, InterruptFiber, sessionVars
<1>16. CASE RunnerInternal(c) /\ CancelAwaitsExit(c)
  BY <1>16 DEF RunnerInternal, CancelAwaitsExit, Goto, fiberVars, sessionVars
<1>17. CASE RunnerInternal(c) /\ CancelFailsDone(c)
  BY <1>17 DEF RunnerInternal, CancelFailsDone, Goto, fiberVars, sessionVars
<1>18. CASE RunnerInternal(c) /\ IdleIfCurrent(c)
  BY <1>18 DEF RunnerInternal, IdleIfCurrent, Return, Goto, fiberVars, sessionVars
<1>19. CASE RunnerInternal(c) /\ FiberStarts(c)
  BY <1>19 DEF RunnerInternal, FiberStarts, FiberGoto, callVars, sessionVars
<1>20. CASE RunnerInternal(c) /\ ShellReady(c)
  BY <1>20 DEF RunnerInternal, ShellReady, callVars, fiberVars, sessionVars
<1>21. CASE RunnerInternal(c) /\ FinishRun(c)
  BY <1>21 DEF RunnerInternal, FinishRun, FiberGoto, callVars, sessionVars
<1>22. CASE RunnerInternal(c) /\ FinishShell(c)
  BY <1>22 DEF RunnerInternal, FinishShell, callVars, sessionVars
<1>23. CASE RunnerInternal(c) /\ CompleteRun(c)
  BY <1>23 DEF RunnerInternal, CompleteRun, FiberGoto, callVars, sessionVars
<1>24. CASE RunnerInternal(c) /\ Work(c)
  BY <1>24 DEF RunnerInternal, Work, WorkExits, FiberGoto, callVars, sessionVars
<1>25. CASE OnIdleBegins(c) /\ CancelBeginsIdle(c)
  BY <1>25 DEF OnIdleBegins, CancelBeginsIdle, Goto, fiberVars
<1>26. CASE OnIdleBegins(c) /\ FiberBeginsIdle(c)
  BY <1>26 DEF OnIdleBegins, FiberBeginsIdle, FiberGoto, callVars
<1>27. CASE OnIdleEnds(c) /\ CancelEndsIdle(c)
  BY <1>27 DEF OnIdleEnds, CancelEndsIdle, Return, Goto, fiberVars
<1>28. CASE OnIdleEnds(c) /\ FiberEndsIdle(c)
  BY <1>28 DEF OnIdleEnds, FiberEndsIdle, FiberGoto, callVars
<1> QED
  BY <1>1, <1>2, <1>3, <1>4, <1>5, <1>6, <1>7, <1>8, <1>9, <1>10, <1>11,
     <1>12, <1>13, <1>14, <1>15, <1>16, <1>17, <1>18, <1>19, <1>20, <1>21,
     <1>22, <1>23, <1>24, <1>25, <1>26, <1>27, <1>28 DEF StepCases

(* What keeps the session from being left behind. *)
BehindInv == SessionBase /\ CancelsHold /\ Registered /\ ShownBusy

(* BehindInv holds before the first call.                                  *)
LEMMA BehindInit == SessionInit => BehindInv
  BY BaseInit DEF SessionInit, Init, BehindInv, CancelsHold, CancelPCs, Cancelling, Registered, ShownBusy

(* BehindInv is inductive.                                                 *)
LEMMA BehindNext ==
  ASSUME BehindInv, [SessionNext]_allVars
  PROVE  BehindInv'
<1>1. SessionBase'
  BY BaseNext DEF BehindInv
<1>2. CASE UNCHANGED allVars
  <2>1. UNCHANGED <<vars, sessionVars>> /\ UNCHANGED <<state, callVars, fiberVars>>
    BY <1>2 DEF allVars, vars
  <2>2. CancelsHold'
    BY <2>1 DEF BehindInv, CancelsHold, Cancelling, Target, callVars, fiberVars
  <2>3. Registered' /\ ShownBusy'
    BY <2>1 DEF BehindInv, Registered, ShownBusy, callVars, fiberVars, sessionVars
  <2> QED
    BY <1>1, <2>2, <2>3 DEF BehindInv
<1>3. ASSUME NEW c \in Ops, SessionStep(c) PROVE BehindInv'
  BY <1>1, <1>3, Cases, CancelsHoldNext, RegisteredNext, ShownBusyNext DEF BehindInv
<1> QED
  BY <1>2, <1>3 DEF SessionNext

(* When the last call has returned and the last fiber has ended, no Runner *)
(* stays in the map and the status is idle, in whatever order runs, shells *)
(* and cancels came to an end, and wherever the runtime preempts           *)
(* (run-state.ts 62-71, 84-93).                                            *)
THEOREM NothingStaysBehind == SessionSpec => []NothingLeftBehind
<1>1. BehindInv => NothingLeftBehind
  <2> SUFFICES ASSUME BehindInv, \A c \in Ops : Settled(c)
                 PROVE  runners = NoOp /\ status = "idle"
    BY DEF NothingLeftBehind
  <2> USE RunnerAssumption, SessionAssumption DEF BehindInv, SessionBase, SessionTypeOK, TypeOK
  <2>1. ASSUME NEW c \in Ops
        PROVE  /\ pc[c] \in {"ready", "returned"} /\ fpc[c] \in {"none", "ended"}
               /\ ~(stage[c] = "work" /\ pc[c] = "ready")
    BY DEF Settled, Stages
  <2>2. ASSUME NEW o \in Objs PROVE state[o] = Idle
    <3>1. state[o] \in State
      OBVIOUS
    <3>2. state[o].shell = NoOp
      BY <2>1, <3>1 DEF State, Inv, HandlesAlive, Unfinished, Orphaned, Stages
    <3>3. state[o].run = NoOp
      BY <2>1, <3>1, <3>2 DEF State, Inv, HandlesAlive, Unfinished
    <3> QED
      BY <3>1, <3>2, <3>3 DEF State, Idle
  <2>3. runners = NoOp
    BY <2>1, <2>2 DEF Registered, CancelPCs
  <2>4. status = "idle"
    BY <2>1, <2>2 DEF ShownBusy, CancelPCs
  <2> QED
    BY <2>3, <2>4
<1>2. BehindInv /\ [SessionNext]_allVars => BehindInv'
  BY BehindNext
<1> QED
  BY <1>1, <1>2, BehindInit, PTL DEF SessionSpec
-------------------------------------------------------------------------------
(* What keeps a session serial when no fiber is preempted.  The Runner     *)
(* with work, with a startShell in onBusy, or with a cancel under way is   *)
(* the registered one, and so is the one a waiting call has found.  An     *)
(* idle hook that is due finds nothing else going on: whoever could have   *)
(* acted before it has done so.                                            *)
HookDue(c) == pc[c] = "idle" \/ fpc[c] = "idle"

Waiting(c) == stage[c] \in {"work", "cancel"} /\ pc[c] = "ready"

WorkRegistered == \A o \in Objs : state[o] # Idle \/ lock[o] # NoOp => runners = o

CancelsRegistered == \A k \in Ops : pc[k] \in CancelPCs => runners = obj[k]

WaitingRegistered == \A c \in Ops : Waiting(c) => handle[c] = runners

HookAlone ==
  \A f \in Ops : HookDue(f) =>
    /\ \A o \in Objs : state[o] = Idle /\ lock[o] = NoOp
    /\ \A d \in Ops : ~Waiting(d) /\ (d # f => ~HookDue(d) /\ pc[d] \notin CancelPCs)

Serial == WorkRegistered /\ CancelsRegistered /\ WaitingRegistered /\ HookAlone

(* The turn of c without preemption: it is ready, or nobody is.            *)
Turn(c) == Ready(c) \/ \A d \in Ops : ~Ready(d)

(* A call that has been made keeps its operation, its Runner and what it   *)
(* holds; a fiber that has been forked stays so.                           *)
LEMMA CallsStand ==
  ASSUME SessionBase, NEW c \in Ops, StepCases(c)
  PROVE  /\ \A d \in Ops : kind[d] # "none" => kind'[d] = kind[d] /\ obj'[d] = obj[d] /\ held'[d] = held[d]
         /\ \A d \in Ops : fpc[d] # "none" => fpc'[d] # "none"
<1> USE RunnerAssumption DEF SessionBase, SessionTypeOK, TypeOK, Inv, CallsConsistent
<1>1. CASE Lookup(c)
  BY <1>1 DEF Lookup, vars, callVars, fiberVars, syncVars
<1>2. CASE LookupCancel(c)
  BY <1>2 DEF LookupCancel, vars, callVars, fiberVars, syncVars
<1>3. CASE ResetStatus(c)
  BY <1>3 DEF ResetStatus, vars, callVars, fiberVars, syncVars
<1>4. CASE LoopShowsBusy(c)
  BY <1>4 DEF LoopShowsBusy, vars, callVars, fiberVars, syncVars
<1>5. CASE RunOrShell(c) /\ JoinRun(c, handle[c])
  BY <1>5 DEF RunOrShell, JoinRun, Call, sessionVars, fiberVars, syncVars
<1>6. CASE RunOrShell(c) /\ QueueRun(c, handle[c])
  BY <1>6 DEF RunOrShell, QueueRun, Call, sessionVars, fiberVars
<1>7. CASE RunOrShell(c) /\ StartRun(c, handle[c])
  BY <1>7 DEF RunOrShell, StartRun, Call, Fork, sessionVars
<1>8. CASE RunOrShell(c) /\ RejectShell(c, handle[c])
  BY <1>8 DEF RunOrShell, RejectShell, Call, sessionVars, fiberVars, syncVars
<1>9. CASE RunOrShell(c) /\ EnterShell(c, handle[c])
  BY <1>9 DEF RunOrShell, EnterShell, Call, sessionVars, fiberVars
<1>10. CASE CancelRunner(c)
  BY <1>10 DEF CancelRunner, Cancel, Call, sessionVars, fiberVars, syncVars
<1>11. CASE OnBusyEnds(c)
  BY <1>11 DEF OnBusyEnds, ForkShell, Fork, syncVars
<1>12. CASE RunnerInternal(c) /\ AwaitDone(c)
  BY <1>12 DEF RunnerInternal, AwaitDone, Return, Goto, fiberVars, sessionVars
<1>13. CASE RunnerInternal(c) /\ AwaitShell(c)
  BY <1>13 DEF RunnerInternal, AwaitShell, Return, Goto, fiberVars, sessionVars
<1>14. CASE RunnerInternal(c) /\ AwaitReady(c)
  BY <1>14 DEF RunnerInternal, AwaitReady, Goto, fiberVars, sessionVars
<1>15. CASE RunnerInternal(c) /\ CancelInterrupts(c)
  BY <1>15 DEF RunnerInternal, CancelInterrupts, Goto, InterruptFiber, sessionVars
<1>16. CASE RunnerInternal(c) /\ CancelAwaitsExit(c)
  BY <1>16 DEF RunnerInternal, CancelAwaitsExit, Goto, fiberVars, sessionVars
<1>17. CASE RunnerInternal(c) /\ CancelFailsDone(c)
  BY <1>17 DEF RunnerInternal, CancelFailsDone, Goto, fiberVars, sessionVars
<1>18. CASE RunnerInternal(c) /\ IdleIfCurrent(c)
  BY <1>18 DEF RunnerInternal, IdleIfCurrent, Return, Goto, fiberVars, sessionVars
<1>19. CASE RunnerInternal(c) /\ FiberStarts(c)
  BY <1>19 DEF RunnerInternal, FiberStarts, FiberGoto, callVars, sessionVars
<1>20. CASE RunnerInternal(c) /\ ShellReady(c)
  BY <1>20 DEF RunnerInternal, ShellReady, callVars, fiberVars, sessionVars
<1>21. CASE RunnerInternal(c) /\ FinishRun(c)
  BY <1>21 DEF RunnerInternal, FinishRun, FiberGoto, callVars, sessionVars
<1>22. CASE RunnerInternal(c) /\ FinishShell(c)
  BY <1>22 DEF RunnerInternal, FinishShell, callVars, sessionVars
<1>23. CASE RunnerInternal(c) /\ CompleteRun(c)
  BY <1>23 DEF RunnerInternal, CompleteRun, FiberGoto, callVars, sessionVars
<1>24. CASE RunnerInternal(c) /\ Work(c)
  BY <1>24 DEF RunnerInternal, Work, WorkExits, FiberGoto, callVars, sessionVars
<1>25. CASE OnIdleBegins(c) /\ CancelBeginsIdle(c)
  BY <1>25 DEF OnIdleBegins, CancelBeginsIdle, Goto, fiberVars
<1>26. CASE OnIdleBegins(c) /\ FiberBeginsIdle(c)
  BY <1>26 DEF OnIdleBegins, FiberBeginsIdle, FiberGoto, callVars
<1>27. CASE OnIdleEnds(c) /\ CancelEndsIdle(c)
  BY <1>27 DEF OnIdleEnds, CancelEndsIdle, Return, Goto, fiberVars
<1>28. CASE OnIdleEnds(c) /\ FiberEndsIdle(c)
  BY <1>28 DEF OnIdleEnds, FiberEndsIdle, FiberGoto, callVars
<1> QED
  BY <1>1, <1>2, <1>3, <1>4, <1>5, <1>6, <1>7, <1>8, <1>9, <1>10, <1>11,
     <1>12, <1>13, <1>14, <1>15, <1>16, <1>17, <1>18, <1>19, <1>20, <1>21,
     <1>22, <1>23, <1>24, <1>25, <1>26, <1>27, <1>28 DEF StepCases

(* New work behind the back of a cancel stays so.                          *)
LEMMA ReplacedStays ==
  ASSUME SessionBase, NEW c \in Ops, StepCases(c), Replaced
  PROVE  Replaced'
<1>1. PICK k \in Ops, f \in Ops :
         /\ kind[k] = "cancel" /\ held[k] # Idle
         /\ obj[f] = obj[k] /\ fpc[f] # "none" /\ f \notin {held[k].run, held[k].shell}
  BY DEF Replaced
<1>2. kind[f] # "none"
  BY <1>1 DEF SessionBase, Inv, CallsConsistent
<1> QED
  BY <1>1, <1>2, CallsStand DEF Replaced

(* While an idle hook is due, it is its turn.                              *)
LEMMA HookGoesFirst ==
  ASSUME HookAlone, NEW c \in Ops, Turn(c), NEW f \in Ops, HookDue(f)
  PROVE  c = f
  BY DEF HookAlone, Turn, Ready, Waiting, HookDue

(* Every step of a session preserves WorkRegistered.                       *)
LEMMA WorkRegisteredNext ==
  ASSUME SessionBase, Serial, NEW c \in Ops, Turn(c), StepCases(c)
  PROVE  WorkRegistered'
<1> USE SessionAssumption, RunnerAssumption DEF SessionBase, SessionTypeOK, TypeOK, Inv,
        CallsConsistent, Stages, CancelPCs, Waiting, Serial, Idle, WorkRegistered,
        WaitingRegistered, HookAlone, HookDue, Running
<1>1. CASE Lookup(c)
  BY <1>1 DEF Lookup, vars, callVars, fiberVars, syncVars
<1>2. CASE LookupCancel(c)
  BY <1>2 DEF LookupCancel, vars, callVars, fiberVars, syncVars
<1>3. CASE ResetStatus(c)
  BY <1>3 DEF ResetStatus, vars, callVars, fiberVars, syncVars
<1>4. CASE LoopShowsBusy(c)
  BY <1>4 DEF LoopShowsBusy, vars, callVars, fiberVars, syncVars
<1>5. CASE RunOrShell(c) /\ JoinRun(c, handle[c])
  BY <1>5 DEF RunOrShell, JoinRun, Call, sessionVars, fiberVars, syncVars
<1>6. CASE RunOrShell(c) /\ QueueRun(c, handle[c])
  BY <1>6 DEF RunOrShell, QueueRun, Call, sessionVars, fiberVars
<1>7. CASE RunOrShell(c) /\ StartRun(c, handle[c])
  BY <1>7 DEF RunOrShell, StartRun, Call, Fork, sessionVars
<1>8. CASE RunOrShell(c) /\ RejectShell(c, handle[c])
  BY <1>8 DEF RunOrShell, RejectShell, Call, sessionVars, fiberVars, syncVars
<1>9. CASE RunOrShell(c) /\ EnterShell(c, handle[c])
  BY <1>9 DEF RunOrShell, EnterShell, Call, sessionVars, fiberVars
<1>10. CASE CancelRunner(c)
  BY <1>10 DEF CancelRunner, Cancel, Call, sessionVars, fiberVars, syncVars
<1>11. CASE OnBusyEnds(c)
  BY <1>11 DEF OnBusyEnds, ForkShell, Fork, syncVars
<1>12. CASE RunnerInternal(c) /\ AwaitDone(c)
  BY <1>12 DEF RunnerInternal, AwaitDone, Return, Goto, fiberVars, sessionVars
<1>13. CASE RunnerInternal(c) /\ AwaitShell(c)
  BY <1>13 DEF RunnerInternal, AwaitShell, Return, Goto, fiberVars, sessionVars
<1>14. CASE RunnerInternal(c) /\ AwaitReady(c)
  BY <1>14 DEF RunnerInternal, AwaitReady, Goto, fiberVars, sessionVars
<1>15. CASE RunnerInternal(c) /\ CancelInterrupts(c)
  BY <1>15 DEF RunnerInternal, CancelInterrupts, Goto, InterruptFiber, sessionVars
<1>16. CASE RunnerInternal(c) /\ CancelAwaitsExit(c)
  BY <1>16 DEF RunnerInternal, CancelAwaitsExit, Goto, fiberVars, sessionVars
<1>17. CASE RunnerInternal(c) /\ CancelFailsDone(c)
  BY <1>17 DEF RunnerInternal, CancelFailsDone, Goto, fiberVars, sessionVars
<1>18. CASE RunnerInternal(c) /\ IdleIfCurrent(c)
  BY <1>18 DEF RunnerInternal, IdleIfCurrent, Return, Goto, fiberVars, sessionVars
<1>19. CASE RunnerInternal(c) /\ FiberStarts(c)
  BY <1>19 DEF RunnerInternal, FiberStarts, FiberGoto, callVars, sessionVars
<1>20. CASE RunnerInternal(c) /\ ShellReady(c)
  BY <1>20 DEF RunnerInternal, ShellReady, callVars, fiberVars, sessionVars
<1>21. CASE RunnerInternal(c) /\ FinishRun(c)
  BY <1>21 DEF RunnerInternal, FinishRun, FiberGoto, callVars, sessionVars
<1>22. CASE RunnerInternal(c) /\ FinishShell(c)
  BY <1>22 DEF RunnerInternal, FinishShell, callVars, sessionVars
<1>23. CASE RunnerInternal(c) /\ CompleteRun(c)
  BY <1>23 DEF RunnerInternal, CompleteRun, FiberGoto, callVars, sessionVars
<1>24. CASE RunnerInternal(c) /\ Work(c)
  BY <1>24 DEF RunnerInternal, Work, WorkExits, FiberGoto, callVars, sessionVars
<1>25. CASE OnIdleBegins(c) /\ CancelBeginsIdle(c)
  BY <1>25 DEF OnIdleBegins, CancelBeginsIdle, Goto, fiberVars
<1>26. CASE OnIdleBegins(c) /\ FiberBeginsIdle(c)
  BY <1>26 DEF OnIdleBegins, FiberBeginsIdle, FiberGoto, callVars
<1>27. CASE OnIdleEnds(c) /\ CancelEndsIdle(c)
  BY <1>27 DEF OnIdleEnds, CancelEndsIdle, Return, Goto, fiberVars
<1>28. CASE OnIdleEnds(c) /\ FiberEndsIdle(c)
  BY <1>28 DEF OnIdleEnds, FiberEndsIdle, FiberGoto, callVars
<1> QED
  BY <1>1, <1>2, <1>3, <1>4, <1>5, <1>6, <1>7, <1>8, <1>9, <1>10, <1>11,
     <1>12, <1>13, <1>14, <1>15, <1>16, <1>17, <1>18, <1>19, <1>20, <1>21,
     <1>22, <1>23, <1>24, <1>25, <1>26, <1>27, <1>28 DEF StepCases

(* Every step of a session preserves CancelsRegistered.                    *)
LEMMA CancelsRegisteredNext ==
  ASSUME SessionBase, Serial, NEW c \in Ops, Turn(c), StepCases(c)
  PROVE  CancelsRegistered'
<1> USE SessionAssumption, RunnerAssumption DEF SessionBase, SessionTypeOK, TypeOK, Inv,
        CallsConsistent, Stages, CancelPCs, Waiting, Serial, Idle, CancelsRegistered,
        WaitingRegistered, HookAlone, HookDue
<1>1. CASE Lookup(c)
  BY <1>1 DEF Lookup, vars, callVars, fiberVars, syncVars
<1>2. CASE LookupCancel(c)
  BY <1>2 DEF LookupCancel, vars, callVars, fiberVars, syncVars
<1>3. CASE ResetStatus(c)
  BY <1>3 DEF ResetStatus, vars, callVars, fiberVars, syncVars
<1>4. CASE LoopShowsBusy(c)
  BY <1>4 DEF LoopShowsBusy, vars, callVars, fiberVars, syncVars
<1>5. CASE RunOrShell(c) /\ JoinRun(c, handle[c])
  BY <1>5 DEF RunOrShell, JoinRun, Call, sessionVars, fiberVars, syncVars
<1>6. CASE RunOrShell(c) /\ QueueRun(c, handle[c])
  BY <1>6 DEF RunOrShell, QueueRun, Call, sessionVars, fiberVars
<1>7. CASE RunOrShell(c) /\ StartRun(c, handle[c])
  BY <1>7 DEF RunOrShell, StartRun, Call, Fork, sessionVars
<1>8. CASE RunOrShell(c) /\ RejectShell(c, handle[c])
  BY <1>8 DEF RunOrShell, RejectShell, Call, sessionVars, fiberVars, syncVars
<1>9. CASE RunOrShell(c) /\ EnterShell(c, handle[c])
  BY <1>9 DEF RunOrShell, EnterShell, Call, sessionVars, fiberVars
<1>10. CASE CancelRunner(c)
  BY <1>10 DEF CancelRunner, Cancel, Call, sessionVars, fiberVars, syncVars
<1>11. CASE OnBusyEnds(c)
  BY <1>11 DEF OnBusyEnds, ForkShell, Fork, syncVars
<1>12. CASE RunnerInternal(c) /\ AwaitDone(c)
  BY <1>12 DEF RunnerInternal, AwaitDone, Return, Goto, fiberVars, sessionVars
<1>13. CASE RunnerInternal(c) /\ AwaitShell(c)
  BY <1>13 DEF RunnerInternal, AwaitShell, Return, Goto, fiberVars, sessionVars
<1>14. CASE RunnerInternal(c) /\ AwaitReady(c)
  BY <1>14 DEF RunnerInternal, AwaitReady, Goto, fiberVars, sessionVars
<1>15. CASE RunnerInternal(c) /\ CancelInterrupts(c)
  BY <1>15 DEF RunnerInternal, CancelInterrupts, Goto, InterruptFiber, sessionVars
<1>16. CASE RunnerInternal(c) /\ CancelAwaitsExit(c)
  BY <1>16 DEF RunnerInternal, CancelAwaitsExit, Goto, fiberVars, sessionVars
<1>17. CASE RunnerInternal(c) /\ CancelFailsDone(c)
  BY <1>17 DEF RunnerInternal, CancelFailsDone, Goto, fiberVars, sessionVars
<1>18. CASE RunnerInternal(c) /\ IdleIfCurrent(c)
  BY <1>18 DEF RunnerInternal, IdleIfCurrent, Return, Goto, fiberVars, sessionVars
<1>19. CASE RunnerInternal(c) /\ FiberStarts(c)
  BY <1>19 DEF RunnerInternal, FiberStarts, FiberGoto, callVars, sessionVars
<1>20. CASE RunnerInternal(c) /\ ShellReady(c)
  BY <1>20 DEF RunnerInternal, ShellReady, callVars, fiberVars, sessionVars
<1>21. CASE RunnerInternal(c) /\ FinishRun(c)
  BY <1>21 DEF RunnerInternal, FinishRun, FiberGoto, callVars, sessionVars
<1>22. CASE RunnerInternal(c) /\ FinishShell(c)
  BY <1>22 DEF RunnerInternal, FinishShell, callVars, sessionVars
<1>23. CASE RunnerInternal(c) /\ CompleteRun(c)
  BY <1>23 DEF RunnerInternal, CompleteRun, FiberGoto, callVars, sessionVars
<1>24. CASE RunnerInternal(c) /\ Work(c)
  BY <1>24 DEF RunnerInternal, Work, WorkExits, FiberGoto, callVars, sessionVars
<1>25. CASE OnIdleBegins(c) /\ CancelBeginsIdle(c)
  BY <1>25 DEF OnIdleBegins, CancelBeginsIdle, Goto, fiberVars
<1>26. CASE OnIdleBegins(c) /\ FiberBeginsIdle(c)
  BY <1>26 DEF OnIdleBegins, FiberBeginsIdle, FiberGoto, callVars
<1>27. CASE OnIdleEnds(c) /\ CancelEndsIdle(c)
  BY <1>27 DEF OnIdleEnds, CancelEndsIdle, Return, Goto, fiberVars
<1>28. CASE OnIdleEnds(c) /\ FiberEndsIdle(c)
  BY <1>28 DEF OnIdleEnds, FiberEndsIdle, FiberGoto, callVars
<1> QED
  BY <1>1, <1>2, <1>3, <1>4, <1>5, <1>6, <1>7, <1>8, <1>9, <1>10, <1>11,
     <1>12, <1>13, <1>14, <1>15, <1>16, <1>17, <1>18, <1>19, <1>20, <1>21,
     <1>22, <1>23, <1>24, <1>25, <1>26, <1>27, <1>28 DEF StepCases

(* Every step of a session preserves WaitingRegistered.                    *)
LEMMA WaitingRegisteredNext ==
  ASSUME SessionBase, Serial, NEW c \in Ops, Turn(c), StepCases(c)
  PROVE  WaitingRegistered'
<1> USE SessionAssumption, RunnerAssumption DEF SessionBase, SessionTypeOK, TypeOK, Inv,
        CallsConsistent, Stages, CancelPCs, Waiting, Serial, Idle, WaitingRegistered,
        HookAlone, HookDue
<1>1. CASE Lookup(c)
  BY <1>1 DEF Lookup, vars, callVars, fiberVars, syncVars
<1>2. CASE LookupCancel(c)
  BY <1>2 DEF LookupCancel, vars, callVars, fiberVars, syncVars
<1>3. CASE ResetStatus(c)
  BY <1>3 DEF ResetStatus, vars, callVars, fiberVars, syncVars
<1>4. CASE LoopShowsBusy(c)
  BY <1>4 DEF LoopShowsBusy, vars, callVars, fiberVars, syncVars
<1>5. CASE RunOrShell(c) /\ JoinRun(c, handle[c])
  BY <1>5 DEF RunOrShell, JoinRun, Call, sessionVars, fiberVars, syncVars
<1>6. CASE RunOrShell(c) /\ QueueRun(c, handle[c])
  BY <1>6 DEF RunOrShell, QueueRun, Call, sessionVars, fiberVars
<1>7. CASE RunOrShell(c) /\ StartRun(c, handle[c])
  BY <1>7 DEF RunOrShell, StartRun, Call, Fork, sessionVars
<1>8. CASE RunOrShell(c) /\ RejectShell(c, handle[c])
  BY <1>8 DEF RunOrShell, RejectShell, Call, sessionVars, fiberVars, syncVars
<1>9. CASE RunOrShell(c) /\ EnterShell(c, handle[c])
  BY <1>9 DEF RunOrShell, EnterShell, Call, sessionVars, fiberVars
<1>10. CASE CancelRunner(c)
  BY <1>10 DEF CancelRunner, Cancel, Call, sessionVars, fiberVars, syncVars
<1>11. CASE OnBusyEnds(c)
  BY <1>11 DEF OnBusyEnds, ForkShell, Fork, syncVars
<1>12. CASE RunnerInternal(c) /\ AwaitDone(c)
  BY <1>12 DEF RunnerInternal, AwaitDone, Return, Goto, fiberVars, sessionVars
<1>13. CASE RunnerInternal(c) /\ AwaitShell(c)
  BY <1>13 DEF RunnerInternal, AwaitShell, Return, Goto, fiberVars, sessionVars
<1>14. CASE RunnerInternal(c) /\ AwaitReady(c)
  BY <1>14 DEF RunnerInternal, AwaitReady, Goto, fiberVars, sessionVars
<1>15. CASE RunnerInternal(c) /\ CancelInterrupts(c)
  BY <1>15 DEF RunnerInternal, CancelInterrupts, Goto, InterruptFiber, sessionVars
<1>16. CASE RunnerInternal(c) /\ CancelAwaitsExit(c)
  BY <1>16 DEF RunnerInternal, CancelAwaitsExit, Goto, fiberVars, sessionVars
<1>17. CASE RunnerInternal(c) /\ CancelFailsDone(c)
  BY <1>17 DEF RunnerInternal, CancelFailsDone, Goto, fiberVars, sessionVars
<1>18. CASE RunnerInternal(c) /\ IdleIfCurrent(c)
  BY <1>18 DEF RunnerInternal, IdleIfCurrent, Return, Goto, fiberVars, sessionVars
<1>19. CASE RunnerInternal(c) /\ FiberStarts(c)
  BY <1>19 DEF RunnerInternal, FiberStarts, FiberGoto, callVars, sessionVars
<1>20. CASE RunnerInternal(c) /\ ShellReady(c)
  BY <1>20 DEF RunnerInternal, ShellReady, callVars, fiberVars, sessionVars
<1>21. CASE RunnerInternal(c) /\ FinishRun(c)
  BY <1>21 DEF RunnerInternal, FinishRun, FiberGoto, callVars, sessionVars
<1>22. CASE RunnerInternal(c) /\ FinishShell(c)
  BY <1>22 DEF RunnerInternal, FinishShell, callVars, sessionVars
<1>23. CASE RunnerInternal(c) /\ CompleteRun(c)
  BY <1>23 DEF RunnerInternal, CompleteRun, FiberGoto, callVars, sessionVars
<1>24. CASE RunnerInternal(c) /\ Work(c)
  BY <1>24 DEF RunnerInternal, Work, WorkExits, FiberGoto, callVars, sessionVars
<1>25. CASE OnIdleBegins(c) /\ CancelBeginsIdle(c)
  BY <1>25 DEF OnIdleBegins, CancelBeginsIdle, Goto, fiberVars
<1>26. CASE OnIdleBegins(c) /\ FiberBeginsIdle(c)
  BY <1>26 DEF OnIdleBegins, FiberBeginsIdle, FiberGoto, callVars
<1>27. CASE OnIdleEnds(c) /\ CancelEndsIdle(c)
  BY <1>27 DEF OnIdleEnds, CancelEndsIdle, Return, Goto, fiberVars
<1>28. CASE OnIdleEnds(c) /\ FiberEndsIdle(c)
  BY <1>28 DEF OnIdleEnds, FiberEndsIdle, FiberGoto, callVars
<1> QED
  BY <1>1, <1>2, <1>3, <1>4, <1>5, <1>6, <1>7, <1>8, <1>9, <1>10, <1>11,
     <1>12, <1>13, <1>14, <1>15, <1>16, <1>17, <1>18, <1>19, <1>20, <1>21,
     <1>22, <1>23, <1>24, <1>25, <1>26, <1>27, <1>28 DEF StepCases


(* When nothing is due and c is not waiting, nobody waits for the Runner   *)
(* that is registered, if its lock is free.                                *)
LEMMA NobodyWaits ==
  ASSUME WaitingRegistered, NEW c \in Ops, Turn(c), ~HookDue(c), ~Waiting(c),
         runners \in Objs, lock[runners] = NoOp
  PROVE  \A d \in Ops : ~Waiting(d) /\ ~HookDue(d)
<1>1. ~Ready(c)
  BY DEF Ready, Waiting, HookDue
<1>2. \A d \in Ops : ~Ready(d)
  BY <1>1 DEF Turn
<1> QED
  BY <1>2 DEF WaitingRegistered, Ready, Waiting, HookDue

(* Work that a Runner took up, other than what a cancel of that Runner     *)
(* holds, was taken up behind its back.                                    *)
LEMMA NoNewWork ==
  ASSUME SessionBase, ~Replaced, NEW k \in Ops, Cancelling(k),
         NEW f \in Ops, obj[f] = obj[k], fpc[f] # "none"
  PROVE  f \in {held[k].run, held[k].shell}
  BY DEF Replaced, Cancelling

(* The hook of a fiber that has emptied its Runner finds nothing else.     *)
LEMMA FiberHookAlone ==
  ASSUME SessionBase, CancelsHold, Serial, ~Replaced, NEW f \in Ops, Turn(f),
         fpc[f] = "exited", Current(f), lock[obj[f]] = NoOp,
         state' = [state EXCEPT ![obj[f]] = Idle], fpc' = [fpc EXCEPT ![f] = "idle"],
         UNCHANGED <<lock, pc, stage>>
  PROVE  HookAlone'
<1> USE SessionAssumption, RunnerAssumption DEF SessionBase, SessionTypeOK, TypeOK, Inv, Serial
<1>1. /\ f # NoOp /\ obj[f] \in Objs /\ state[obj[f]] # Idle /\ pc[f] \notin CancelPCs \cup {"ready"}
      /\ f \in {state[obj[f]].run, state[obj[f]].shell}
  BY DEF CallsConsistent, Current, Running, Idle
<1>2. runners = obj[f] /\ \A o \in Objs : o # obj[f] => state[o] = Idle /\ lock[o] = NoOp
  BY <1>1 DEF WorkRegistered
<1>3. \A o \in Objs : state'[o] = Idle /\ lock'[o] = NoOp
  BY <1>1, <1>2
<1>4. \A d \in Ops : ~Waiting(d) /\ ~HookDue(d)
  <2>1. ~Waiting(f) /\ ~HookDue(f)
    BY <1>1 DEF Waiting, HookDue, CancelPCs
  <2> QED
    BY <1>1, <1>2, <2>1, NobodyWaits
<1>5. \A d \in Ops : pc[d] \notin CancelPCs
  <2>1. SUFFICES ASSUME NEW d \in Ops, pc[d] \in CancelPCs PROVE FALSE
    OBVIOUS
  <2>2. Cancelling(d) /\ obj[f] = obj[d]
    BY <1>2, <2>1 DEF CancelsRegistered, CancelsHold, Cancelling, CallsConsistent
  <2>3. f \in {held[d].run, held[d].shell}
    BY <2>2, NoNewWork
  <2>4. Detached(f)
    BY <2>2, <2>3 DEF Detached, Cancelling
  <2> QED
    BY <1>1, <2>4 DEF HandlesNamed
<1> QED
  BY <1>3, <1>4, <1>5 DEF HookAlone, HookDue, Waiting

(* Every step of a session preserves HookAlone, unless a cancel's Runner   *)
(* was given new work.                                                     *)
LEMMA HookAloneNext ==
  ASSUME SessionBase, CancelsHold, HeldOnce, Serial, ~Replaced,
         NEW c \in Ops, Turn(c), StepCases(c)
  PROVE  HookAlone'
<1> USE SessionAssumption, RunnerAssumption DEF SessionBase, SessionTypeOK, TypeOK, Inv,
        CallsConsistent, Stages, CancelPCs, Waiting, Serial, Idle, HookAlone, HookDue
<1>1. CASE Lookup(c)
  BY <1>1, HookGoesFirst DEF Lookup, vars, callVars, fiberVars, syncVars
<1>2. CASE LookupCancel(c)
  BY <1>2, HookGoesFirst DEF LookupCancel, vars, callVars, fiberVars, syncVars
<1>3. CASE ResetStatus(c)
  BY <1>3, HookGoesFirst DEF ResetStatus, vars, callVars, fiberVars, syncVars
<1>4. CASE LoopShowsBusy(c)
  BY <1>4, HookGoesFirst DEF LoopShowsBusy, vars, callVars, fiberVars, syncVars
<1>5. CASE RunOrShell(c) /\ JoinRun(c, handle[c])
  BY <1>5, HookGoesFirst DEF RunOrShell, JoinRun, Call, sessionVars, fiberVars, syncVars
<1>6. CASE RunOrShell(c) /\ QueueRun(c, handle[c])
  BY <1>6, HookGoesFirst DEF RunOrShell, QueueRun, Call, sessionVars, fiberVars
<1>7. CASE RunOrShell(c) /\ StartRun(c, handle[c])
  BY <1>7, HookGoesFirst DEF RunOrShell, StartRun, Call, Fork, sessionVars
<1>8. CASE RunOrShell(c) /\ RejectShell(c, handle[c])
  BY <1>8, HookGoesFirst DEF RunOrShell, RejectShell, Call, sessionVars, fiberVars, syncVars
<1>9. CASE RunOrShell(c) /\ EnterShell(c, handle[c])
  BY <1>9, HookGoesFirst DEF RunOrShell, EnterShell, Call, sessionVars, fiberVars
<1>10. CASE CancelRunner(c)
  BY <1>10, HookGoesFirst DEF CancelRunner, Cancel, Call, sessionVars, fiberVars, syncVars
<1>11. CASE OnBusyEnds(c)
  BY <1>11, HookGoesFirst DEF OnBusyEnds, ForkShell, Fork, syncVars
<1>12. CASE RunnerInternal(c) /\ AwaitDone(c)
  BY <1>12, HookGoesFirst DEF RunnerInternal, AwaitDone, Return, Goto, fiberVars,
         sessionVars
<1>13. CASE RunnerInternal(c) /\ AwaitShell(c)
  BY <1>13, HookGoesFirst DEF RunnerInternal, AwaitShell, Return, Goto, fiberVars,
         sessionVars
<1>14. CASE RunnerInternal(c) /\ AwaitReady(c)
  BY <1>14, HookGoesFirst DEF RunnerInternal, AwaitReady, Goto, fiberVars, sessionVars
<1>15. CASE RunnerInternal(c) /\ CancelInterrupts(c)
  BY <1>15, HookGoesFirst DEF RunnerInternal, CancelInterrupts, Goto, InterruptFiber,
         sessionVars
<1>16. CASE RunnerInternal(c) /\ CancelAwaitsExit(c)
  BY <1>16, HookGoesFirst DEF RunnerInternal, CancelAwaitsExit, Goto, fiberVars, sessionVars
<1>17. CASE RunnerInternal(c) /\ CancelFailsDone(c)
  BY <1>17, HookGoesFirst DEF RunnerInternal, CancelFailsDone, Goto, fiberVars, sessionVars
<1>18. CASE RunnerInternal(c) /\ IdleIfCurrent(c)
  <2> DEFINE o == obj[c]
  <2>1. /\ UNCHANGED <<state, lock, stage, fpc>> /\ pc[c] = "idleIfCurrent" /\ lock[o] = NoOp
        /\ kind[c] = "cancel" /\ o \in Objs /\ fpc[c] = "none" /\ Cancelling(c)
    BY <1>18 DEF RunnerInternal, IdleIfCurrent, Goto, Return, fiberVars, sessionVars, CancelPCs,
                 CancelsHold, Cancelling
  <2>2. CASE pc' = [pc EXCEPT ![c] = "returned"]
    <3>1. \A d \in Ops : ~HookDue(d)
      BY <2>1, HookGoesFirst DEF Serial, HookDue
    <3> QED
      BY <2>1, <2>2, <3>1 DEF HookAlone, HookDue
  <2>3. CASE state[o] = Idle /\ pc' = [pc EXCEPT ![c] = "idle"]
    <3>1. runners = o /\ \A p \in Objs : state[p] = Idle /\ lock[p] = NoOp
      BY <2>1, <2>3 DEF Serial, CancelsRegistered, WorkRegistered, CancelPCs
    <3>2. \A d \in Ops : ~Waiting(d) /\ ~HookDue(d)
      <4>1. ~Waiting(c) /\ ~HookDue(c)
        BY <2>1 DEF Waiting, HookDue
      <4> QED
        BY <2>1, <3>1, <4>1, NobodyWaits DEF Serial
    <3>3. \A d \in Ops : d # c => pc[d] \notin CancelPCs
      <4>1. SUFFICES ASSUME NEW d \in Ops, d # c, pc[d] \in CancelPCs PROVE FALSE
        OBVIOUS
      <4>2. Cancelling(d) /\ obj[d] = o
        BY <3>1, <4>1 DEF Serial, CancelsRegistered, CancelsHold, Cancelling
      <4>3. Target(d) \in Ops /\ obj[Target(d)] = obj[c] /\ fpc[Target(d)] # "none"
        BY <4>2, TargetTyped DEF CancelsHold
      <4>4. Target(d) \in {held[c].run, held[c].shell}
        BY <2>1, <4>3, NoNewWork
      <4> QED
        BY <2>1, <4>1, <4>2, <4>4 DEF HeldOnce
    <3> QED
      BY <2>1, <2>3, <3>1, <3>2, <3>3 DEF HookAlone, HookDue, Waiting
  <2> QED
    BY <1>18, <2>2, <2>3 DEF RunnerInternal, IdleIfCurrent, Goto, Return
<1>19. CASE RunnerInternal(c) /\ FiberStarts(c)
  BY <1>19, HookGoesFirst DEF RunnerInternal, FiberStarts, FiberGoto, callVars, sessionVars
<1>20. CASE RunnerInternal(c) /\ ShellReady(c)
  BY <1>20, HookGoesFirst DEF RunnerInternal, ShellReady, callVars, fiberVars, sessionVars
<1>21. CASE RunnerInternal(c) /\ FinishRun(c)
  <2>1. UNCHANGED <<lock, pc, stage>> /\ fpc[c] = "exited" /\ lock[obj[c]] = NoOp
    BY <1>21 DEF RunnerInternal, FinishRun, FiberGoto, callVars, sessionVars
  <2>2. CASE state[obj[c]] = Running(c)
    <3>1. state' = [state EXCEPT ![obj[c]] = Idle] /\ fpc' = [fpc EXCEPT ![c] = "idle"] /\ Current(c)
      BY <1>21, <2>2 DEF RunnerInternal, FinishRun, FiberGoto, Current
    <3> QED
      BY <2>1, <3>1, FiberHookAlone
  <2>3. CASE state[obj[c]] # Running(c)
    <3>1. fpc' = [fpc EXCEPT ![c] = "complete"] /\ UNCHANGED state
      BY <1>21, <2>3 DEF RunnerInternal, FinishRun, FiberGoto
    <3> QED
      BY <2>1, <3>1 DEF Serial, HookAlone, HookDue, Waiting
  <2> QED
    BY <2>2, <2>3
<1>22. CASE RunnerInternal(c) /\ FinishShell(c)
  <2>1. UNCHANGED <<lock, pc, stage>> /\ fpc[c] = "exited" /\ lock[obj[c]] = NoOp /\ pc[c] # "idle"
    BY <1>22 DEF RunnerInternal, FinishShell, callVars, sessionVars, CancelPCs
  <2>2. CASE state[obj[c]] = Shell(c)
    <3>1. state' = [state EXCEPT ![obj[c]] = Idle] /\ fpc' = [fpc EXCEPT ![c] = "idle"] /\ Current(c)
      BY <1>22, <2>2 DEF RunnerInternal, FinishShell, Shell, Current
    <3> QED
      BY <2>1, <3>1, FiberHookAlone
  <2>3. CASE state[obj[c]] # Shell(c)
    <3>1. \A d \in Ops : fpc'[d] = "idle" => fpc[d] = "idle"
      BY <1>22, <2>3 DEF RunnerInternal, FinishShell
    <3>2. \A d \in Ops : ~HookDue(d)
      BY <2>1, HookGoesFirst DEF Serial, HookDue
    <3> QED
      BY <2>1, <3>1, <3>2 DEF HookAlone, HookDue
  <2> QED
    BY <2>2, <2>3
<1>23. CASE RunnerInternal(c) /\ CompleteRun(c)
  BY <1>23, HookGoesFirst DEF RunnerInternal, CompleteRun, FiberGoto, callVars, sessionVars
<1>24. CASE RunnerInternal(c) /\ Work(c)
  BY <1>24, HookGoesFirst DEF RunnerInternal, Work, WorkExits, FiberGoto, callVars,
         sessionVars
<1>25. CASE OnIdleBegins(c) /\ CancelBeginsIdle(c)
  BY <1>25, HookGoesFirst DEF OnIdleBegins, CancelBeginsIdle, Goto, fiberVars
<1>26. CASE OnIdleBegins(c) /\ FiberBeginsIdle(c)
  BY <1>26, HookGoesFirst DEF OnIdleBegins, FiberBeginsIdle, FiberGoto, callVars
<1>27. CASE OnIdleEnds(c) /\ CancelEndsIdle(c)
  BY <1>27, HookGoesFirst DEF OnIdleEnds, CancelEndsIdle, Return, Goto, fiberVars
<1>28. CASE OnIdleEnds(c) /\ FiberEndsIdle(c)
  BY <1>28, HookGoesFirst DEF OnIdleEnds, FiberEndsIdle, FiberGoto, callVars
<1> QED
  BY <1>1, <1>2, <1>3, <1>4, <1>5, <1>6, <1>7, <1>8, <1>9, <1>10, <1>11,
     <1>12, <1>13, <1>14, <1>15, <1>16, <1>17, <1>18, <1>19, <1>20, <1>21,
     <1>22, <1>23, <1>24, <1>25, <1>26, <1>27, <1>28 DEF StepCases


(* The invariant of a session whose fibers are not preempted.              *)
SerialInv == SessionBase /\ CancelsHold /\ HeldOnce /\ (Serial \/ Replaced)

(* SerialInv holds before the first call. *)
LEMMA SerialInit == SessionInit => SerialInv
<1> SUFFICES ASSUME SessionInit PROVE SerialInv
  OBVIOUS
<1>1. SessionBase
  BY BaseInit
<1>2. CancelsHold /\ HeldOnce
  BY DEF SessionInit, Init, CancelsHold, HeldOnce, CancelPCs, Cancelling
<1>3. Serial
  BY DEF SessionInit, Init, Serial, WorkRegistered, CancelsRegistered, WaitingRegistered,
         HookAlone, HookDue, Waiting, CancelPCs
<1> QED
  BY <1>1, <1>2, <1>3 DEF SerialInv

(* SerialInv is inductive without preemption. *)
LEMMA SerialNext ==
  ASSUME ~Preempt, SerialInv, [SessionNext]_allVars
  PROVE  SerialInv'
<1>1. SessionBase'
  BY BaseNext DEF SerialInv
<1>2. ASSUME NEW c \in Ops, SessionStep(c) PROVE SerialInv'
  <2>1. StepCases(c) /\ Turn(c)
    BY <1>2, Cases DEF SessionStep, Turn
  <2>2. CancelsHold' /\ HeldOnce'
    BY <2>1, CancelsHoldNext, HeldOnceNext DEF SerialInv
  <2>3. CASE Replaced
    BY <1>1, <2>1, <2>2, <2>3, ReplacedStays DEF SerialInv
  <2>4. CASE Serial /\ ~Replaced
    <3>1. WorkRegistered' /\ CancelsRegistered' /\ WaitingRegistered'
      BY <2>1, <2>4, WorkRegisteredNext, CancelsRegisteredNext, WaitingRegisteredNext DEF SerialInv
    <3>2. HookAlone'
      BY <2>1, <2>4, HookAloneNext DEF SerialInv
    <3> QED
      BY <1>1, <2>2, <3>1, <3>2 DEF SerialInv, Serial
  <2> QED
    BY <2>3, <2>4 DEF SerialInv
<1>3. CASE UNCHANGED allVars
  <2>1. UNCHANGED <<state, lock, callVars, fiberVars, sessionVars>>
    BY <1>3 DEF allVars, vars
  <2>2. CancelsHold' /\ HeldOnce'
    BY <2>1 DEF SerialInv, CancelsHold, HeldOnce, Cancelling, Target, callVars, fiberVars
  <2>3. Replaced' <=> Replaced
    BY <2>1 DEF Replaced, callVars, fiberVars
  <2>4. Serial' <=> Serial
    BY <2>1 DEF Serial, WorkRegistered, CancelsRegistered, WaitingRegistered, HookAlone, HookDue,
                Waiting, callVars, fiberVars, sessionVars
  <2> QED
    BY <1>1, <2>2, <2>3, <2>4 DEF SerialInv
<1> QED
  BY <1>2, <1>3 DEF SessionNext

(* Where no fiber is preempted between two effects, one run or shell of    *)
(* the session goes on at a time and assertNotBusy is sound, for any       *)
(* number of calls, unless a Runner was given new work while a cancel of   *)
(* its earlier work was still to run the idle hook (run-state.ts 46-121,   *)
(* runner.ts 171-205).                                                     *)
THEOREM SerialWithoutPreemption == ~Preempt => (SessionSpec => []SerialUnlessReplaced)
<1>1. SerialInv => SerialUnlessReplaced
  <2>1. SUFFICES ASSUME SerialInv, Serial PROVE AssertNotBusySound /\ ~Overlap
    BY DEF SerialInv, SerialUnlessReplaced
  <2> USE RunnerAssumption, SessionAssumption DEF SerialInv, SessionBase, SessionTypeOK, TypeOK, Inv
  <2>2. ASSUME NEW f \in Ops, Going(f)
        PROVE  runners \in Objs /\ (state[runners].shell = f \/ state[runners] = Running(f))
    <3>1. Current(f) /\ obj[f] \in Objs
      BY <2>1, <2>2 DEF Going, FibersTracked, CallsConsistent, Unfinished
    <3>2. state[obj[f]] # Idle
      BY <3>1 DEF Current, Running, Idle
    <3> QED
      BY <2>1, <3>1, <3>2 DEF Serial, WorkRegistered, Current
  <2>3. AssertNotBusySound
    <3>1. ASSUME NEW f \in Ops, Going(f) PROVE runners # NoOp /\ Busy(runners)
      <4>1. CASE state[runners].shell = f
        BY <2>2, <3>1, <4>1 DEF Busy, Idle
      <4>2. CASE state[runners] = Running(f)
        BY <2>2, <3>1, <4>2 DEF Busy, Running, Idle
      <4> QED
        BY <2>2, <3>1, <4>1, <4>2
    <3> QED
      BY <3>1 DEF AssertNotBusySound
  <2>4. ~Overlap
    <3>1. SUFFICES ASSUME NEW f \in Ops, NEW g \in Ops, f # g, Going(f), Going(g) PROVE FALSE
      BY DEF Overlap
    <3>2. state[runners].shell = f \/ state[runners] = Running(f)
      BY <2>2, <3>1
    <3>3. state[runners].shell = g \/ state[runners] = Running(g)
      BY <2>2, <3>1
    <3> QED
      BY <3>1, <3>2, <3>3 DEF Running
  <2> QED
    BY <2>3, <2>4
<1>2. ~Preempt /\ SerialInv /\ [SessionNext]_allVars => SerialInv'
  BY SerialNext
<1>3. CASE Preempt
  BY <1>3
<1>4. CASE ~Preempt
  <2>1. SerialInv /\ [SessionNext]_allVars => SerialInv'
    BY <1>2, <1>4
  <2>2. SessionSpec => []SerialUnlessReplaced
    BY <1>1, <2>1, SerialInit, PTL DEF SessionSpec
  <2> QED
    BY <2>2
<1> QED
  BY <1>3, <1>4
===============================================================================
