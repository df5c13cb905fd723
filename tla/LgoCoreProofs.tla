--------------------------- MODULE LgoCoreProofs ---------------------------
(***************************************************************************)
(* Proofs about the execution manager, for every number of executions and  *)
(* every finite set of goroutines: types first, then that the invariant of *)
(* LgoCoreInv is inductive, the goroutines and their counters before the   *)
(* results that are reported.                                              *)
(***************************************************************************)
EXTENDS LgoCoreInv, FiniteSetTheorems, TLAPS

-----------------------------------------------------------------------------
(* Type correctness *)

LEMMA Names == /\ Execs \subseteq Nat \ {0} /\ Execs \subseteq Int
               /\ Execs \subseteq Routines /\ Subs \subseteq Routines
               /\ Execs \cap Subs = {} /\ Nil \notin Execs
               /\ Routines = Execs \cup Subs
  BY NumExecsAssumption, SubsAssumption DEF Execs, Routines, Nil

LEMMA Keep ==
  ASSUME TypeOK
  PROVE  /\ UNCHANGED ctlVars     => TypeCtl'
         /\ UNCHANGED cancelVars  => TypeCancel'
         /\ UNCHANGED helperVars  => TypeHelpers'
         /\ UNCHANGED countVars   => TypeCounts'
         /\ UNCHANGED routineVars => TypeRoutines'
         /\ UNCHANGED crashed     => crashed' \in {"no", "nil ExecutionState", "WaitGroup reused", "negative WaitGroup"}
<1> USE DEF TypeOK
<1>1. UNCHANGED ctlVars => TypeCtl' BY DEF TypeCtl, ctlVars
<1>2. UNCHANGED cancelVars => TypeCancel' BY DEF TypeCancel, cancelVars
<1>3. UNCHANGED helperVars => TypeHelpers' BY DEF TypeHelpers, helperVars
<1>4. UNCHANGED countVars => TypeCounts' BY DEF TypeCounts, countVars
<1>5. UNCHANGED routineVars => TypeRoutines' BY DEF TypeRoutines, routineVars
<1>6. QED BY <1>1, <1>2, <1>3, <1>4, <1>5

LEMMA WgType == ASSUME TypeOK PROVE \A e \in Execs : wg[e] \in Nat
  BY DEF TypeOK, TypeCounts

LEMMA TypeInit == Init => TypeOK
<1> SUFFICES ASSUME Init PROVE TypeOK
  OBVIOUS
<1> USE DEF Init
<1>1. TypeCtl BY NumExecsAssumption DEF TypeCtl
<1>2. TypeCancel BY DEF TypeCancel
<1>3. TypeHelpers BY DEF TypeHelpers, States
<1>4. TypeCounts BY DEF TypeCounts, Counters, NewCounter, NoReport
<1>5. TypeRoutines BY DEF TypeRoutines, RoutinePcs
<1>6. QED BY <1>1, <1>2, <1>3, <1>4, <1>5 DEF TypeOK

LEMMA CallCancelType == ASSUME NEW e, TypeCancel, CallCancel(e),
                               UNCHANGED <<parentDone, ctxDone>>
                        PROVE  TypeCancel'
  BY DEF TypeCancel, CallCancel

LEMMA CallerType == ASSUME TypeOK, StartExec \/ CallerStep PROVE TypeOK'
<1>1. CASE StartExec
  <2>1. cur' \in Execs /\ cur' \in 0 .. NumExecs
    <3>1. cur \in 0 .. NumExecs BY DEF TypeOK, TypeCtl
    <3>2. cur < NumExecs /\ cur' = cur + 1 BY <1>1 DEF StartExec
    <3>3. QED BY <3>1, <3>2, NumExecsAssumption DEF Execs
  <2>2. TypeCtl' BY <1>1, <2>1 DEF StartExec, TypeCtl, TypeOK
  <2>3. QED BY <1>1, <2>2, Keep DEF StartExec, TypeOK
<1>2. CASE CallerStep
  <2>1. cur \in Execs
    BY <1>2 DEF CallerStep, NewExecutionState, SetExecState, GoMain, WaitRoutines,
                ResetExecState, ReportMain, ReportSub, TypeOK, TypeCtl
  <2>2. CASE NewExecutionState
    <3>1. TypeCtl' BY <2>1, <2>2 DEF NewExecutionState, TypeCtl, TypeOK
    <3>2. TypeCancel' BY <2>1, <2>2 DEF NewExecutionState, TypeCancel, TypeOK
    <3>3. TypeHelpers' BY <2>2 DEF NewExecutionState, TypeHelpers, States, TypeOK
    <3>4. QED BY <2>2, <3>1, <3>2, <3>3, Keep DEF NewExecutionState, TypeOK
  <2>3. CASE SetExecState
    <3>1. TypeCtl' BY <2>1, <2>3 DEF SetExecState, TypeCtl, TypeOK
    <3>2. QED BY <2>3, <3>1, Keep DEF SetExecState, TypeOK
  <2>4. CASE GoMain
    <3>1. TypeCtl' BY <2>1, <2>4 DEF GoMain, TypeCtl, TypeOK
    <3>2. mainCounter[cur] \in Counters BY <2>1 DEF TypeOK, TypeCounts
    <3>3. Inc(mainCounter[cur]) \in Counters BY <3>2 DEF Inc, Counters
    <3>4. TypeCounts'
      <4>1. wg[cur] + 1 \in Nat BY <2>1, WgType
      <4>2. QED BY <2>1, <2>4, <3>3, <4>1 DEF GoMain, TypeCounts, TypeOK
    <3>5. TypeRoutines' BY <2>4 DEF GoMain, TypeRoutines, RoutinePcs, TypeOK
    <3>6. QED BY <2>4, <3>1, <3>4, <3>5, Keep DEF GoMain, TypeOK
  <2>5. CASE WaitRoutines
    <3>1. TypeCtl' BY <2>1, <2>5 DEF WaitRoutines, TypeCtl, TypeOK
    <3>2. TypeHelpers' BY <2>5 DEF WaitRoutines, TypeHelpers, States, TypeOK
    <3>3. QED BY <2>5, <3>1, <3>2, Keep DEF WaitRoutines, TypeOK
  <2>6. CASE ResetExecState
    <3>1. TypeCtl' BY <2>1, <2>6 DEF ResetExecState, TypeCtl, TypeOK
    <3>2. QED BY <2>6, <3>1, Keep DEF ResetExecState, TypeOK
  <2>7. CASE ReportMain
    <3>1. TypeCtl' BY <2>1, <2>7 DEF ReportMain, TypeCtl, TypeOK
    <3>2. TypeCounts' BY <2>7 DEF ReportMain, TypeCounts, MainMsg, TypeOK
    <3>3. QED BY <2>7, <3>1, <3>2, Keep DEF ReportMain, TypeOK
  <2>8. CASE ReportSub
    <3>1. TypeCtl' BY <2>1, <2>8 DEF ReportSub, TypeCtl, TypeOK
    <3>2. TypeCounts' BY <2>1, <2>8 DEF ReportSub, TypeCounts, TypeOK
    <3>3. QED BY <2>8, <3>1, <3>2, Keep DEF ReportSub, TypeOK
  <2>9. QED BY <1>2, <2>2, <2>3, <2>4, <2>5, <2>6, <2>7, <2>8 DEF CallerStep
<1>3. QED BY <1>1, <1>2

LEMMA HelperType ==
  ASSUME TypeOK, NEW e \in Execs,
         ParentCancelled(e) \/ WatcherFires(e) \/ CancelStep(e)
           \/ WaiterStep(e) \/ TimerStep(e)
  PROVE  TypeOK'
<1>1. CASE ParentCancelled(e)
  <2>1. TypeCancel' BY <1>1 DEF ParentCancelled, Created, TypeCancel, TypeOK
  <2>2. QED BY <1>1, <2>1, Keep DEF ParentCancelled, TypeOK
<1>2. CASE WatcherFires(e)
  <2>1. TypeCancel' BY <1>2, CallCancelType DEF WatcherFires, TypeOK
  <2>2. TypeHelpers' BY <1>2 DEF WatcherFires, TypeHelpers, States, TypeOK
  <2>3. QED BY <1>2, <2>1, <2>2, Keep DEF WatcherFires, TypeOK
<1>3. CASE CancelCheckCurrent(e)
  <2>1. TypeCancel' BY <1>3 DEF CancelCheckCurrent, TypeCancel, TypeOK
  <2>2. QED BY <1>3, <2>1, Keep DEF CancelCheckCurrent, TypeOK
<1>4. CASE CancelStore(e)
  <2>1. TypeCancel' BY <1>4 DEF CancelStore, TypeCancel, TypeOK
  <2>2. TypeCtl' BY <1>4 DEF CancelStore, TypeCtl, TypeOK
  <2>3. QED BY <1>4, <2>1, <2>2, Keep DEF CancelStore, TypeOK
<1>5. CASE CancelCtx(e)
  <2>1. TypeCancel' BY <1>5 DEF CancelCtx, TypeCancel, TypeOK
  <2>2. QED BY <1>5, <2>1, Keep DEF CancelCtx, TypeOK
<1>6. CASE WaiterStarts(e)
  <2>1. TypeHelpers' BY <1>6 DEF WaiterStarts, TypeHelpers, States, TypeOK
  <2>2. QED BY <1>6, <2>1, Keep DEF WaiterStarts, TypeOK
<1>7. CASE WaiterWakes(e)
  <2>1. TypeHelpers' BY <1>7 DEF WaiterWakes, TypeHelpers, States, TypeOK
  <2>2. QED BY <1>7, <2>1, Keep DEF WaiterWakes, TypeOK
<1>8. CASE WaiterCancels(e)
  <2>1. TypeCancel' BY <1>8, CallCancelType DEF WaiterCancels, TypeOK
  <2>2. TypeHelpers' BY <1>8 DEF WaiterCancels, TypeHelpers, States, TypeOK
  <2>3. QED BY <1>8, <2>1, <2>2, Keep DEF WaiterCancels, TypeOK
<1>9. CASE TimerStarts(e)
  <2>1. TypeHelpers' BY <1>9 DEF TimerStarts, TypeHelpers, States, TypeOK
  <2>2. QED BY <1>9, <2>1, Keep DEF TimerStarts, TypeOK
<1>10. CASE TimerFires(e)
  <2>1. TypeHelpers' BY <1>10 DEF TimerFires, TypeHelpers, States, TypeOK
  <2>2. QED BY <1>10, <2>1, Keep DEF TimerFires, TypeOK
<1>11. QED BY <1>1, <1>2, <1>3, <1>4, <1>5, <1>6, <1>7, <1>8, <1>9, <1>10
       DEF CancelStep, WaiterStep, TimerStep

LEMMA RoutineType ==
  ASSUME TypeOK, NEW r \in Routines, BodyStep(r) \/ PollStep(r) \/ RuntimeStep(r)
  PROVE  TypeOK'
<1>1. ASSUME NEW c \in Subs, Spawn(r, c) PROVE TypeOK'
  <2>1. TypeRoutines'
    BY <1>1, Names DEF Spawn, TypeRoutines, RoutinePcs, TypeCtl, TypeOK
  <2>2. QED BY <1>1, <2>1, Keep DEF Spawn, TypeOK
<1>2. ASSUME NEW v \in Outcomes, Finish(r, v) PROVE TypeOK'
  <2>1. TypeRoutines'
    BY <1>2, BoundsAssumption DEF Finish, TypeRoutines, RoutinePcs, TypeOK
  <2>2. QED BY <1>2, <2>1, Keep DEF Finish, TypeOK
<1>3. CASE PollFlag(r)
  <2>1. TypeRoutines' BY <1>3 DEF PollFlag, TypeRoutines, RoutinePcs, TypeOK
  <2>2. QED BY <1>3, <2>1, Keep DEF PollFlag, TypeOK
<1>4. CASE PollStep(r)
  <2>1. CASE PollState(r)
    <3>1. execState \in Execs \cup {Nil} BY DEF TypeOK, TypeCtl
    <3>2. TypeRoutines' BY <2>1, <3>1 DEF PollState, TypeRoutines, RoutinePcs, TypeOK
    <3>3. QED BY <2>1, <3>2, Keep DEF PollState, TypeOK
  <2>2. CASE PollContext(r)
    <3>1. TypeRoutines' BY <2>2 DEF PollContext, TypeRoutines, RoutinePcs, TypeOK
    <3>2. QED BY <2>2, <3>1, Keep DEF PollContext, TypeOK
  <2>3. QED BY <1>4, <2>1, <2>2 DEF PollStep
<1>5. CASE RecordResult(r)
  <2>1. ASSUME NEW c \in Counters PROVE RecordIn(c, res[r]) \in Counters
    BY UintMaxAssumption DEF RecordIn, Dec, Counters
  <2>2. r \in Execs => RecordIn(mainCounter[r], res[r]) \in Counters
    BY <2>1 DEF TypeOK, TypeCounts
  <2>3. ectx[r] # Nil => RecordIn(subCounter[ectx[r]], res[r]) \in Counters
    BY <2>1 DEF TypeOK, TypeCounts, TypeRoutines
  <2>4. TypeCounts' BY <1>5, <2>2, <2>3 DEF RecordResult, TypeCounts, TypeOK
  <2>5. TypeRoutines' BY <1>5 DEF RecordResult, TypeRoutines, RoutinePcs, TypeOK
  <2>6. QED BY <1>5, <2>4, <2>5, Keep DEF RecordResult, TypeOK
<1>6. CASE WgDone(r)
  <2>1. ectx[r] \in Execs \/ ectx[r] = Nil BY DEF TypeOK, TypeRoutines
  <2>2. TypeCounts'
    <3>1. ectx[r] \in Execs /\ wg[ectx[r]] # 0 => wg[ectx[r]] - 1 \in Nat
      BY WgType
    <3>2. QED BY <1>6, <2>1, <3>1 DEF WgDone, TypeCounts, TypeOK
  <2>3. TypeRoutines' BY <1>6 DEF WgDone, TypeRoutines, RoutinePcs, TypeOK
  <2>4. TypeHelpers' BY <1>6 DEF WgDone, TypeHelpers, States, TypeOK
  <2>5. QED BY <1>6, <2>2, <2>3, <2>4, Keep DEF WgDone, TypeOK
<1>7. CASE GoroutineCancels(r)
  <2>1. TypeCancel' BY <1>7, CallCancelType DEF GoroutineCancels, TypeOK
  <2>2. TypeRoutines' BY <1>7 DEF GoroutineCancels, TypeRoutines, RoutinePcs, TypeOK
  <2>3. QED BY <1>7, <2>1, <2>2, Keep DEF GoroutineCancels, TypeOK
<1>8. QED BY <1>1, <1>2, <1>3, <1>4, <1>5, <1>6, <1>7 DEF BodyStep, RuntimeStep

LEMMA InitStepType == ASSUME TypeOK, NEW c \in Subs, InitStep(c) PROVE TypeOK'
<1>1. CASE InitAdd(c)
  <2>1. TypeCounts'
    <3>1. ectx[c] \in Execs => wg[ectx[c]] + 1 \in Nat BY WgType
    <3>2. QED BY <1>1, <3>1 DEF InitAdd, TypeCounts, TypeOK
  <2>2. TypeRoutines' BY <1>1 DEF InitAdd, TypeRoutines, RoutinePcs, TypeOK
  <2>3. QED BY <1>1, <2>1, <2>2, Keep DEF InitAdd, TypeOK
<1>2. CASE InitCount(c)
  <2>1. ectx[c] \in Execs => Inc(subCounter[ectx[c]]) \in Counters
    <3>1. ectx[c] \in Execs => subCounter[ectx[c]] \in Counters
      BY DEF TypeOK, TypeCounts
    <3>2. QED BY <3>1 DEF Inc, Counters
  <2>2. TypeCounts' BY <1>2, <2>1 DEF InitCount, TypeCounts, TypeOK
  <2>3. TypeRoutines' BY <1>2 DEF InitCount, TypeRoutines, RoutinePcs, TypeOK
  <2>4. QED BY <1>2, <2>2, <2>3, Keep DEF InitCount, TypeOK
<1>3. QED BY <1>1, <1>2 DEF InitStep

LEMMA TypeNext == TypeOK /\ [Next]_vars => TypeOK'
<1>1. TypeOK /\ UNCHANGED vars => TypeOK'
  BY Keep DEF vars, TypeOK
<1>2. TypeOK /\ Next => TypeOK'
  BY CallerType, HelperType, RoutineType, InitStepType DEF Next
<1>3. QED BY <1>1, <1>2

\* Every variable keeps its type, for every instance: the state of core.go that
\* the rest of this module takes for granted.
THEOREM TypeCorrect == Spec => []TypeOK
<1>1. QED BY TypeInit, TypeNext, PTL DEF Spec

-----------------------------------------------------------------------------
(* The steps of the system, sorted by what they can disturb.               *)

RoutineMoves ==
  \/ \E r \in Routines : \/ \E c \in Subs : Spawn(r, c)
                         \/ \E v \in Outcomes : Finish(r, v)
                         \/ PollFlag(r) \/ PollStep(r)
                         \/ RecordResult(r) \/ WgDone(r) \/ GoroutineCancels(r)
  \/ \E c \in Subs : InitAdd(c) \/ InitCount(c)

CallerMoves == StartExec \/ CallerStep

HelperMoves == \E e \in Execs :
  \/ ParentCancelled(e) \/ WatcherFires(e)
  \/ CancelCheckCurrent(e) \/ CancelStore(e) \/ CancelCtx(e)
  \/ WaiterStarts(e) \/ WaiterWakes(e) \/ WaiterCancels(e)
  \/ TimerStarts(e) \/ TimerFires(e)

pos == <<execState, callerPc, cur>>

LEMMA Moves == [Next]_vars => RoutineMoves \/ CallerMoves \/ HelperMoves \/ UNCHANGED vars
  BY DEF Next, RoutineMoves, CallerMoves, HelperMoves, BodyStep, RuntimeStep,
         InitStep, CancelStep, WaiterStep, TimerStep

LEMMA RoutineMovesKeep == RoutineMoves => UNCHANGED pos
  BY DEF RoutineMoves, Spawn, Finish, PollFlag, PollStep, PollState, PollContext, RecordResult, WgDone,
         GoroutineCancels, InitAdd, InitCount, ctlVars, pos

LEMMA HelperMovesKeep == HelperMoves => UNCHANGED pos /\ UNCHANGED routineVars
                                        /\ UNCHANGED countVars
  BY DEF HelperMoves, ParentCancelled, WatcherFires, CancelCheckCurrent, CancelStore,
         CancelCtx, WaiterStarts, WaiterWakes, WaiterCancels, TimerStarts,
         TimerFires, ctlVars, pos

LEMMA PosFrame == [Next]_vars => CallerMoves \/ UNCHANGED pos
  BY Moves, RoutineMovesKeep, HelperMovesKeep DEF vars, ctlVars, pos

LEMMA RoutineFrame == [Next]_vars => RoutineMoves \/ GoMain \/ UNCHANGED routineVars
<1>1. StartExec => UNCHANGED routineVars BY DEF StartExec
<1>2. CallerStep => GoMain \/ UNCHANGED routineVars
  BY DEF CallerStep, NewExecutionState, SetExecState, WaitRoutines, ResetExecState,
         ReportMain, ReportSub
<1>3. QED BY <1>1, <1>2, Moves, HelperMovesKeep DEF vars, CallerMoves

LEMMA Types == ASSUME TypeOK
               PROVE  /\ TypeRoutines /\ TypeHelpers
                      /\ cur \in Int /\ (callerPc # "idle" => cur \in Execs)
<1>1. cur \in 0 .. NumExecs BY DEF TypeOK, TypeCtl
<1>2. cur \in Int BY <1>1
<1>3. QED BY <1>2 DEF TypeOK, TypeCtl

\* What the two-armed actions do to the routine they belong to.
LEMMA RecordShape ==
  ASSUME NEW r, RecordResult(r)
  PROVE  /\ rpc[r] = "ended"
         /\ rpc' = rpc \/ (ectx[r] # Nil /\ rpc' = [rpc EXCEPT ![r] = "recorded"])
         /\ UNCHANGED <<ectx, spawner, res, home, wg, waiter>>
         /\ UNCHANGED pos
  BY DEF RecordResult, helperVars, ctlVars, pos

LEMMA DoneShape ==
  ASSUME NEW r, WgDone(r)
  PROVE  /\ rpc[r] = "recorded"
         /\ \/ rpc' = rpc
            \/ rpc' = [rpc EXCEPT ![r] = "exit"] /\ (r \in Subs => res[r] = "ok")
            \/ rpc' = [rpc EXCEPT ![r] = "cancel"] /\ r \in Subs /\ res[r] # "ok"
         /\ UNCHANGED <<ectx, spawner, res, home, mainCounter, subCounter>>
         /\ UNCHANGED pos
  BY DEF WgDone, ctlVars, pos

LEMMA PollShape ==
  ASSUME NEW r, PollFlag(r) \/ PollStep(r)
  PROVE  /\ rpc[r] \in {"run", "poll", "select"}
         /\ \E p \in {"run", "poll", "select", "ended"} : rpc' = [rpc EXCEPT ![r] = p]
         /\ UNCHANGED <<ectx, spawner, home, countVars, crashed>>
         /\ UNCHANGED pos
  BY DEF PollFlag, PollStep, PollState, PollContext, ctlVars, pos

\* The caller only moves forward.
LEMMA Forward ==
  ASSUME TypeOK, [Next]_vars, NEW e \in Execs
  PROVE  /\ Started(e)   => Started(e)'
         /\ Waited(e)    => Waited(e)'
         /\ PastReset(e) => PastReset(e)'
         /\ PastMain(e)  => PastMain(e)'
         /\ Returned(e)  => Returned(e)'
<1> USE DEF Started, Waited, PastReset, PastMain, Returned
<1>1. CASE UNCHANGED pos BY <1>1 DEF pos
<1>2. CASE StartExec
  BY <1>2, Names, Types DEF StartExec
<1>3. CASE CallerStep
  BY <1>3 DEF CallerStep, NewExecutionState, SetExecState, GoMain, WaitRoutines,
              ResetExecState, ReportMain, ReportSub
<1>4. QED BY <1>1, <1>2, <1>3, PosFrame DEF CallerMoves

-----------------------------------------------------------------------------
(* Structure *)

LEMMA CurrentNext == ASSUME TypeOK, Current, [Next]_vars PROVE Current'
<1>1. CASE UNCHANGED pos BY <1>1 DEF Current, pos
<1>2. CASE StartExec BY <1>2 DEF StartExec, Current
<1>3. CASE CallerStep
  BY <1>3 DEF CallerStep, NewExecutionState, SetExecState, GoMain, WaitRoutines,
              ResetExecState, ReportMain, ReportSub, Current
<1>4. QED BY <1>1, <1>2, <1>3, PosFrame DEF CallerMoves

LEMMA MainsNext == ASSUME TypeOK, Structure, [Next]_vars PROVE Mains'
<1>0. TypeRoutines /\ cur \in Int BY Types
<1> USE <1>0, Names DEF Structure, Mains, Started
<1>1. CASE UNCHANGED vars BY <1>1 DEF vars, ctlVars, routineVars
<1>2. CASE HelperMoves BY <1>2, HelperMovesKeep DEF pos, routineVars
<1>3. CASE StartExec BY <1>3 DEF StartExec, routineVars
<1>4. CASE CallerStep
  <2>1. CASE GoMain BY <2>1, Types DEF GoMain, TypeRoutines
  <2>2. CASE ~GoMain
    BY <1>4, <2>2 DEF CallerStep, NewExecutionState, SetExecState, WaitRoutines,
              ResetExecState, ReportMain, ReportSub, routineVars
  <2>3. QED BY <2>1, <2>2
<1>5. CASE RoutineMoves
  <2> USE DEF TypeRoutines, ctlVars, pos
  <2>1. ASSUME NEW r \in Routines, NEW c \in Subs, Spawn(r, c) PROVE Mains'
    BY <2>1 DEF Spawn
  <2>2. ASSUME NEW c \in Subs, InitAdd(c) PROVE Mains'
    BY <2>2 DEF InitAdd
  <2>3. ASSUME NEW c \in Subs, InitCount(c) PROVE Mains'
    BY <2>3 DEF InitCount, Spawners, PendingPcs
  <2>4. ASSUME NEW r \in Routines, NEW v \in Outcomes, Finish(r, v) PROVE Mains'
    BY <2>4 DEF Finish
  <2>5. ASSUME NEW r \in Routines, PollFlag(r) \/ PollStep(r) PROVE Mains'
    BY <2>5 DEF PollFlag, PollStep, PollState, PollContext
  <2>6. ASSUME NEW r \in Routines, RecordResult(r) PROVE Mains'
    BY <2>6, RecordShape
  <2>7. ASSUME NEW r \in Routines, WgDone(r) PROVE Mains'
    BY <2>7, DoneShape
  <2>8. ASSUME NEW r \in Routines, GoroutineCancels(r) PROVE Mains'
    BY <2>8 DEF GoroutineCancels
  <2>9. QED BY <1>5, <2>1, <2>2, <2>3, <2>4, <2>5, <2>6, <2>7, <2>8 DEF RoutineMoves
<1>6. QED BY <1>1, <1>2, <1>3, <1>4, <1>5, Moves DEF CallerMoves

LEMMA ChildrenNext == ASSUME TypeOK, Structure, [Next]_vars PROVE Children'
<1>0. /\ TypeRoutines /\ cur \in Int
      /\ \A e \in Execs : Started(e) => Started(e)'
  BY Types, Forward
<1> USE <1>0, Names DEF Structure, Children, TypeRoutines
<1>1. CASE UNCHANGED vars BY <1>1 DEF vars, ctlVars, routineVars
<1>2. CASE HelperMoves BY <1>2, HelperMovesKeep DEF routineVars
<1>3. CASE StartExec BY <1>3 DEF StartExec, routineVars
<1>4. CASE CallerStep
  <2>1. CASE GoMain BY <2>1, Types DEF GoMain
  <2>2. CASE ~GoMain
    BY <1>4, <2>2 DEF CallerStep, NewExecutionState, SetExecState, WaitRoutines,
              ResetExecState, ReportMain, ReportSub, routineVars
  <2>3. QED BY <2>1, <2>2
<1>5. CASE RoutineMoves
  <2>1. ASSUME NEW r \in Routines, NEW c \in Subs, Spawn(r, c) PROVE Children'
    <3>1. home[r] \in Execs /\ Started(home[r])
      BY <2>1 DEF Spawn, Mains
    <3>2. QED BY <2>1, <3>1 DEF Spawn
  <2>2. ASSUME NEW c \in Subs, InitAdd(c) PROVE Children'
    BY <2>2 DEF InitAdd
  <2>3. ASSUME NEW c \in Subs, InitCount(c) PROVE Children'
    BY <2>3 DEF InitCount, Spawners, PendingPcs
  <2>4. ASSUME NEW r \in Routines, NEW v \in Outcomes, Finish(r, v) PROVE Children'
    BY <2>4 DEF Finish
  <2>5. ASSUME NEW r \in Routines, PollFlag(r) \/ PollStep(r) PROVE Children'
    <3>1. PICK p \in {"run", "poll", "select", "ended"} : rpc' = [rpc EXCEPT ![r] = p]
      BY <2>5, PollShape
    <3>2. rpc[r] # "unborn" /\ UNCHANGED <<ectx, home>> BY <2>5, PollShape
    <3>3. QED BY <3>1, <3>2, RoutineMovesKeep, <1>5 DEF pos
  <2>6. ASSUME NEW r \in Routines, RecordResult(r) PROVE Children'
    <3>1. CASE rpc' = rpc BY <2>6, <3>1, RecordShape
    <3>2. CASE rpc' = [rpc EXCEPT ![r] = "recorded"] BY <2>6, <3>2, RecordShape
    <3>3. QED BY <2>6, <3>1, <3>2, RecordShape
  <2>7. ASSUME NEW r \in Routines, WgDone(r) PROVE Children'
    <3>1. CASE rpc' = rpc BY <2>7, <3>1, DoneShape
    <3>2. ASSUME NEW p \in {"exit", "cancel"}, rpc' = [rpc EXCEPT ![r] = p]
          PROVE  Children'
      BY <2>7, <3>2, DoneShape
    <3>3. QED BY <2>7, <3>1, <3>2, DoneShape
  <2>8. ASSUME NEW r \in Routines, GoroutineCancels(r) PROVE Children'
    BY <2>8 DEF GoroutineCancels
  <2>9. QED BY <1>5, <2>1, <2>2, <2>3, <2>4, <2>5, <2>6, <2>7, <2>8 DEF RoutineMoves
<1>6. QED BY <1>1, <1>2, <1>3, <1>4, <1>5, Moves DEF CallerMoves

LEMMA BodiesNext == ASSUME TypeOK, Structure, [Next]_vars PROVE Bodies'
<1>0. TypeRoutines BY Types
<1> USE <1>0, Names DEF Structure, Bodies, TypeRoutines, RunPcs, EndPcs
<1>1. CASE UNCHANGED routineVars BY <1>1 DEF routineVars
<1>2. CASE GoMain
  BY <1>2, Types DEF GoMain, Mains, Started
<1>3. CASE RoutineMoves
  <2>1. ASSUME NEW r \in Routines, NEW c \in Subs, Spawn(r, c) PROVE Bodies'
    BY <2>1 DEF Spawn, Current
  <2>2. ASSUME NEW c \in Subs, InitAdd(c) PROVE Bodies'
    BY <2>2 DEF InitAdd
  <2>3. ASSUME NEW c \in Subs, InitCount(c) PROVE Bodies'
    BY <2>3 DEF InitCount, Spawners, PendingPcs
  <2>4. ASSUME NEW r \in Routines, NEW v \in Outcomes, Finish(r, v) PROVE Bodies'
    BY <2>4, BoundsAssumption DEF Finish
  <2>5. ASSUME NEW r \in Routines, PollFlag(r) \/ PollStep(r) PROVE Bodies'
    BY <2>5 DEF PollFlag, PollStep, PollState, PollContext
  <2>6. ASSUME NEW r \in Routines, RecordResult(r) PROVE Bodies'
    BY <2>6, RecordShape
  <2>7. ASSUME NEW r \in Routines, WgDone(r) PROVE Bodies'
    BY <2>7, DoneShape
  <2>8. ASSUME NEW r \in Routines, GoroutineCancels(r) PROVE Bodies'
    BY <2>8 DEF GoroutineCancels
  <2>9. QED BY <1>3, <2>1, <2>2, <2>3, <2>4, <2>5, <2>6, <2>7, <2>8 DEF RoutineMoves
<1>4. QED BY <1>1, <1>2, <1>3, RoutineFrame

LEMMA SpawnersNext == ASSUME TypeOK, Structure, Lineage, [Next]_vars PROVE Spawners'
<1>0. TypeRoutines BY Types
<1> USE <1>0, Names DEF Structure, Spawners, TypeRoutines, PendingPcs
<1>1. CASE UNCHANGED routineVars BY <1>1 DEF routineVars
<1>2. CASE GoMain
  BY <1>2, Types DEF GoMain, Mains, Started
<1>3. CASE RoutineMoves
  <2>1. ASSUME NEW r \in Routines, NEW c \in Subs, Spawn(r, c) PROVE Spawners'
    <3>1. rpc[r] = "run" /\ rpc[c] = "unborn" /\ r # c BY <2>1 DEF Spawn
    <3>2. home[r] \in Execs BY <3>1 DEF Mains, Children
    <3>3. execState = home[r] => ectx[r] = home[r]
      BY <3>1, <3>2 DEF Lineage, PastReset, Current
    <3>4. \A d \in Subs : rpc[d] \in PendingPcs => spawner[d] # r
      BY <3>1
    <3>5. QED BY <2>1, <3>1, <3>3, <3>4 DEF Spawn
  <2>2. ASSUME NEW c \in Subs, InitAdd(c) PROVE Spawners'
    BY <2>2 DEF InitAdd
  <2>3. ASSUME NEW c \in Subs, InitCount(c) PROVE Spawners'
    BY <2>3 DEF InitCount
  <2>4. ASSUME NEW r \in Routines, NEW v \in Outcomes, Finish(r, v) PROVE Spawners'
    BY <2>4 DEF Finish
  <2>5. ASSUME NEW r \in Routines, PollFlag(r) \/ PollStep(r) PROVE Spawners'
    <3>1. rpc[r] \in {"run", "poll", "select"} /\ UNCHANGED <<ectx, spawner, home>>
      BY <2>5 DEF PollFlag, PollStep, PollState, PollContext
    <3>2. \E p \in {"run", "poll", "select", "ended"} : rpc' = [rpc EXCEPT ![r] = p]
      BY <2>5 DEF PollFlag, PollStep, PollState, PollContext
    <3>3. QED BY <3>1, <3>2
  <2>6. ASSUME NEW r \in Routines, RecordResult(r) PROVE Spawners'
    <3>1. CASE rpc' = rpc BY <2>6, <3>1, RecordShape
    <3>2. CASE rpc' = [rpc EXCEPT ![r] = "recorded"] BY <2>6, <3>2, RecordShape
    <3>3. QED BY <2>6, <3>1, <3>2, RecordShape
  <2>7. ASSUME NEW r \in Routines, WgDone(r) PROVE Spawners'
    <3>1. CASE rpc' = rpc BY <2>7, <3>1, DoneShape
    <3>2. ASSUME NEW p \in {"exit", "cancel"}, rpc' = [rpc EXCEPT ![r] = p]
          PROVE  Spawners'
      <4>1. /\ rpc[r] = "recorded" /\ UNCHANGED <<ectx, spawner, home>>
            /\ \A x \in Routines : rpc'[x] = IF x = r THEN p ELSE rpc[x]
        BY <2>7, <3>2, DoneShape
      <4>2. QED BY <3>2, <4>1
    <3>3. QED BY <2>7, <3>1, <3>2, DoneShape
  <2>8. ASSUME NEW r \in Routines, GoroutineCancels(r) PROVE Spawners'
    BY <2>8 DEF GoroutineCancels
  <2>9. QED BY <1>3, <2>1, <2>2, <2>3, <2>4, <2>5, <2>6, <2>7, <2>8 DEF RoutineMoves
<1>4. QED BY <1>1, <1>2, <1>3, RoutineFrame

LEMMA StructureNext == ASSUME TypeOK, Structure, Lineage, [Next]_vars
                       PROVE  Structure'
  BY CurrentNext, MainsNext, ChildrenNext, BodiesNext, SpawnersNext DEF Structure

-----------------------------------------------------------------------------
(* Waiting: why ExecLgoEntryPoint returns                                  *)

\* The code of an execution that is over stays over: nobody is left to start
\* anything.
LEMMA OverStable ==
  ASSUME TypeOK, Structure, [Next]_vars, NEW e \in Execs, Started(e), CodeOver(e)
  PROVE  CodeOver(e)'
<1>0. TypeRoutines BY Types
<1> USE <1>0, Names DEF CodeOver, TypeRoutines, Structure
<1>1. CASE UNCHANGED routineVars BY <1>1 DEF routineVars
<1>2. CASE GoMain BY <1>2, Types DEF GoMain, Mains, Started
<1>3. CASE RoutineMoves
  <2>1. ASSUME NEW r \in Routines, NEW c \in Subs, Spawn(r, c) PROVE CodeOver(e)'
    BY <2>1 DEF Spawn
  <2>2. ASSUME NEW c \in Subs, InitAdd(c) PROVE CodeOver(e)'
    BY <2>2 DEF InitAdd
  <2>3. ASSUME NEW c \in Subs, InitCount(c) PROVE CodeOver(e)'
    BY <2>3 DEF InitCount, Spawners, PendingPcs
  <2>4. ASSUME NEW r \in Routines, NEW v \in Outcomes, Finish(r, v) PROVE CodeOver(e)'
    BY <2>4 DEF Finish
  <2>5. ASSUME NEW r \in Routines, PollFlag(r) \/ PollStep(r) PROVE CodeOver(e)'
    <3>1. rpc[r] \in {"run", "poll", "select"} /\ UNCHANGED home
      BY <2>5 DEF PollFlag, PollStep, PollState, PollContext
    <3>2. \E p \in {"run", "poll", "select", "ended"} : rpc' = [rpc EXCEPT ![r] = p]
      BY <2>5 DEF PollFlag, PollStep, PollState, PollContext
    <3>3. QED BY <3>1, <3>2
  <2>6. ASSUME NEW r \in Routines, RecordResult(r) PROVE CodeOver(e)'
    BY <2>6, RecordShape
  <2>7. ASSUME NEW r \in Routines, WgDone(r) PROVE CodeOver(e)'
    BY <2>7, DoneShape
  <2>8. ASSUME NEW r \in Routines, GoroutineCancels(r) PROVE CodeOver(e)'
    BY <2>8 DEF GoroutineCancels
  <2>9. QED BY <1>3, <2>1, <2>2, <2>3, <2>4, <2>5, <2>6, <2>7, <2>8 DEF RoutineMoves
<1>4. QED BY <1>1, <1>2, <1>3, RoutineFrame

\* What can move the helper goroutines.
LEMMA HelperFrame ==
  [Next]_vars => \/ UNCHANGED helperVars \/ NewExecutionState \/ WaitRoutines
                 \/ \E e \in Execs : WatcherFires(e) \/ WaiterStep(e) \/ TimerStep(e)
                 \/ \E r \in Routines : WgDone(r)
<1>1. CallerMoves => NewExecutionState \/ WaitRoutines \/ UNCHANGED helperVars
  BY DEF CallerMoves, CallerStep, StartExec, SetExecState, GoMain, ResetExecState,
         ReportMain, ReportSub
<1>2. RoutineMoves => (\E r \in Routines : WgDone(r)) \/ UNCHANGED helperVars
  BY DEF RoutineMoves, Spawn, Finish, PollFlag, PollStep, PollState, PollContext, RecordResult,
         GoroutineCancels, InitAdd, InitCount
<1>3. HelperMoves => \/ UNCHANGED helperVars
                     \/ \E e \in Execs : WatcherFires(e) \/ WaiterStep(e) \/ TimerStep(e)
  BY DEF HelperMoves, ParentCancelled, CancelCheckCurrent, CancelStore, CancelCtx,
         WaiterStep, TimerStep
<1>4. QED BY <1>1, <1>2, <1>3, Moves DEF vars

\* Contexts stay done, except that newExecutionState makes a fresh one.
LEMMA DoneStable ==
  ASSUME TypeOK, [Next]_vars, NEW e \in Execs, ctxDone[e]
  PROVE  ctxDone'[e] \/ (e = cur /\ callerPc = "starting")
<1>1. TypeCancel BY DEF TypeOK
<1>2. CASE NewExecutionState BY <1>1, <1>2 DEF NewExecutionState, TypeCancel
<1>3. CASE UNCHANGED ctxDone BY <1>3
<1>4. ASSUME NEW f \in Execs, ParentCancelled(f) \/ CancelCtx(f)
      PROVE  ctxDone'[e]
  BY <1>1, <1>4 DEF ParentCancelled, CancelCtx, TypeCancel
<1>5. NewExecutionState \/ UNCHANGED ctxDone
        \/ \E f \in Execs : ParentCancelled(f) \/ CancelCtx(f)
  <2>1. CallerMoves => NewExecutionState \/ UNCHANGED ctxDone
    BY DEF CallerMoves, CallerStep, StartExec, SetExecState, GoMain, WaitRoutines,
           ResetExecState, ReportMain, ReportSub, cancelVars
  <2>2. RoutineMoves => UNCHANGED ctxDone
    BY DEF RoutineMoves, Spawn, Finish, PollFlag, PollStep, PollState, PollContext, RecordResult, WgDone,
           GoroutineCancels, InitAdd, InitCount, cancelVars
  <2>3. HelperMoves => UNCHANGED ctxDone
                         \/ \E f \in Execs : ParentCancelled(f) \/ CancelCtx(f)
    BY DEF HelperMoves, WatcherFires, CancelCheckCurrent, CancelStore, WaiterStarts,
           WaiterWakes, WaiterCancels, TimerStarts, TimerFires, cancelVars
  <2>4. QED BY <2>1, <2>2, <2>3, Moves DEF vars, cancelVars
<1>6. QED BY <1>2, <1>3, <1>4, <1>5

\* The timer of waitRoutines fires once and for all.
LEMMA TimerStable ==
  ASSUME TypeOK, Helpers, [Next]_vars, NEW e \in Execs, timer[e] = "exit"
  PROVE  timer'[e] = "exit"
<1>0. TypeHelpers BY Types
<1> USE <1>0 DEF TypeHelpers
<1>1. CASE WaitRoutines
  <2>1. e # cur BY <1>1, Names, Types DEF WaitRoutines, Helpers, Waited
  <2>2. QED BY <1>1, <2>1 DEF WaitRoutines
<1>2. ASSUME NEW f \in Execs, TimerStep(f) PROVE timer'[e] = "exit"
  BY <1>2 DEF TimerStep, TimerStarts, TimerFires
<1>3. ASSUME NEW f \in Execs, WaiterStep(f) PROVE UNCHANGED timer
  BY <1>3 DEF WaiterStep, WaiterStarts, WaiterWakes, WaiterCancels
<1>4. QED BY <1>1, <1>2, <1>3, HelperFrame
      DEF helperVars, NewExecutionState, WatcherFires, WgDone

LEMMA HelpersNext == ASSUME TypeOK, Structure, Helpers, [Next]_vars PROVE Helpers'
<1>0. TypeHelpers /\ cur \in Int BY Types
<1> SUFFICES ASSUME NEW e \in Execs
    PROVE  /\ timer'[e] \in {"sleep", "exit"} => ctxDone'[e]
           /\ waitDone'[e] => timer'[e] = "exit" \/ waiter'[e] \in {"cancel", "exit"}
           /\ timer'[e] # "none" \/ waiter'[e] # "none" \/ waitDone'[e] => Waited(e)'
           /\ PastReset(e)' => waitDone'[e]
  BY DEF Helpers
<1>1. /\ timer[e] \in {"sleep", "exit"} => ctxDone[e]
      /\ waitDone[e] => timer[e] = "exit" \/ waiter[e] \in {"cancel", "exit"}
      /\ timer[e] # "none" \/ waiter[e] # "none" \/ waitDone[e] => Waited(e)
      /\ PastReset(e) => waitDone[e]
  BY DEF Helpers
<1>2. Waited(e) => Waited(e)' BY Forward
<1>3. timer[e] # "none" /\ ctxDone[e] => ctxDone'[e]
  <2>1. ~(Waited(e) /\ e = cur /\ callerPc = "starting")
    BY <1>0, Names DEF Waited
  <2>2. QED BY <1>1, <2>1, DoneStable
<1>4. PastReset(e)' => PastReset(e) \/ (callerPc = "waiting" /\ waitDone[e] /\ e = cur)
  <2>1. CASE UNCHANGED pos BY <2>1 DEF pos, PastReset
  <2>2. CASE StartExec BY <2>2, <1>0, Names DEF StartExec, PastReset
  <2>3. CASE CallerStep
    BY <2>3 DEF CallerStep, NewExecutionState, SetExecState, GoMain, WaitRoutines,
                ResetExecState, ReportMain, ReportSub, PastReset
  <2>4. QED BY <2>1, <2>2, <2>3, PosFrame DEF CallerMoves
<1>5. CASE UNCHANGED helperVars
  BY <1>1, <1>2, <1>3, <1>4, <1>5 DEF helperVars
<1>6. CASE NewExecutionState
  BY <1>1, <1>2, <1>3, <1>4, <1>6 DEF NewExecutionState
<1>7. CASE WaitRoutines
  <2>1. e = cur => waitDone[e] = FALSE /\ Waited(e)'
    BY <1>0, <1>1, <1>7, Names DEF WaitRoutines, Waited, TypeHelpers
  <2>2. QED BY <1>0, <1>1, <1>2, <1>3, <1>4, <1>7, <2>1 DEF WaitRoutines, TypeHelpers
<1>8. ASSUME NEW f \in Execs, WatcherFires(f)
      PROVE  timer'[e] = timer[e] /\ waiter'[e] = waiter[e] /\ waitDone'[e] = waitDone[e]
  BY <1>8 DEF WatcherFires
<1>9. ASSUME NEW f \in Execs, WaiterStep(f)
      PROVE  /\ UNCHANGED timer
             /\ waitDone[e] => waitDone'[e]
             /\ waitDone'[e] => waitDone[e] \/ waiter'[e] = "cancel"
             /\ waiter[e] \in {"cancel", "exit"} => waiter'[e] \in {"cancel", "exit"}
             /\ waiter'[e] # "none" \/ waitDone'[e] => waiter[e] # "none" \/ waitDone[e]
  BY <1>0, <1>9 DEF WaiterStep, WaiterStarts, WaiterWakes, WaiterCancels, TypeHelpers
<1>10. ASSUME NEW f \in Execs, TimerStep(f)
       PROVE  /\ UNCHANGED waiter
              /\ waitDone[e] => waitDone'[e]
              /\ waitDone'[e] => waitDone[e] \/ timer'[e] = "exit"
              /\ timer[e] = "exit" => timer'[e] = "exit"
              /\ timer'[e] \in {"sleep", "exit"} => ctxDone[e] /\ timer[e] # "none"
              /\ timer'[e] # "none" => timer[e] # "none"
              /\ timer'[e] = "exit" => timer[e] # "none"
  BY <1>0, <1>1, <1>10 DEF TimerStep, TimerStarts, TimerFires, TypeHelpers
<1>11. ASSUME NEW r \in Routines, WgDone(r)
       PROVE  /\ UNCHANGED <<timer, waitDone>>
              /\ waiter[e] # "blocked" => waiter'[e] = waiter[e]
              /\ waiter[e] = "blocked" => waiter'[e] # "none"
  BY <1>0, <1>11 DEF WgDone, TypeHelpers
<1>13. ASSUME NEW f \in Execs, TimerStep(f)
       PROVE  waitDone'[e] => Waited(e)
  BY <1>1, <1>10, <1>13, <1>0 DEF TimerStep, TimerStarts, TimerFires, TypeHelpers
<1>14. CASE \E f \in Execs : WatcherFires(f)
  BY <1>1, <1>2, <1>3, <1>4, <1>8, <1>14
<1>15. CASE \E f \in Execs : WaiterStep(f)
  BY <1>1, <1>2, <1>3, <1>4, <1>9, <1>15
<1>16. CASE \E f \in Execs : TimerStep(f)
  BY <1>1, <1>2, <1>3, <1>4, <1>10, <1>13, <1>16
<1>17. CASE \E r \in Routines : WgDone(r)
  BY <1>1, <1>2, <1>3, <1>4, <1>11, <1>17
<1>18. QED BY <1>5, <1>6, <1>7, <1>14, <1>15, <1>16, <1>17, HelperFrame

LEMMA LineageNext ==
  ASSUME TypeOK, Structure, Helpers, Lineage, Released, [Next]_vars PROVE Lineage'
<1>0. TypeRoutines /\ cur \in Int BY Types
<1> DEFINE Gone(e) == timer[e] = "exit" /\ PastReset(e)
<1>1. \A e \in Execs : Gone(e) => Gone(e)'
  BY Forward, TimerStable
<1>2. \A r \in Routines : rpc[r] # "unborn" => home[r] \in Execs
  BY <1>0, Names DEF Structure, Mains, Children
<1>3. ASSUME UNCHANGED <<ectx, home>>,
             \A x \in Routines : rpc'[x] # "unborn" => rpc[x] # "unborn" \/ ectx[x] = home[x]
      PROVE  Lineage'
  <2> SUFFICES ASSUME NEW x \in Routines, rpc'[x] # "unborn", ectx[x] # home[x]
               PROVE  Gone(home[x])'
    BY <1>3 DEF Lineage
  <2>1. home[x] \in Execs /\ Gone(home[x]) BY <1>2, <1>3 DEF Lineage
  <2>2. QED BY <1>1, <1>3, <2>1 DEF PastReset
<1>4. CASE UNCHANGED routineVars BY <1>3, <1>4 DEF routineVars
<1>5. CASE GoMain
  <2>1. cur \in Execs /\ ectx[cur] = home[cur]
    BY <1>5, Types DEF GoMain, Structure, Mains
  <2>2. QED BY <1>0, <1>3, <1>5, <2>1 DEF GoMain, TypeRoutines
<1>6. CASE RoutineMoves
  <2>1. ASSUME NEW r \in Routines, NEW c \in Subs, Spawn(r, c) PROVE Lineage'
    <3>1. rpc[r] = "run" /\ home[r] \in Execs BY <1>2, <2>1 DEF Spawn
    <3>2. Started(home[r]) BY <3>1, Names DEF Structure, Mains, Children
    <3>3. execState # home[r] => PastReset(home[r])
      <4>1. callerPc \in {"idle", "starting", "created", "installed", "started",
                           "waiting", "report", "reportSub"}
        BY DEF TypeOK, TypeCtl
      <4>2. QED BY <3>2, <4>1 DEF Structure, Current, Started, PastReset
    <3>4. PastReset(home[r]) => timer[home[r]] = "exit"
      BY <3>1 DEF Helpers, Released, CodeOver
    <3>5. execState # home[r] => Gone(home[r]) BY <3>3, <3>4
    <3>6. \A e \in Execs : PastReset(e) => (e < cur' \/ (e = cur' /\ callerPc' \in {"report", "reportSub", "idle"}))
      BY <1>1, Forward DEF PastReset
    <3>7. SUFFICES ASSUME NEW x \in Routines, rpc'[x] # "unborn", ectx'[x] # home'[x]
                   PROVE  Gone(home'[x]) /\ home'[x] \in Execs
      BY <3>6, TimerStable DEF Lineage, PastReset
    <3>8. CASE x = c
      BY <1>0, <2>1, <3>1, <3>5, <3>7, <3>8, Names DEF Spawn, TypeRoutines
    <3>9. CASE x # c
      <4>1. home'[x] = home[x] /\ ectx'[x] = ectx[x] /\ rpc[x] # "unborn"
        BY <1>0, <2>1, <3>1, <3>7, <3>9 DEF Spawn, TypeRoutines
      <4>2. QED BY <1>2, <3>7, <4>1 DEF Lineage
    <3>10. QED BY <3>8, <3>9
  <2>2. ASSUME NEW c \in Subs, InitAdd(c) PROVE Lineage'
    BY <1>0, <1>3, <2>2, Names DEF InitAdd, TypeRoutines
  <2>3. ASSUME NEW c \in Subs, InitCount(c) PROVE Lineage'
    BY <1>0, <1>3, <2>3, Names DEF InitCount, TypeRoutines, Structure, Spawners, PendingPcs
  <2>4. ASSUME NEW r \in Routines, NEW v \in Outcomes, Finish(r, v) PROVE Lineage'
    BY <1>0, <1>3, <2>4 DEF Finish, TypeRoutines
  <2>5. ASSUME NEW r \in Routines, PollFlag(r) \/ PollStep(r) PROVE Lineage'
    BY <1>0, <1>3, <2>5 DEF PollFlag, PollStep, PollState, PollContext, TypeRoutines
  <2>6. ASSUME NEW r \in Routines, RecordResult(r) PROVE Lineage'
    BY <1>0, <1>3, <2>6, RecordShape DEF TypeRoutines
  <2>7. ASSUME NEW r \in Routines, WgDone(r) PROVE Lineage'
    BY <1>0, <1>3, <2>7, DoneShape DEF TypeRoutines
  <2>8. ASSUME NEW r \in Routines, GoroutineCancels(r) PROVE Lineage'
    BY <1>0, <1>3, <2>8 DEF GoroutineCancels, TypeRoutines
  <2>9. QED BY <1>6, <2>1, <2>2, <2>3, <2>4, <2>5, <2>6, <2>7, <2>8 DEF RoutineMoves
<1>7. QED BY <1>4, <1>5, <1>6, RoutineFrame

-----------------------------------------------------------------------------
(* Counting                                                                *)

LEMMA RoutinesFinite == IsFiniteSet(Routines)
<1>1. IsFiniteSet(Execs) BY NumExecsAssumption, FS_Interval DEF Execs
<1>2. QED BY <1>1, SubsAssumption, FS_Union DEF Routines

\* One more or one less member of a set of routines.
LEMMA CountMore ==
  ASSUME NEW S, NEW T, NEW x, S \subseteq Routines, x \notin S, T = S \cup {x}
  PROVE  Cardinality(T) = Cardinality(S) + 1
  BY RoutinesFinite, FS_Subset, FS_AddElement

LEMMA CountLess ==
  ASSUME NEW S, NEW T, NEW x, S \subseteq Routines, x \in S, T = S \ {x}
  PROVE  /\ Cardinality(T) = Cardinality(S) - 1
         /\ Cardinality(S) \in Nat /\ Cardinality(S) > 0
<1>1. IsFiniteSet(S) BY RoutinesFinite, FS_Subset
<1>2. Cardinality(S) \in Nat /\ Cardinality(S) # 0
  BY <1>1, FS_CardinalityType, FS_EmptySet
<1>3. QED BY <1>1, <1>2, FS_RemoveElement

LEMMA CountNone ==
  ASSUME NEW S, S \subseteq Routines, Cardinality(S) = 0 PROVE S = {}
  BY RoutinesFinite, FS_Subset, FS_EmptySet

\* A step that moves no routine in or out of the counted sets.
LEMMA CountsKeep ==
  ASSUME TypeOK, CountersExact, wg' = wg,
         \A e \in Execs : subCounter'[e].active = subCounter[e].active,
         \A r \in Routines : ectx'[r] = ectx[r] \/ rpc[r] = "unborn",
         \A r \in Routines : \A e \in Execs :
           /\ r \in Waiting(e)' <=> r \in Waiting(e)
           /\ r \in Subs => (r \in Active(e)' <=> r \in Active(e)),
         crashed' # "negative WaitGroup"
  PROVE  CountersExact'
<1>1. ASSUME NEW e \in Execs PROVE Waiting(e)' = Waiting(e) /\ Active(e)' = Active(e)
  <2>1. /\ Waiting(e) \subseteq Routines /\ Waiting(e)' \subseteq Routines
        /\ Active(e) \subseteq Subs /\ Active(e)' \subseteq Subs
    BY DEF Waiting, Active
  <2>2. QED BY <2>1, Names
<1>2. QED BY <1>1 DEF CountersExact

LEMMA Exact ==
  ASSUME CountersExact, NEW e \in Execs
  PROVE  wg[e] = Cardinality(Waiting(e)) /\ subCounter[e].active = Cardinality(Active(e))
  BY DEF CountersExact

LEMMA CountsNext == ASSUME TypeOK, Structure, CountersExact, [Next]_vars
                    PROVE  CountersExact'
<1>0. TypeRoutines BY Types
<1> USE <1>0, Names DEF TypeRoutines
<1>1. CASE UNCHANGED routineVars /\ wg' = wg /\ subCounter' = subCounter
             /\ (crashed' = crashed \/ crashed' = "WaitGroup reused")
  BY <1>1, CountsKeep DEF routineVars, Waiting, Active, CountersExact
<1>2. CASE GoMain
  <2>1. cur \in Execs /\ rpc[cur] = "unborn" /\ ectx[cur] = cur
    BY <1>2, Types DEF GoMain, Structure, Mains, Started
  <2>2. ASSUME NEW e \in Execs PROVE Active(e)' = Active(e)
    BY <1>2, <2>1 DEF GoMain, Active
  <2>3. ASSUME NEW e \in Execs, e # cur PROVE Waiting(e)' = Waiting(e)
    BY <1>2, <2>1, <2>3 DEF GoMain, Waiting
  <2>4. ASSUME NEW e \in Execs, e = cur
        PROVE  Waiting(e)' = Waiting(e) \cup {cur} /\ cur \notin Waiting(e)
    BY <1>2, <2>1, <2>4 DEF GoMain, Waiting
  <2>5. ASSUME NEW e \in Execs, e = cur
        PROVE  Cardinality(Waiting(e)') = Cardinality(Waiting(e)) + 1
    BY <2>4, <2>5, CountMore DEF Waiting
  <2>6. /\ wg' = [wg EXCEPT ![cur] = wg[cur] + 1] /\ subCounter' = subCounter
        /\ crashed' = crashed
    BY <1>2 DEF GoMain
  <2>7. wg \in [Execs -> Nat] BY DEF TypeOK, TypeCounts
  <2>8. ASSUME NEW e \in Execs PROVE wg'[e] = Cardinality(Waiting(e)')
    <3>1. CASE e = cur BY <2>1, <2>5, <2>6, <2>7, <3>1, Exact
    <3>2. CASE e # cur BY <2>1, <2>3, <2>6, <2>7, <3>2, Exact
    <3>3. QED BY <3>1, <3>2
  <2>9. QED BY <2>2, <2>6, <2>8 DEF CountersExact
<1>3. ASSUME NEW r \in Routines, NEW c \in Subs, Spawn(r, c) PROVE CountersExact'
  <2>1. /\ rpc[r] = "run" /\ rpc[c] = "unborn" /\ UNCHANGED <<wg, subCounter, crashed>>
        /\ \A x \in Routines : x # c => ectx'[x] = ectx[x]
    BY <1>3 DEF Spawn, countVars
  <2>2. CASE execState = Nil
    <3>1. /\ \A x \in Routines : rpc'[x] = IF x = c THEN "run" ELSE rpc[x]
          /\ ectx'[c] = Nil
      BY <1>3, <2>2 DEF Spawn
    <3>2. QED BY <2>1, <3>1, CountsKeep DEF Waiting, Active, CountersExact
  <2>3. CASE execState # Nil
    <3>1. \A x \in Routines : rpc'[x] = IF x = c THEN "init"
                                        ELSE IF x = r THEN "spawn" ELSE rpc[x]
      BY <1>3, <2>3, <2>1 DEF Spawn
    <3>2. QED BY <2>1, <3>1, CountsKeep DEF Waiting, Active, CountersExact
  <2>4. QED BY <2>2, <2>3
<1>4. ASSUME NEW c \in Subs, InitAdd(c) PROVE CountersExact'
  <2>1. rpc[c] = "init" /\ ectx[c] \in Execs
    BY <1>4 DEF InitAdd, Structure, Bodies, RunPcs
  <2>2. ASSUME NEW e \in Execs PROVE Active(e)' = Active(e)
    BY <1>4, <2>1 DEF InitAdd, Active
  <2>3. ASSUME NEW e \in Execs, e # ectx[c] PROVE Waiting(e)' = Waiting(e)
    BY <1>4, <2>1, <2>3 DEF InitAdd, Waiting
  <2>4. ASSUME NEW e \in Execs, e = ectx[c]
        PROVE  Cardinality(Waiting(e)') = Cardinality(Waiting(e)) + 1
    <3>1. Waiting(e)' = Waiting(e) \cup {c} /\ c \notin Waiting(e)
      BY <1>4, <2>1, <2>4 DEF InitAdd, Waiting
    <3>2. QED BY <3>1, CountMore DEF Waiting
  <2>5. /\ wg' = [wg EXCEPT ![ectx[c]] = wg[ectx[c]] + 1] /\ subCounter' = subCounter
        /\ crashed' = crashed
    BY <1>4 DEF InitAdd
  <2>6. wg \in [Execs -> Nat] BY DEF TypeOK, TypeCounts
  <2>7. ASSUME NEW e \in Execs PROVE wg'[e] = Cardinality(Waiting(e)')
    BY <2>1, <2>3, <2>4, <2>5, <2>6 DEF CountersExact
  <2>8. QED BY <2>2, <2>5, <2>7 DEF CountersExact
<1>5. ASSUME NEW c \in Subs, InitCount(c) PROVE CountersExact'
  <2>1. /\ rpc[c] = "reg" /\ ectx[c] \in Execs /\ spawner[c] \in Routines
        /\ rpc[spawner[c]] = "spawn"
    BY <1>5 DEF InitCount, Structure, Bodies, RunPcs, Spawners, PendingPcs
  <2>2. \A x \in Routines : rpc'[x] = IF x = c \/ x = spawner[c] THEN "run" ELSE rpc[x]
    BY <1>5, <2>1 DEF InitCount
  <2>3. ectx' = ectx /\ wg' = wg /\ crashed' = crashed BY <1>5 DEF InitCount
  <2>4. ASSUME NEW e \in Execs PROVE Waiting(e)' = Waiting(e)
    BY <2>1, <2>2, <2>3 DEF Waiting
  <2>5. ASSUME NEW e \in Execs, e # ectx[c] PROVE Active(e)' = Active(e)
    BY <2>1, <2>2, <2>3, <2>5 DEF Active
  <2>6. ASSUME NEW e \in Execs, e = ectx[c]
        PROVE  Cardinality(Active(e)') = Cardinality(Active(e)) + 1
    <3>1. c \notin Active(e) BY <2>1 DEF Active
    <3>2. ASSUME NEW x \in Subs PROVE x \in Active(e)' <=> x \in Active(e) \/ x = c
      BY <2>1, <2>2, <2>3, <2>6 DEF Active
    <3>3. Active(e) \subseteq Subs /\ Active(e)' \subseteq Subs BY DEF Active
    <3>4. Active(e)' = Active(e) \cup {c} BY <3>2, <3>3
    <3>5. QED BY <3>1, <3>3, <3>4, CountMore
  <2>7. subCounter \in [Execs -> Counters] BY DEF TypeOK, TypeCounts
  <2>8. ASSUME NEW e \in Execs
        PROVE  subCounter'[e].active = IF e = ectx[c] THEN subCounter[e].active + 1
                                                      ELSE subCounter[e].active
    BY <1>5, <2>1, <2>7 DEF InitCount, Inc, Counters
  <2>9. QED BY <2>3, <2>4, <2>5, <2>6, <2>8 DEF CountersExact
<1>6. ASSUME NEW r \in Routines, NEW p \in {"run", "poll", "select"}, NEW q \in {"run", "poll", "select", "ended"},
             rpc[r] = p, rpc' = [rpc EXCEPT ![r] = q], UNCHANGED <<ectx, countVars, crashed>>
      PROVE  CountersExact'
  BY <1>6, CountsKeep DEF countVars, Waiting, Active, CountersExact
<1>7. ASSUME NEW r \in Routines, RecordResult(r) PROVE CountersExact'
  <2>1. CASE ectx[r] = Nil
    BY <1>7, <2>1, CountsKeep
       DEF RecordResult, helperVars, Waiting, Active, CountersExact
  <2>2. CASE ectx[r] # Nil
    <3>1. /\ rpc[r] = "ended" /\ rpc' = [rpc EXCEPT ![r] = "recorded"] /\ ectx[r] \in Execs
          /\ UNCHANGED <<ectx, wg, crashed>>
      BY <1>7, <2>2 DEF RecordResult
    <3>2. ASSUME NEW e \in Execs PROVE Waiting(e)' = Waiting(e)
      BY <3>1 DEF Waiting
    <3>3. CASE r \in Execs
      <4>1. subCounter' = subCounter BY <1>7, <2>2, <3>3 DEF RecordResult
      <4>2. ASSUME NEW e \in Execs PROVE Active(e)' = Active(e)
        BY <3>1, <3>3 DEF Active
      <4>3. QED BY <3>1, <3>2, <4>1, <4>2 DEF CountersExact
    <3>4. CASE r \in Subs
      <4>1. ASSUME NEW e \in Execs, e # ectx[r] PROVE Active(e)' = Active(e)
        BY <3>1, <4>1 DEF Active
      <4>2. ASSUME NEW e \in Execs, e = ectx[r]
            PROVE  /\ Cardinality(Active(e)') = Cardinality(Active(e)) - 1
                   /\ Cardinality(Active(e)) > 0 /\ Cardinality(Active(e)) \in Nat
        <5>1. Active(e)' = Active(e) \ {r} /\ r \in Active(e)
          BY <3>1, <3>4, <4>2 DEF Active
        <5>2. QED BY <5>1, CountLess DEF Active
      <4>3. subCounter \in [Execs -> Counters] BY DEF TypeOK, TypeCounts
      <4>4. subCounter' = [subCounter EXCEPT ![ectx[r]] = RecordIn(subCounter[ectx[r]], res[r])]
        BY <1>7, <2>2, <3>4 DEF RecordResult
      <4>5. ASSUME NEW e \in Execs, e = ectx[r]
            PROVE  subCounter'[e].active = subCounter[e].active - 1
        <5>1. subCounter'[e].active = Dec(subCounter[e].active)
          BY <3>1, <4>3, <4>4, <4>5 DEF RecordIn
        <5>2. subCounter[e].active # 0 BY <4>2, <4>5, Exact
        <5>3. QED BY <5>1, <5>2 DEF Dec
      <4>6. ASSUME NEW e \in Execs, e # ectx[r] PROVE subCounter'[e] = subCounter[e]
        BY <3>1, <4>3, <4>4, <4>6
      <4>7. ASSUME NEW e \in Execs
            PROVE  subCounter'[e].active = Cardinality(Active(e)')
        BY <4>1, <4>2, <4>5, <4>6 DEF CountersExact
      <4>8. QED BY <3>1, <3>2, <4>7 DEF CountersExact
    <3>5. QED BY <3>3, <3>4
  <2>3. QED BY <2>1, <2>2
<1>8. ASSUME NEW r \in Routines, WgDone(r) PROVE CountersExact'
  <2>1. rpc[r] = "recorded" /\ ectx[r] \in Execs
    BY <1>8 DEF WgDone, Structure, Bodies, RunPcs
  <2>2. r \in Waiting(ectx[r]) BY <2>1 DEF Waiting
  <2>3. Cardinality(Waiting(ectx[r])) > 0 /\ Cardinality(Waiting(ectx[r])) \in Nat
    BY <2>2, CountLess DEF Waiting
  <2>4. wg[ectx[r]] # 0
    <3>1. wg[ectx[r]] = Cardinality(Waiting(ectx[r])) BY <2>1, Exact
    <3>2. QED BY <2>3, <3>1
  <2>5. /\ wg' = [wg EXCEPT ![ectx[r]] = wg[ectx[r]] - 1]
        /\ \E p \in {"cancel", "exit"} : rpc' = [rpc EXCEPT ![r] = p]
        /\ UNCHANGED <<ectx, crashed, subCounter>>
    BY <1>8, <2>4 DEF WgDone
  <2>6. ASSUME NEW e \in Execs PROVE Active(e)' = Active(e)
    BY <2>1, <2>5 DEF Active
  <2>7. ASSUME NEW e \in Execs, e # ectx[r] PROVE Waiting(e)' = Waiting(e)
    BY <2>1, <2>5, <2>7 DEF Waiting
  <2>8. ASSUME NEW e \in Execs, e = ectx[r]
        PROVE  Cardinality(Waiting(e)') = Cardinality(Waiting(e)) - 1
    <3>1. Waiting(e)' = Waiting(e) \ {r}
      BY <2>1, <2>5, <2>8 DEF Waiting
    <3>2. QED BY <2>2, <2>8, <3>1, CountLess DEF Waiting
  <2>9. wg \in [Execs -> Nat] BY DEF TypeOK, TypeCounts
  <2>10. ASSUME NEW e \in Execs PROVE wg'[e] = Cardinality(Waiting(e)')
    <3>1. CASE e = ectx[r] BY <2>1, <2>5, <2>8, <2>9, <3>1, Exact
    <3>2. CASE e # ectx[r] BY <2>1, <2>5, <2>7, <2>9, <3>2, Exact
    <3>3. QED BY <3>1, <3>2
  <2>11. QED BY <2>5, <2>6, <2>10 DEF CountersExact
<1>9. ASSUME NEW r \in Routines, GoroutineCancels(r) PROVE CountersExact'
  BY <1>9, CountsKeep DEF GoroutineCancels, countVars, Waiting, Active, CountersExact
<1>10. CASE RoutineMoves
  <2>1. ASSUME NEW r \in Routines, NEW v \in Outcomes, Finish(r, v) PROVE CountersExact'
    BY <1>6, <2>1 DEF Finish
  <2>2. ASSUME NEW r \in Routines, PollFlag(r) PROVE CountersExact'
    BY <1>6, <2>2, PollShape
  <2>3. ASSUME NEW r \in Routines, PollStep(r) PROVE CountersExact'
    BY <1>6, <2>3, PollShape
  <2>4. QED BY <1>3, <1>4, <1>5, <1>7, <1>8, <1>9, <1>10, <2>1, <2>2, <2>3 DEF RoutineMoves
<1>11. CASE CallerMoves /\ ~GoMain
  BY <1>1, <1>11 DEF CallerMoves, CallerStep, StartExec, NewExecutionState, SetExecState,
     WaitRoutines, ResetExecState, ReportMain, ReportSub, countVars
<1>12. CASE HelperMoves
  <2>1. crashed' = crashed \/ crashed' = "WaitGroup reused"
    BY <1>12 DEF HelperMoves, ParentCancelled, WatcherFires, CancelCheckCurrent, CancelStore,
         CancelCtx, WaiterStarts, WaiterWakes, WaiterCancels, TimerStarts, TimerFires
  <2>2. QED BY <1>1, <1>12, <2>1, HelperMovesKeep DEF countVars
<1>13. CASE UNCHANGED vars BY <1>1, <1>13 DEF vars, countVars
<1>14. QED BY <1>2, <1>10, <1>11, <1>12, <1>13, Moves DEF CallerMoves

-----------------------------------------------------------------------------
(* Waiting, continued: a WaitGroup at 0 means that the code is over.       *)

ZeroMeansOver == \A e \in Execs : wg[e] = 0 => CodeOver(e) \/ timer[e] = "exit"

LEMMA EmptyMeansOver ==
  TypeOK /\ Structure /\ Lineage /\ CountersExact => ZeroMeansOver
<1> SUFFICES ASSUME TypeOK, Structure, Lineage, CountersExact,
                    NEW e \in Execs, wg[e] = 0, timer[e] # "exit",
                    NEW r \in Routines, home[r] = e,
                    rpc[r] \notin {"unborn", "cancel", "exit"}
             PROVE  FALSE
  BY DEF CodeOver, ZeroMeansOver
<1>1. Waiting(e) = {}
  <2>1. Cardinality(Waiting(e)) = 0 BY Exact
  <2>2. QED BY <2>1, CountNone DEF Waiting
<1>2. ectx[r] = e BY DEF Lineage
<1>3. rpc[r] = "init" BY <1>1, <1>2, Types DEF Waiting, TypeRoutines, RoutinePcs
<1>4. r \in Subs BY <1>3, Names DEF Structure, Mains
<1>5. /\ rpc[spawner[r]] = "spawn" /\ ectx[spawner[r]] = e /\ spawner[r] \in Routines
  BY <1>2, <1>3, <1>4, Types DEF Structure, Spawners, PendingPcs, TypeRoutines
<1>6. QED BY <1>1, <1>5 DEF Waiting

LEMMA ReleasedNext ==
  ASSUME TypeOK, Structure, Helpers, Lineage, Released, CountersExact, [Next]_vars,
         (TypeOK /\ Structure /\ Lineage /\ CountersExact)'
  PROVE  Released'
<1>0. TypeHelpers BY Types
<1> SUFFICES ASSUME NEW e \in Execs, waiter'[e] \in {"woken", "cancel", "exit"}
             PROVE  CodeOver(e)' \/ timer'[e] = "exit"
  BY DEF Released
<1>1. waiter[e] # "none" => Started(e)
  BY DEF Helpers, Waited, Started
<1>2. CodeOver(e) /\ waiter[e] # "none" => CodeOver(e)' BY <1>1, OverStable
<1>3. timer[e] = "exit" => timer'[e] = "exit" BY TimerStable
<1>4. wg[e] = 0 => CodeOver(e) \/ timer[e] = "exit"
  BY EmptyMeansOver DEF ZeroMeansOver
<1>5. wg'[e] = 0 => CodeOver(e)' \/ timer'[e] = "exit"
  <2>1. ZeroMeansOver' BY EmptyMeansOver, PTL
  <2>2. QED BY <2>1 DEF ZeroMeansOver
<1>6. CASE waiter[e] \in {"woken", "cancel", "exit"}
  BY <1>2, <1>3, <1>6 DEF Released
<1>7. CASE waiter[e] \notin {"woken", "cancel", "exit"}
  <2>1. CASE UNCHANGED helperVars \/ NewExecutionState
    BY <1>7, <2>1 DEF helperVars, NewExecutionState
  <2>2. CASE WaitRoutines BY <1>0, <1>7, <2>2 DEF WaitRoutines, TypeHelpers
  <2>3. ASSUME NEW f \in Execs, WatcherFires(f) \/ TimerStep(f) PROVE FALSE
    BY <1>7, <2>3 DEF WatcherFires, TimerStep, TimerStarts, TimerFires
  <2>4. ASSUME NEW f \in Execs, WaiterStep(f)
        PROVE  waiter[e] = "start" /\ wg[e] = 0
    BY <1>0, <1>7, <2>4 DEF WaiterStep, WaiterStarts, WaiterWakes, WaiterCancels, TypeHelpers
  <2>5. ASSUME NEW r \in Routines, WgDone(r) PROVE wg'[e] = 0
    <3>1. ectx[r] = e /\ wg[e] = 1 /\ wg' = [wg EXCEPT ![e] = wg[e] - 1]
      BY <1>0, <1>7, <2>5 DEF WgDone, TypeHelpers
    <3>2. wg \in [Execs -> Nat] BY DEF TypeOK, TypeCounts
    <3>3. QED BY <3>1, <3>2
  <2>6. QED BY <1>2, <1>3, <1>4, <1>5, <2>1, <2>2, <2>3, <2>4, <2>5, HelperFrame
<1>8. QED BY <1>6, <1>7

\* The first half of the invariant, and with it the promise to return only when
\* the code is over or was cancelled.
Half == TypeOK /\ Structure /\ Helpers /\ Lineage /\ Released /\ CountersExact

LEMMA HalfNext == ASSUME Half, [Next]_vars PROVE Half'
<1> USE DEF Half
<1>1. TypeOK' BY TypeNext
<1>2. Structure' BY StructureNext
<1>3. Helpers' BY HelpersNext
<1>4. Lineage' BY LineageNext
<1>5. CountersExact' BY CountsNext
<1>6. Released' BY <1>1, <1>2, <1>4, <1>5, ReleasedNext
<1>7. QED BY <1>1, <1>2, <1>3, <1>4, <1>5, <1>6

LEMMA HalfInit == Init => Half
<1> SUFFICES ASSUME Init PROVE Half
  OBVIOUS
<1>1. TypeOK BY TypeInit
<1>2. \A e \in Execs : ~Started(e) /\ ~Waited(e) /\ ~PastReset(e)
  BY Names DEF Init, Started, Waited, PastReset
<1>3. Structure
  BY <1>2, Names DEF Init, Structure, Current, Mains, Children, Bodies, Spawners,
                     RunPcs, EndPcs, PendingPcs
<1>4. Helpers BY <1>2 DEF Init, Helpers
<1>5. Lineage /\ Released BY DEF Init, Lineage, Released
<1>6. CountersExact
  <2>1. \A e \in Execs : Waiting(e) = {} /\ Active(e) = {}
    BY Names DEF Init, Waiting, Active
  <2>2. QED BY <2>1, FS_EmptySet DEF Init, CountersExact, NewCounter
<1>7. QED BY <1>1, <1>3, <1>4, <1>5, <1>6 DEF Half

\* The counters are exact (CountersExact), for every instance: neither the
\* unsigned active count nor the WaitGroup of core.go ever underflows.
THEOREM CountersAreExact == Spec => []CountersExact
<1>1. Half => CountersExact BY DEF Half
<1>2. QED BY <1>1, HalfInit, HalfNext, PTL DEF Spec

\* waitRoutines lets an execution return only when its code is over or its
\* context is done (ReturnJustified), for every instance.
THEOREM ReturnsAreJustified == Spec => []ReturnJustified
<1>1. Half => ReturnJustified
  BY DEF Half, Helpers, Released, ReturnJustified
<1>2. QED BY <1>1, HalfInit, HalfNext, PTL DEF Spec

-----------------------------------------------------------------------------
(* Results are final                                                       *)

LEMMA CounterTypes ==
  ASSUME TypeOK
  PROVE  /\ mainCounter \in [Execs -> Counters] /\ subCounter \in [Execs -> Counters]
         /\ \A e \in Execs : /\ mainCounter[e].active \in Nat /\ mainCounter[e].fail \in Nat
                             /\ mainCounter[e].cancel \in Nat
                             /\ subCounter[e].active \in Nat /\ subCounter[e].fail \in Nat
                             /\ subCounter[e].cancel \in Nat
<1>1. mainCounter \in [Execs -> Counters] /\ subCounter \in [Execs -> Counters]
  BY DEF TypeOK, TypeCounts
<1>2. QED BY <1>1 DEF Counters

\* What one step can do to one routine.
LEMMA RoutineStep ==
  ASSUME Half, [Next]_vars, NEW r \in Routines, rpc[r] # "unborn"
  PROVE  /\ ectx'[r] = ectx[r] /\ home'[r] = home[r] /\ rpc'[r] # "unborn"
         /\ rpc[r] \in EndPcs => rpc'[r] \in EndPcs /\ res'[r] = res[r]
         /\ rpc[r] \in EndPcs /\ res[r] = "ok" /\ rpc[r] # "cancel" => rpc'[r] # "cancel"
         /\ res[r] # "none" => res'[r] = res[r]
<1>0. TypeRoutines BY Types DEF Half
<1> USE <1>0, Names DEF TypeRoutines, EndPcs
<1>1. CASE UNCHANGED routineVars BY <1>1 DEF routineVars
<1>2. CASE GoMain
  <2>1. cur \in Execs /\ rpc[cur] = "unborn"
    BY <1>2, Types DEF GoMain, Half, Structure, Mains, Started
  <2>2. QED BY <1>2, <2>1 DEF GoMain
<1>3. CASE RoutineMoves
  <2>1. ASSUME NEW x \in Routines, NEW c \in Subs, Spawn(x, c) PROVE UNCHANGED res /\ r # c
          /\ ectx'[r] = ectx[r] /\ home'[r] = home[r]
          /\ (rpc'[r] = rpc[r] \/ (rpc[r] = "run" /\ rpc'[r] = "spawn"))
    BY <2>1 DEF Spawn
  <2>2. ASSUME NEW c \in Subs, InitAdd(c)
        PROVE UNCHANGED <<ectx, home, res>> /\ (rpc'[r] = rpc[r] \/ (rpc[r] = "init" /\ rpc'[r] = "reg"))
    BY <2>2 DEF InitAdd
  <2>3. ASSUME NEW c \in Subs, InitCount(c)
        PROVE UNCHANGED <<ectx, home, res>>
              /\ (rpc'[r] = rpc[r] \/ (rpc[r] \in {"reg", "spawn"} /\ rpc'[r] = "run"))
    BY <2>3 DEF InitCount, Half, Structure, Spawners, PendingPcs
  <2>4. ASSUME NEW x \in Routines, NEW v \in Outcomes, Finish(x, v)
        PROVE UNCHANGED <<ectx, home>>
              /\ \/ rpc'[r] = rpc[r] /\ res'[r] = res[r]
                 \/ rpc[r] = "run" /\ rpc'[r] = "ended" /\ res[r] = "none"
    BY <2>4 DEF Finish, Half, Structure, Bodies
  <2>5. ASSUME NEW x \in Routines, PollFlag(x) \/ PollStep(x)
        PROVE UNCHANGED <<ectx, home>>
              /\ \/ rpc'[r] = rpc[r] /\ res'[r] = res[r]
                 \/ rpc[r] \in {"run", "poll", "select"} /\ rpc'[r] \in {"run", "poll", "select", "ended"}
                      /\ res[r] = "none"
    <3>1. UNCHANGED res \/ res' = [res EXCEPT ![x] = "bailout"]
      BY <2>5 DEF PollFlag, PollStep, PollState, PollContext
    <3>2. /\ rpc[x] \in {"run", "poll", "select"}
          /\ \E p \in {"run", "poll", "select", "ended"} : rpc' = [rpc EXCEPT ![x] = p]
          /\ UNCHANGED <<ectx, home>>
      BY <2>5 DEF PollFlag, PollStep, PollState, PollContext
    <3>3. res[x] = "none" BY <3>2 DEF Half, Structure, Bodies
    <3>4. QED BY <3>1, <3>2, <3>3
  <2>6. ASSUME NEW x \in Routines, RecordResult(x)
        PROVE UNCHANGED <<ectx, home, res>>
              /\ (rpc'[r] = rpc[r] \/ (rpc[r] = "ended" /\ rpc'[r] = "recorded"))
    BY <2>6, RecordShape
  <2>7. ASSUME NEW x \in Routines, WgDone(x)
        PROVE UNCHANGED <<ectx, home, res>>
              /\ \/ rpc'[r] = rpc[r]
                 \/ rpc[r] = "recorded" /\ rpc'[r] = "exit"
                 \/ rpc[r] = "recorded" /\ rpc'[r] = "cancel" /\ res[r] # "ok"
    BY <2>7, DoneShape
  <2>8. ASSUME NEW x \in Routines, GoroutineCancels(x)
        PROVE UNCHANGED <<ectx, home, res>>
              /\ (rpc'[r] = rpc[r] \/ (rpc[r] = "cancel" /\ rpc'[r] = "exit"))
    BY <2>8 DEF GoroutineCancels
  <2>9. QED BY <1>3, <2>1, <2>2, <2>3, <2>4, <2>5, <2>6, <2>7, <2>8 DEF RoutineMoves
<1>4. QED BY <1>1, <1>2, <1>3, RoutineFrame DEF Half

-----------------------------------------------------------------------------
(* The counters *)

LEMMA CounterFrame ==
  [Next]_vars => \/ UNCHANGED <<mainCounter, subCounter>> \/ GoMain
                 \/ \E c \in Subs : InitCount(c)
                 \/ \E r \in Routines : RecordResult(r)
<1>1. CallerMoves => GoMain \/ UNCHANGED <<mainCounter, subCounter>>
  BY DEF CallerMoves, CallerStep, StartExec, NewExecutionState, SetExecState,
         WaitRoutines, ResetExecState, ReportMain, ReportSub, countVars
<1>2. RoutineMoves => \/ \E c \in Subs : InitCount(c)
                      \/ \E r \in Routines : RecordResult(r)
                      \/ UNCHANGED <<mainCounter, subCounter>>
  BY DEF RoutineMoves, Spawn, Finish, PollFlag, PollStep, PollState, PollContext, WgDone, GoroutineCancels,
         InitAdd, countVars
<1>3. QED BY <1>1, <1>2, Moves, HelperMovesKeep DEF vars, countVars

\* Failures and cancellations are never uncounted.
LEMMA CountersGrow ==
  ASSUME TypeOK, [Next]_vars, NEW e \in Execs
  PROVE  /\ mainCounter[e].fail > 0   => mainCounter'[e].fail > 0
         /\ mainCounter[e].cancel > 0 => mainCounter'[e].cancel > 0
         /\ subCounter[e].fail > 0    => subCounter'[e].fail > 0
         /\ subCounter[e].cancel > 0  => subCounter'[e].cancel > 0
<1> USE CounterTypes
<1>1. CASE UNCHANGED <<mainCounter, subCounter>> BY <1>1
<1>2. ASSUME NEW c \in Counters
      PROVE  Inc(c).fail = c.fail /\ Inc(c).cancel = c.cancel
  BY <1>2 DEF Inc, Counters
<1>3. ASSUME NEW c \in Counters, NEW v
      PROVE  /\ c.fail > 0 => RecordIn(c, v).fail > 0
             /\ c.cancel > 0 => RecordIn(c, v).cancel > 0
  BY <1>3 DEF RecordIn, Counters
<1>4. CASE GoMain BY <1>2, <1>4 DEF GoMain
<1>5. ASSUME NEW c \in Subs, InitCount(c)
      PROVE  UNCHANGED mainCounter
             /\ (subCounter'[e] = subCounter[e] \/ subCounter'[e] = Inc(subCounter[e]))
  BY <1>5 DEF InitCount
<1>6. ASSUME NEW r \in Routines, RecordResult(r)
      PROVE  /\ \/ mainCounter'[e] = mainCounter[e]
                \/ mainCounter'[e] = RecordIn(mainCounter[e], res[r])
             /\ \/ subCounter'[e] = subCounter[e]
                \/ subCounter'[e] = RecordIn(subCounter[e], res[r])
  BY <1>6 DEF RecordResult
<1>7. mainCounter[e] \in Counters /\ subCounter[e] \in Counters OBVIOUS
<1>8. CASE \E c \in Subs : InitCount(c) BY <1>2, <1>5, <1>7, <1>8
<1>9. CASE \E r \in Routines : RecordResult(r) BY <1>3, <1>6, <1>7, <1>9
<1>10. QED BY <1>1, <1>4, <1>8, <1>9, CounterFrame

LEMMA ResultsNext == ASSUME Half, Results, [Next]_vars PROVE Results'
<1>0. TypeOK /\ TypeRoutines BY Types DEF Half
<1> DEFINE Count(r) == IF r \in Execs THEN mainCounter[r] ELSE subCounter[ectx[r]]
           Kept(r) == /\ res[r] = "fail"    => Count(r).fail > 0
                      /\ res[r] = "bailout" => Count(r).cancel > 0
<1> SUFFICES ASSUME NEW r \in Routines, rpc'[r] \in EndPcs PROVE Kept(r)'
  BY DEF Results
<1>1. CASE rpc[r] \in EndPcs
  <2>1. ectx'[r] = ectx[r] /\ res'[r] = res[r]
    BY <1>1, RoutineStep DEF EndPcs
  <2>2. ectx[r] \in Execs
    BY <1>0, <1>1 DEF Half, Structure, Bodies, EndPcs, RunPcs, TypeRoutines
  <2>3. Kept(r) BY <1>1 DEF Results
  <2>4. CASE r \in Execs BY <1>0, <2>1, <2>3, <2>4, CountersGrow
  <2>5. CASE r \notin Execs BY <1>0, <2>1, <2>2, <2>3, <2>5, CountersGrow
  <2>6. QED BY <2>4, <2>5
<1>2. CASE rpc[r] \notin EndPcs
  <2>1. RecordResult(r)
    <3> USE <1>0, <1>2 DEF EndPcs, TypeRoutines
    <3>1. CASE UNCHANGED routineVars BY <3>1 DEF routineVars
    <3>2. CASE GoMain BY <3>2, Types DEF GoMain
    <3>3. ASSUME NEW x \in Routines, NEW c \in Subs, Spawn(x, c) PROVE FALSE
      BY <3>3 DEF Spawn
    <3>4. ASSUME NEW c \in Subs, InitAdd(c) \/ InitCount(c) PROVE FALSE
      BY <3>4 DEF InitAdd, InitCount
    <3>5. ASSUME NEW x \in Routines, NEW v \in Outcomes, Finish(x, v) PROVE FALSE
      BY <3>5 DEF Finish
    <3>6. ASSUME NEW x \in Routines, PollFlag(x) \/ PollStep(x) PROVE FALSE
      BY <3>6 DEF PollFlag, PollStep, PollState, PollContext
    <3>7. ASSUME NEW x \in Routines, RecordResult(x) PROVE x = r
      BY <3>7, RecordShape
    <3>8. ASSUME NEW x \in Routines, WgDone(x) PROVE FALSE
      BY <3>8, DoneShape
    <3>9. ASSUME NEW x \in Routines, GoroutineCancels(x) PROVE FALSE
      BY <3>9 DEF GoroutineCancels
    <3>10. QED BY <3>1, <3>2, <3>3, <3>4, <3>5, <3>6, <3>7, <3>8, <3>9, RoutineFrame
           DEF RoutineMoves
  <2>2. UNCHANGED <<ectx, res>> /\ ectx[r] # Nil
    BY <1>2, <2>1 DEF RecordResult
  <2>3. ectx[r] \in Execs BY <1>0, <2>2 DEF TypeRoutines
  <2>4. ASSUME NEW c \in Counters
        PROVE  /\ res[r] = "fail" => RecordIn(c, res[r]).fail > 0
               /\ res[r] = "bailout" => RecordIn(c, res[r]).cancel > 0
    BY <2>4 DEF RecordIn, Counters
  <2>5. CASE r \in Execs
    <3>1. mainCounter'[r] = RecordIn(mainCounter[r], res[r])
      BY <1>0, <2>1, <2>2, <2>5, CounterTypes DEF RecordResult
    <3>2. QED BY <1>0, <2>2, <2>4, <2>5, <3>1, CounterTypes
  <2>6. CASE r \notin Execs
    <3>1. subCounter'[ectx[r]] = RecordIn(subCounter[ectx[r]], res[r])
      BY <1>0, <2>1, <2>2, <2>3, <2>6, CounterTypes DEF RecordResult
    <3>2. QED BY <1>0, <2>2, <2>3, <2>4, <2>6, <3>1, CounterTypes
  <2>7. QED BY <2>5, <2>6
<1>3. QED BY <1>1, <1>2

-----------------------------------------------------------------------------
(* The main routine's own counter *)

\* What a routine's own step does to its place among the registered ones.
LEMMA MainsKeep ==
  ASSUME Half, RoutineMoves, NEW e \in Execs,
         \A r \in Routines : ~RecordResult(r)
  PROVE  rpc[e] \in RunPcs <=> rpc'[e] \in RunPcs
<1>0. TypeRoutines BY Types DEF Half
<1> USE <1>0, Names DEF TypeRoutines, RunPcs
<1>1. ASSUME NEW x \in Routines, NEW c \in Subs, Spawn(x, c)
      PROVE  rpc[e] \in RunPcs <=> rpc'[e] \in RunPcs
  BY <1>1 DEF Spawn
<1>2. ASSUME NEW c \in Subs, InitAdd(c) \/ InitCount(c)
      PROVE  rpc[e] \in RunPcs <=> rpc'[e] \in RunPcs
  BY <1>2 DEF InitAdd, InitCount, Half, Structure, Mains, Spawners, PendingPcs
<1>3. ASSUME NEW x \in Routines, NEW v \in Outcomes, Finish(x, v)
      PROVE  rpc[e] \in RunPcs <=> rpc'[e] \in RunPcs
  BY <1>3 DEF Finish
<1>4. ASSUME NEW x \in Routines, PollFlag(x) \/ PollStep(x)
      PROVE  rpc[e] \in RunPcs <=> rpc'[e] \in RunPcs
  BY <1>4 DEF PollFlag, PollStep, PollState, PollContext
<1>5. ASSUME NEW x \in Routines, WgDone(x)
      PROVE  rpc[e] \in RunPcs <=> rpc'[e] \in RunPcs
  BY <1>5, DoneShape
<1>6. ASSUME NEW x \in Routines, GoroutineCancels(x)
      PROVE  rpc[e] \in RunPcs <=> rpc'[e] \in RunPcs
  BY <1>6 DEF GoroutineCancels
<1>7. QED BY <1>1, <1>2, <1>3, <1>4, <1>5, <1>6 DEF RoutineMoves

LEMMA MainActiveNext == ASSUME Half, MainActive, [Next]_vars PROVE MainActive'
<1>0. TypeOK /\ TypeRoutines BY Types DEF Half
<1> SUFFICES ASSUME NEW e \in Execs
             PROVE  mainCounter'[e].active = IF rpc'[e] \in RunPcs THEN 1 ELSE 0
  BY DEF MainActive
<1>1. mainCounter[e].active = IF rpc[e] \in RunPcs THEN 1 ELSE 0 BY DEF MainActive
<1>2. CASE GoMain
  <2>1. cur \in Execs /\ rpc[cur] = "unborn"
    BY <1>0, <1>2, Types DEF GoMain, Half, Structure, Mains, Started
  <2>2. CASE e # cur BY <1>0, <1>1, <1>2, <2>1, <2>2, CounterTypes, Names DEF GoMain, TypeRoutines
  <2>3. CASE e = cur
    <3>1. mainCounter'[e] = Inc(mainCounter[e]) /\ rpc'[e] = "run"
      BY <1>0, <1>2, <2>1, <2>3, CounterTypes, Names DEF GoMain, TypeRoutines
    <3>2. Inc(mainCounter[e]).active = mainCounter[e].active + 1
      BY <1>0, CounterTypes DEF Inc, Counters
    <3>3. QED BY <1>1, <2>1, <2>3, <3>1, <3>2 DEF RunPcs
  <2>4. QED BY <2>2, <2>3
<1>3. ASSUME NEW r \in Routines, RecordResult(r)
      PROVE  mainCounter'[e].active = IF rpc'[e] \in RunPcs THEN 1 ELSE 0
  <2>1. CASE mainCounter'[e] = mainCounter[e] /\ e # r
    BY <1>0, <1>1, <1>3, <2>1, RecordShape, Names DEF TypeRoutines
  <2>2. CASE e = r
    <3>1. ectx[r] # Nil /\ r \in Execs
      BY <2>2, Names DEF Half, Structure, Mains
    <3>2. /\ rpc[r] = "ended" /\ rpc' = [rpc EXCEPT ![r] = "recorded"]
          /\ mainCounter' = [mainCounter EXCEPT ![r] = RecordIn(mainCounter[r], res[r])]
      BY <1>3, <3>1 DEF RecordResult
    <3>3. /\ rpc[e] = "ended" /\ rpc'[e] = "recorded"
          /\ mainCounter'[e] = RecordIn(mainCounter[e], res[e])
      BY <1>0, <2>2, <3>2, CounterTypes DEF TypeRoutines
    <3>4. QED BY <1>1, <3>3 DEF RecordIn, Dec, RunPcs
  <2>3. mainCounter'[e] = mainCounter[e] \/ e = r
    BY <1>0, <1>3, CounterTypes DEF RecordResult
  <2>4. e # r => mainCounter'[e] = mainCounter[e] BY <2>3
  <2>5. QED BY <2>1, <2>2, <2>4
<1>4. CASE UNCHANGED <<mainCounter, subCounter>> /\ ~(\E r \in Routines : RecordResult(r))
  <2>1. CASE RoutineMoves BY <1>1, <1>4, <2>1, MainsKeep
  <2>2. CASE UNCHANGED routineVars BY <1>1, <1>4, <2>2 DEF routineVars
  <2>3. QED BY <1>2, <2>1, <2>2, RoutineFrame
<1>5. CASE \E c \in Subs : InitCount(c)
  <2>1. UNCHANGED mainCounter /\ RoutineMoves BY <1>5 DEF InitCount, RoutineMoves
  <2>2. CASE \A r \in Routines : ~RecordResult(r) BY <1>1, <2>1, <2>2, MainsKeep
  <2>3. QED BY <1>3, <2>2
<1>6. QED BY <1>2, <1>3, <1>4, <1>5, CounterFrame

-----------------------------------------------------------------------------
(* Reports *)

LEMMA ReportFrame == [Next]_vars => UNCHANGED report \/ ReportMain \/ ReportSub
<1>1. CallerMoves => UNCHANGED report \/ ReportMain \/ ReportSub
  BY DEF CallerMoves, CallerStep, StartExec, NewExecutionState, SetExecState, GoMain,
         WaitRoutines, ResetExecState, countVars
<1>2. RoutineMoves => UNCHANGED report
  BY DEF RoutineMoves, Spawn, Finish, PollFlag, PollStep, PollState, PollContext, RecordResult, WgDone,
         GoroutineCancels, InitAdd, InitCount, countVars
<1>3. QED BY <1>1, <1>2, Moves, HelperMovesKeep DEF vars, countVars

LEMMA HomeFrame ==
  [Next]_vars => UNCHANGED home \/ \E x \in Routines, c \in Subs : Spawn(x, c)
<1>1. RoutineMoves => UNCHANGED home \/ \E x \in Routines, c \in Subs : Spawn(x, c)
  BY DEF RoutineMoves, Finish, PollFlag, PollStep, PollState, PollContext, RecordResult, WgDone,
         GoroutineCancels, InitAdd, InitCount
<1>2. QED BY <1>1, RoutineFrame DEF GoMain, routineVars

LEMMA EndedStable ==
  ASSUME Half, [Next]_vars, NEW r \in Routines, EndedWell(r) PROVE EndedWell(r)'
<1>1. rpc[r] # "unborn" /\ rpc[r] \in EndPcs /\ rpc[r] # "cancel" /\ res[r] = "ok"
  BY DEF EndedWell, EndPcs
<1>2. rpc'[r] \in EndPcs /\ res'[r] = "ok" /\ rpc'[r] # "cancel"
  BY <1>1, RoutineStep
<1>3. QED BY <1>2 DEF EndedWell, EndPcs

\* A routine whose execution's counters hide nothing ended well.
LEMMA NothingHidden ==
  ASSUME Half, Results, NEW r \in Routines, rpc[r] \in EndPcs,
         LET c == IF r \in Execs THEN mainCounter[r] ELSE subCounter[ectx[r]]
         IN  c.fail = 0 /\ c.cancel = 0
  PROVE  EndedWell(r)
<1>1. res[r] # "fail" /\ res[r] # "bailout" BY DEF Results
<1>2. res[r] \in {"none", "ok", "fail", "bailout"} BY Types DEF Half, TypeRoutines
<1>3. res[r] # "none" /\ (rpc[r] = "cancel" => res[r] # "ok")
  BY DEF Half, Structure, Bodies
<1>4. QED BY <1>1, <1>2, <1>3 DEF EndedWell, EndPcs

\* What counterMessage reads in the main counter.
LEMMA SilentMain ==
  ASSUME Half, MainActive, Results, NEW e \in Execs, Started(e),
         MainMsg(mainCounter[e]) = "silent"
  PROVE  EndedWell(e)
<1>1. /\ mainCounter[e].active \in Nat /\ mainCounter[e].fail \in Nat
      /\ mainCounter[e].cancel \in Nat
  BY CounterTypes DEF Half
<1>2. mainCounter[e].fail = 0 /\ mainCounter[e].cancel = 0 /\ mainCounter[e].active = 0
  BY <1>1 DEF MainMsg
<1>3. rpc[e] \notin RunPcs BY <1>2 DEF MainActive
<1>4. rpc[e] \in RoutinePcs /\ e \in Routines BY Types, Names DEF Half, TypeRoutines
<1>5. rpc[e] \in EndPcs
  BY <1>3, <1>4 DEF Half, Structure, Mains, RunPcs, EndPcs, RoutinePcs
<1>6. QED BY <1>2, <1>4, <1>5, NothingHidden

\* What it reads in the counter of the goroutines.
LEMMA SilentSubs ==
  ASSUME Half, Results, NEW e \in Execs, EndedWell(e), subCounter[e].active = 0,
         subCounter[e].fail = 0, subCounter[e].cancel = 0,
         NEW r \in Routines, home[r] = e, ectx[r] = e
  PROVE  EndedWell(r)
<1>1. Active(e) = {}
  <2>1. Cardinality(Active(e)) = 0 BY Exact DEF Half
  <2>2. Active(e) \subseteq Routines BY Names DEF Active
  <2>3. QED BY <2>1, <2>2, CountNone
<1>2. CASE r \in Execs BY <1>2 DEF Half, Structure, Mains
<1>3. CASE r \in Subs
  <2>1. rpc[r] \in RoutinePcs /\ rpc[r] # "unborn" /\ rpc[r] \notin RunPcs
    BY <1>1, <1>3, Types, Names DEF Half, TypeRoutines, Active, RunPcs, Structure, Children
  <2>2. rpc[r] \notin PendingPcs
    <3>1. SUFFICES ASSUME rpc[r] \in PendingPcs PROVE FALSE
      OBVIOUS
    <3>2. /\ rpc[spawner[r]] = "spawn" /\ home[spawner[r]] = e /\ ectx[spawner[r]] = e
          /\ spawner[r] \in Routines
      BY <1>3, <3>1, Types DEF Half, Structure, Spawners, TypeRoutines
    <3>3. CASE spawner[r] \in Subs BY <1>1, <3>2, <3>3 DEF Active
    <3>4. CASE spawner[r] \in Execs
      BY <3>2, <3>4 DEF Half, Structure, Mains, EndedWell
    <3>5. QED BY <3>2, <3>3, <3>4, Names
  <2>3. rpc[r] \in EndPcs BY <2>1, <2>2 DEF RoutinePcs, RunPcs, PendingPcs, EndPcs
  <2>4. r \notin Execs BY <1>3, Names
  <2>5. QED BY <2>3, <2>4, NothingHidden
<1>4. QED BY <1>2, <1>3, Names

LEMMA ReportsNext ==
  ASSUME Half, MainActive, Results, Reports, [Next]_vars PROVE Reports'
<1>0. /\ TypeOK /\ TypeRoutines /\ cur \in Int
      /\ \A e \in Execs : report[e].sub \in Counters
      /\ report \in [Execs -> [main : {"unset", "silent", "failed", "canceled", "hanging"},
                               sub  : Counters]]
  BY Types DEF Half, TypeOK, TypeCounts
<1>1. ASSUME NEW e \in Execs, PastMain(e)', report'[e].main = "silent"
      PROVE  EndedWell(e)'
  <2>1. e \in Routines BY Names
  <2>2. CASE ReportMain /\ e = cur
    <3>1. Started(e) /\ MainMsg(mainCounter[e]) = "silent"
      BY <1>0, <1>1, <2>2 DEF ReportMain, Started
    <3>2. QED BY <2>1, <3>1, SilentMain, EndedStable
  <2>3. CASE ~(ReportMain /\ e = cur)
    <3>1. report'[e].main = report[e].main
      BY <1>0, <2>3, ReportFrame DEF ReportMain, ReportSub
    <3>2. PastMain(e)
      <4>1. CASE UNCHANGED pos BY <1>1, <4>1 DEF pos, PastMain
      <4>2. CASE StartExec BY <1>0, <1>1, <4>2, Names DEF StartExec, PastMain
      <4>3. CASE CallerStep
        BY <1>1, <2>3, <4>3 DEF CallerStep, NewExecutionState, SetExecState, GoMain,
           WaitRoutines, ResetExecState, ReportMain, ReportSub, PastMain
      <4>4. QED BY <4>1, <4>2, <4>3, PosFrame DEF CallerMoves
    <3>3. EndedWell(e) BY <1>1, <3>1, <3>2 DEF Reports
    <3>4. QED BY <2>1, <3>3, EndedStable
  <2>4. QED BY <2>2, <2>3
<1>2. ASSUME NEW e \in Execs, Returned(e)', NoMessage(e)', NEW r \in Routines,
             home'[r] = e, ectx'[r] = e
      PROVE  EndedWell(r)'
  <2>1. CASE Returned(e)
    <3>1. report'[e] = report[e]
      BY <1>0, <2>1, ReportFrame DEF Returned, ReportMain, ReportSub
    <3>2. NoMessage(e) BY <1>2, <3>1 DEF NoMessage
    <3>3. CASE rpc[r] # "unborn"
      <4>1. home[r] = e /\ ectx[r] = e BY <1>2, <3>3, RoutineStep
      <4>2. QED BY <2>1, <3>2, <4>1, EndedStable DEF Reports
    <3>4. CASE rpc[r] = "unborn"
      <4>1. r \notin Execs
        <5>1. SUFFICES ASSUME r \in Execs PROVE FALSE
          OBVIOUS
        <5>2. Mains' BY MainsNext DEF Half
        <5>3. r = e BY <1>2, <5>1, <5>2 DEF Mains
        <5>4. QED BY <2>1, <3>4, <5>3, Names DEF Half, Structure, Mains, Started, Returned
      <4>2. home[r] = Nil BY <3>4, <4>1, Names DEF Half, Structure, Children
      <4>3. PICK x \in Routines, c \in Subs : Spawn(x, c)
        BY <1>2, <4>2, HomeFrame, Names
      <4>4. ectx'[r] = execState BY <1>0, <1>2, <4>2, <4>3, Names DEF Spawn, TypeRoutines
      <4>5. execState = e /\ e # Nil BY <1>2, <4>4, Names
      <4>6. QED BY <1>0, <2>1, <4>5, Names DEF Half, Structure, Current, Returned
    <3>5. QED BY <3>3, <3>4
  <2>2. CASE ~Returned(e)
    <3>1. ReportSub /\ e = cur
      <4>1. CASE UNCHANGED pos BY <1>2, <2>2, <4>1 DEF pos, Returned
      <4>2. CASE StartExec BY <1>0, <1>2, <2>2, <4>2, Names DEF StartExec, Returned
      <4>3. CASE CallerStep
        BY <1>2, <2>2, <4>3 DEF CallerStep, NewExecutionState, SetExecState, GoMain,
           WaitRoutines, ResetExecState, ReportMain, ReportSub, Returned
      <4>4. QED BY <4>1, <4>2, <4>3, PosFrame DEF CallerMoves
    <3>2. /\ report'[e].main = report[e].main /\ report'[e].sub = subCounter[e]
          /\ home[r] = e /\ ectx[r] = e /\ PastMain(e)
      BY <1>0, <1>2, <3>1 DEF ReportSub, routineVars, PastMain
    <3>3. EndedWell(e) BY <1>2, <3>2 DEF NoMessage, Reports
    <3>4. subCounter[e].active = 0 /\ subCounter[e].fail = 0 /\ subCounter[e].cancel = 0
      BY <1>2, <3>2 DEF NoMessage
    <3>5. EndedWell(r) BY <3>2, <3>3, <3>4, SilentSubs
    <3>6. QED BY <3>5, EndedStable
  <2>3. QED BY <2>1, <2>2
<1>3. QED BY <1>1, <1>2 DEF Reports

-----------------------------------------------------------------------------
(* Bailouts *)

\* A living routine knows its execution, and a cancelled one stays cancelled.
LEMMA HomeDone ==
  ASSUME Half, [Next]_vars, NEW r \in Routines, rpc[r] # "unborn"
  PROVE  /\ home[r] \in Execs /\ Started(home[r]) /\ home'[r] = home[r]
         /\ ctxDone[home[r]] => ctxDone'[home'[r]]
<1>0. cur \in Int /\ TypeOK BY Types DEF Half
<1>1. home[r] \in Execs /\ Started(home[r])
  BY Names DEF Half, Structure, Mains, Children
<1>2. home'[r] = home[r] BY RoutineStep
<1>3. \A e \in Execs : Started(e) => ~(e = cur /\ callerPc = "starting")
  BY <1>0, Names DEF Started
<1>4. \A e \in Execs : Started(e) /\ ctxDone[e] => ctxDone'[e]
  BY <1>0, <1>3, DoneStable
<1>5. QED BY <1>1, <1>2, <1>4

\* Whoever still runs when his execution is not current was cancelled.
LEMMA Outlived ==
  ASSUME Half, NEW r \in Routines, rpc[r] \in {"run", "poll", "select"}, execState # home[r]
  PROVE  ctxDone[home[r]]
<1>1. home[r] \in Execs /\ Started(home[r])
  BY Names DEF Half, Structure, Mains, Children
<1>2. callerPc \in {"idle", "starting", "created", "installed", "started",
                    "waiting", "report", "reportSub"}
  BY DEF Half, TypeOK, TypeCtl
<1>3. PastReset(home[r]) BY <1>1, <1>2 DEF Half, Structure, Current, Started, PastReset
<1>4. waitDone[home[r]] BY <1>1, <1>3 DEF Half, Helpers
<1>5. ~CodeOver(home[r]) BY DEF CodeOver
<1>6. QED BY <1>1, <1>4, <1>5 DEF Half, Helpers, Released

LEMMA PollsNext == ASSUME Half, Polls, [Next]_vars PROVE Polls'
<1>0. TypeRoutines BY Types DEF Half
<1> SUFFICES ASSUME NEW r \in Routines, rpc'[r] = "select", polled'[r] # home'[r]
             PROVE  ctxDone'[home'[r]]
  BY DEF Polls
<1>1. CASE rpc[r] = "select" /\ polled'[r] = polled[r]
  BY <1>1, HomeDone DEF Polls
<1>2. CASE PollState(r)
  <2>1. rpc[r] = "poll" /\ polled'[r] = execState BY <1>0, <1>2 DEF PollState, TypeRoutines
  <2>2. home'[r] = home[r] BY <2>1, HomeDone
  <2>3. ctxDone[home[r]] BY <2>1, <2>2, Outlived
  <2>4. QED BY <2>1, <2>3, HomeDone
<1>3. (rpc[r] = "select" /\ polled'[r] = polled[r]) \/ PollState(r)
  <2> USE <1>0, Names DEF TypeRoutines
  <2>1. CASE UNCHANGED routineVars BY <2>1 DEF routineVars
  <2>2. CASE GoMain BY <2>2, Types DEF GoMain, Half
  <2>3. ASSUME NEW x \in Routines, NEW c \in Subs, Spawn(x, c)
        PROVE  rpc[r] = "select" /\ polled'[r] = polled[r]
    BY <2>3 DEF Spawn
  <2>4. ASSUME NEW c \in Subs, InitAdd(c) \/ InitCount(c)
        PROVE  rpc[r] = "select" /\ polled'[r] = polled[r]
    BY <2>4 DEF InitAdd, InitCount
  <2>5. ASSUME NEW x \in Routines, NEW v \in Outcomes, Finish(x, v)
        PROVE  rpc[r] = "select" /\ polled'[r] = polled[r]
    BY <2>5 DEF Finish
  <2>6. ASSUME NEW x \in Routines, PollFlag(x)
        PROVE  rpc[r] = "select" /\ polled'[r] = polled[r]
    BY <2>6 DEF PollFlag
  <2>7. ASSUME NEW x \in Routines, PollState(x)
        PROVE  x = r \/ (rpc[r] = "select" /\ polled'[r] = polled[r])
    BY <2>7 DEF PollState
  <2>8. ASSUME NEW x \in Routines, PollContext(x)
        PROVE  rpc[r] = "select" /\ polled'[r] = polled[r]
    BY <2>8 DEF PollContext
  <2>9. ASSUME NEW x \in Routines, RecordResult(x)
        PROVE  rpc[r] = "select" /\ polled'[r] = polled[r]
    <3>1. UNCHANGED polled BY <2>9 DEF RecordResult
    <3>2. QED BY <2>9, <3>1, RecordShape
  <2>10. ASSUME NEW x \in Routines, WgDone(x)
         PROVE  rpc[r] = "select" /\ polled'[r] = polled[r]
    <3>1. UNCHANGED polled BY <2>10 DEF WgDone
    <3>2. QED BY <2>10, <3>1, DoneShape
  <2>11. ASSUME NEW x \in Routines, GoroutineCancels(x)
         PROVE  rpc[r] = "select" /\ polled'[r] = polled[r]
    BY <2>11 DEF GoroutineCancels
  <2>12. QED BY <2>1, <2>2, <2>3, <2>4, <2>5, <2>6, <2>7, <2>8, <2>9, <2>10, <2>11,
               RoutineFrame DEF RoutineMoves, PollStep
<1>4. QED BY <1>1, <1>2, <1>3

LEMMA BailNext == ASSUME Half, Polls, BailoutJustified, [Next]_vars PROVE BailoutJustified'
<1>0. TypeRoutines BY Types DEF Half
<1> SUFFICES ASSUME NEW r \in Routines, res'[r] = "bailout"
             PROVE  home'[r] \in Execs /\ ctxDone'[home'[r]]
  BY DEF BailoutJustified
<1>3. CASE res[r] # "none"
  <2>1. rpc[r] # "unborn" BY <1>3 DEF Half, Structure, Bodies, EndPcs
  <2>2. res'[r] = res[r] /\ home'[r] = home[r] BY <1>3, <2>1, RoutineStep
  <2>3. home[r] \in Execs /\ ctxDone[home[r]] BY <2>2 DEF BailoutJustified
  <2>4. QED BY <2>1, <2>3, HomeDone
<1>4. CASE res[r] = "none"
  <2>1. PollContext(r) /\ PolledDone(r)
    <3>1. \/ UNCHANGED res
          \/ \E x \in Routines, v \in Outcomes : Finish(x, v)
          \/ \E x \in Routines : PollContext(x) /\ PolledDone(x)
      <4>1. RoutineMoves =>
              \/ UNCHANGED res
              \/ \E x \in Routines, v \in Outcomes : Finish(x, v)
              \/ \E x \in Routines : PollContext(x) /\ PolledDone(x)
        BY DEF RoutineMoves, Spawn, PollFlag, PollStep, PollState, PollContext, RecordResult, WgDone,
               GoroutineCancels, InitAdd, InitCount
      <4>2. QED BY <4>1, RoutineFrame DEF GoMain, routineVars
    <3>2. ASSUME NEW x \in Routines, NEW v \in Outcomes, Finish(x, v) PROVE FALSE
      BY <1>0, <1>4, <3>2, BoundsAssumption DEF Finish, TypeRoutines
    <3>3. ASSUME NEW x \in Routines, PollContext(x), x # r PROVE FALSE
      BY <1>0, <1>4, <3>3 DEF PollContext, TypeRoutines
    <3>4. QED BY <1>4, <3>1, <3>2, <3>3
  <2>2. rpc[r] = "select" BY <2>1 DEF PollContext
  <2>3. ctxDone[home[r]]
    <3>1. CASE polled[r] = home[r]
      BY <2>1, <2>2, <3>1, HomeDone, Names DEF PolledDone
    <3>2. CASE polled[r] # home[r] BY <2>2, <3>2 DEF Polls
    <3>3. QED BY <3>1, <3>2
  <2>4. QED BY <2>2, <2>3, HomeDone
<1>5. QED BY <1>3, <1>4

-----------------------------------------------------------------------------
(* The whole invariant *)

LEMMA IInvInit == Init => IInv
<1> SUFFICES ASSUME Init PROVE IInv
  OBVIOUS
<1>1. Half BY HalfInit
<1>2. MainActive /\ Results BY Names DEF Init, MainActive, Results, NewCounter, RunPcs, EndPcs
<1>3. Reports
  <2>1. \A e \in Execs : report[e].main = "unset" BY DEF Init, NoReport
  <2>2. QED BY <2>1 DEF Reports, NoMessage
<1>4. BailoutJustified /\ Polls BY DEF Init, BailoutJustified, Polls
<1>5. QED BY <1>1, <1>2, <1>3, <1>4 DEF IInv, Half, Waits

LEMMA IInvNext == IInv /\ [Next]_vars => IInv'
<1> SUFFICES ASSUME IInv, [Next]_vars PROVE IInv'
  OBVIOUS
<1>1. Half BY DEF IInv, Half, Waits
<1>2. Half' BY <1>1, HalfNext
<1>3. MainActive' /\ Results' /\ Reports' /\ Polls' /\ BailoutJustified'
  BY <1>1, MainActiveNext, ResultsNext, ReportsNext, PollsNext, BailNext DEF IInv
<1>4. QED BY <1>2, <1>3 DEF IInv, Half, Waits

\* The conjunction of all the parts (IInv), for every instance.
THEOREM Invariance == Spec => []IInv
  BY IInvInit, IInvNext, PTL DEF Spec

\* ExecLgoEntryPoint returns nil only if every goroutine of the block ended
\* normally (CleanReport), for every instance.
THEOREM CleanReports == Spec => []CleanReport
<1>1. IInv => CleanReport
  <2> SUFFICES ASSUME IInv, NEW e \in Execs, Returned(e), NoMessage(e),
                      NEW r \in Routines, home[r] = e, rpc[r] # "unborn"
               PROVE  \/ rpc[r] \in {"recorded", "exit"} /\ res[r] = "ok"
                      \/ ectx[r] # e /\ timer[e] = "exit"
    BY DEF CleanReport
  <2>1. CASE ectx[r] = e BY <2>1 DEF IInv, Reports, EndedWell
  <2>2. CASE ectx[r] # e BY <2>2 DEF IInv, Waits, Lineage
  <2>3. QED BY <2>1, <2>2
<1>2. QED BY <1>1, Invariance, PTL

\* ExitIfCtxDone throws out only the routines of a cancelled execution
\* (BailoutJustified), for every instance.
THEOREM BailoutsAreJustified == Spec => []BailoutJustified
<1>1. IInv => BailoutJustified BY DEF IInv
<1>2. QED BY <1>1, Invariance, PTL

-----------------------------------------------------------------------------
(***************************************************************************)
(* What the rest of the program sees of an execution: why it is cancelled  *)
(* (CancelCaused), that the flag read by ExitIfCtxDone shows it            *)
(* (CancelVisible), and that the execution manager keeps what ExecPromise  *)
(* promises the caller of ExecLgoEntryPoint (ImplementsPromise).           *)
(* CancelInv of LgoCoreInv is inductive relative to IInv.                  *)
(***************************************************************************)

-----------------------------------------------------------------------------
(* What a step can do to a cancellation                                    *)

LEMMA CancelTypes ==
  ASSUME TypeOK
  PROVE  /\ TypeCancel /\ TypeRoutines /\ TypeHelpers
         /\ isRunning \in {0, 1} /\ cur \in Int
         /\ callerPc \in {"idle", "starting", "created", "installed", "started",
                          "waiting", "report", "reportSub"}
  BY Types DEF TypeOK, TypeCtl

LEMMA InstalledStable ==
  ASSUME TypeOK, [Next]_vars, NEW e \in Execs, Installed(e)
  PROVE  Installed(e)'
<1> USE DEF Installed
<1>1. CASE UNCHANGED pos BY <1>1 DEF pos
<1>2. CASE StartExec BY <1>2, Names, Types DEF StartExec
<1>3. CASE CallerStep
  BY <1>3 DEF CallerStep, NewExecutionState, SetExecState, GoMain, WaitRoutines,
              ResetExecState, ReportMain, ReportSub
<1>4. QED BY <1>1, <1>2, <1>3, PosFrame DEF CallerMoves

\* A parent that is done stays done, and only an interruption makes it so.
LEMMA ParentFrame ==
  [Next]_vars => UNCHANGED parentDone \/ \E f \in Execs : ParentCancelled(f)
<1>1. CallerMoves => UNCHANGED parentDone
  BY DEF CallerMoves, CallerStep, StartExec, NewExecutionState, SetExecState, GoMain,
         WaitRoutines, ResetExecState, ReportMain, ReportSub, cancelVars
<1>2. RoutineMoves => UNCHANGED parentDone
  BY DEF RoutineMoves, Spawn, Finish, PollFlag, PollStep, PollState, PollContext,
         RecordResult, WgDone, GoroutineCancels, InitAdd, InitCount, cancelVars
<1>3. HelperMoves => UNCHANGED parentDone \/ \E f \in Execs : ParentCancelled(f)
  BY DEF HelperMoves, WatcherFires, CancelCheckCurrent, CancelStore, CancelCtx,
         WaiterStarts, WaiterWakes, WaiterCancels, TimerStarts, TimerFires, cancelVars
<1>4. QED BY <1>1, <1>2, <1>3, Moves DEF vars, cancelVars

\* Who can call cancel() of an execution, and who carries it out.
CancelCalls == \/ \E f \in Execs : WatcherFires(f) \/ WaiterCancels(f)
               \/ \E r \in Routines : GoroutineCancels(r)
CancelWork(f) == CancelCheckCurrent(f) \/ CancelStore(f) \/ CancelCtx(f)

LEMMA CancelFrame ==
  [Next]_vars => UNCHANGED cancelPc \/ CancelCalls \/ \E f \in Execs : CancelWork(f)
<1>1. CallerMoves => UNCHANGED cancelPc
  BY DEF CallerMoves, CallerStep, StartExec, NewExecutionState, SetExecState, GoMain,
         WaitRoutines, ResetExecState, ReportMain, ReportSub, cancelVars
<1>2. RoutineMoves => UNCHANGED cancelPc \/ CancelCalls
  BY DEF RoutineMoves, Spawn, Finish, PollFlag, PollStep, PollState, PollContext,
         RecordResult, WgDone, InitAdd, InitCount, cancelVars, CancelCalls
<1>3. HelperMoves => UNCHANGED cancelPc \/ CancelCalls \/ \E f \in Execs : CancelWork(f)
  BY DEF HelperMoves, ParentCancelled, WaiterStarts, WaiterWakes, TimerStarts,
         TimerFires, cancelVars, CancelCalls, CancelWork
<1>4. QED BY <1>1, <1>2, <1>3, Moves DEF vars, cancelVars

\* newExecutionState makes the context; it is done by its parent or by cancel().
LEMMA DoneFrame ==
  [Next]_vars => \/ UNCHANGED ctxDone \/ NewExecutionState
                 \/ \E f \in Execs : ParentCancelled(f) \/ CancelCtx(f)
<1>1. CallerMoves => NewExecutionState \/ UNCHANGED ctxDone
  BY DEF CallerMoves, CallerStep, StartExec, SetExecState, GoMain, WaitRoutines,
         ResetExecState, ReportMain, ReportSub, cancelVars
<1>2. RoutineMoves => UNCHANGED ctxDone
  BY DEF RoutineMoves, Spawn, Finish, PollFlag, PollStep, PollState, PollContext,
         RecordResult, WgDone, GoroutineCancels, InitAdd, InitCount, cancelVars
<1>3. HelperMoves => UNCHANGED ctxDone
                       \/ \E f \in Execs : ParentCancelled(f) \/ CancelCtx(f)
  BY DEF HelperMoves, WatcherFires, CancelCheckCurrent, CancelStore, WaiterStarts,
         WaiterWakes, WaiterCancels, TimerStarts, TimerFires, cancelVars
<1>4. QED BY <1>1, <1>2, <1>3, Moves DEF vars, cancelVars

\* Only the caller and cancel() write isRunning or move the current execution.
LEMMA FlagFrame ==
  [Next]_vars => \/ StartExec \/ CallerStep \/ UNCHANGED ctlVars
                 \/ \E f \in Execs : CancelWork(f)
<1>1. RoutineMoves => UNCHANGED ctlVars
  BY DEF RoutineMoves, Spawn, Finish, PollFlag, PollStep, PollState, PollContext,
         RecordResult, WgDone, GoroutineCancels, InitAdd, InitCount
<1>2. HelperMoves => UNCHANGED ctlVars \/ \E f \in Execs : CancelWork(f)
  BY DEF HelperMoves, ParentCancelled, WatcherFires, WaiterStarts, WaiterWakes,
         WaiterCancels, TimerStarts, TimerFires, CancelWork
<1>3. QED BY <1>1, <1>2, Moves DEF vars, CallerMoves

\* A call of cancel() starts it, and touches no other execution.
LEMMA CallShape ==
  ASSUME TypeOK, NEW f, CallCancel(f), NEW e \in Execs
  PROVE  /\ cancelPc'[e] = cancelPc[e] \/ (e = f /\ cancelPc[e] = "none" /\ cancelPc'[e] = "check")
  BY CancelTypes DEF CallCancel, TypeCancel

LEMMA WaiterStable ==
  ASSUME TypeOK, Helpers, [Next]_vars, NEW e \in Execs, waiter[e] \in {"cancel", "exit"}
  PROVE  waiter'[e] \in {"cancel", "exit"}
<1>0. TypeHelpers BY Types
<1> USE <1>0 DEF TypeHelpers
<1>1. CASE WaitRoutines
  <2>1. e # cur BY <1>1, Names, Types DEF WaitRoutines, Helpers, Waited
  <2>2. QED BY <1>1, <2>1 DEF WaitRoutines
<1>2. ASSUME NEW f \in Execs, WaiterStep(f) PROVE waiter'[e] \in {"cancel", "exit"}
  BY <1>2 DEF WaiterStep, WaiterStarts, WaiterWakes, WaiterCancels
<1>3. ASSUME NEW f \in Execs, TimerStep(f) PROVE UNCHANGED waiter
  BY <1>3 DEF TimerStep, TimerStarts, TimerFires
<1>4. ASSUME NEW r \in Routines, WgDone(r) PROVE waiter'[e] = waiter[e]
  BY <1>4 DEF WgDone
<1>5. QED BY <1>1, <1>2, <1>3, <1>4, HelperFrame
      DEF helperVars, NewExecutionState, WatcherFires

\* A cause of a cancellation remains one.
LEMMA CauseStable ==
  ASSUME Half, [Next]_vars, NEW e \in Execs, Caused(e)
  PROVE  Caused(e)'
<1>0. TypeOK /\ Helpers /\ TypeCancel BY CancelTypes DEF Half
<1>1. CASE parentDone[e]
  <2>1. ASSUME NEW f \in Execs, ParentCancelled(f) PROVE parentDone'[e]
    BY <1>0, <1>1, <2>1 DEF ParentCancelled, TypeCancel
  <2>2. QED BY <1>1, <2>1, ParentFrame DEF Caused
<1>2. CASE waiter[e] \in {"cancel", "exit"}
  BY <1>0, <1>2, WaiterStable DEF Caused
<1>3. ASSUME NEW c \in Subs, ectx[c] = e, res[c] = "fail" PROVE Caused(e)'
  <2>1. c \in Routines /\ rpc[c] # "unborn"
    BY <1>3, Names DEF Half, Structure, Bodies, EndPcs
  <2>2. ectx'[c] = e /\ res'[c] = "fail" BY <1>3, <2>1, RoutineStep
  <2>3. QED BY <2>2 DEF Caused
<1>4. QED BY <1>1, <1>2, <1>3 DEF Caused

\* An execution whose wait is over has a reason to be cancelled: waitRoutines
\* ends by its timer, which a cancellation started, or by its waiter.
LEMMA PastIsCaused ==
  ASSUME Half, Causes, NEW e \in Execs, PastReset(e)
  PROVE  Caused(e)
<1>1. waitDone[e] BY DEF Half, Helpers
<1>2. timer[e] = "exit" => ctxDone[e] BY DEF Half, Helpers
<1>3. waiter[e] \in {"cancel", "exit"} => Caused(e) BY DEF Caused
<1>4. QED BY <1>1, <1>2, <1>3 DEF Half, Helpers, Causes

-----------------------------------------------------------------------------
(* Registration and polls                                                  *)

LEMMA InstalledNow ==
  ASSUME TypeOK, Current, execState # Nil
  PROVE  execState \in Execs /\ Installed(execState)
  BY CancelTypes DEF Current, Installed, TypeOK, TypeCtl

LEMMA JoinedNext == ASSUME Half, Joined, [Next]_vars PROVE Joined'
<1>0. TypeOK /\ TypeRoutines /\ TypeCancel /\ cur \in Int BY CancelTypes DEF Half
<1> SUFFICES ASSUME NEW r \in Routines, NEW e, e = ectx'[r], rpc'[r] # "unborn", e # Nil
             PROVE  Installed(e)'
  BY DEF Joined, Installed
<1>1. CASE rpc[r] # "unborn"
  <2>1. ectx[r] = e BY <1>1, RoutineStep
  <2>2. e \in Execs BY <1>0, <2>1 DEF TypeRoutines
  <2>3. Installed(e) BY <1>1, <2>1 DEF Joined
  <2>4. QED BY <1>0, <2>2, <2>3, InstalledStable
<1>2. CASE rpc[r] = "unborn"
  <2>1. CASE GoMain
    <3>1. r = cur /\ UNCHANGED ectx BY <1>0, <1>2, <2>1 DEF GoMain, TypeRoutines
    <3>2. cur \in Execs BY <2>1, Types, <1>0 DEF GoMain
    <3>3. e = cur BY <3>1, <3>2 DEF Half, Structure, Mains
    <3>4. QED BY <2>1, <3>3 DEF GoMain, Installed
  <2>2. CASE \E x \in Routines, c \in Subs : Spawn(x, c)
    <3>1. PICK x \in Routines, c \in Subs : Spawn(x, c) BY <2>2
    <3>2. c = r BY <1>0, <1>2, <3>1 DEF Spawn, TypeRoutines
    <3>3. e = execState
      BY <1>0, <3>1, <3>2 DEF Spawn, TypeRoutines
    <3>4. e \in Execs /\ Installed(e)
      BY <1>0, <3>3, InstalledNow DEF Half, Structure
    <3>5. QED BY <1>0, <3>4, InstalledStable
  <2>3. \/ GoMain \/ rpc'[r] = rpc[r] \/ \E x \in Routines, c \in Subs : Spawn(x, c)
    <3> USE <1>0, <1>2, Names DEF TypeRoutines
    <3>1. ASSUME NEW c \in Subs, InitAdd(c) PROVE rpc'[r] = rpc[r] BY <3>1 DEF InitAdd
    <3>2. ASSUME NEW c \in Subs, InitCount(c) PROVE rpc'[r] = rpc[r]
      BY <3>2 DEF InitCount, Half, Structure, Spawners, PendingPcs
    <3>3. ASSUME NEW x \in Routines, NEW v \in Outcomes, Finish(x, v) PROVE rpc'[r] = rpc[r]
      BY <3>3 DEF Finish
    <3>4. ASSUME NEW x \in Routines, PollFlag(x) \/ PollStep(x) PROVE rpc'[r] = rpc[r]
      BY <3>4, PollShape
    <3>5. ASSUME NEW x \in Routines, RecordResult(x) PROVE rpc'[r] = rpc[r]
      BY <3>5, RecordShape
    <3>6. ASSUME NEW x \in Routines, WgDone(x) PROVE rpc'[r] = rpc[r]
      BY <3>6, DoneShape
    <3>7. ASSUME NEW x \in Routines, GoroutineCancels(x) PROVE rpc'[r] = rpc[r]
      BY <3>7 DEF GoroutineCancels
    <3>8. QED BY <3>1, <3>2, <3>3, <3>4, <3>5, <3>6, <3>7, RoutineFrame
          DEF RoutineMoves, routineVars
  <2>4. QED BY <1>2, <2>1, <2>2, <2>3
<1>3. QED BY <1>1, <1>2

\* A routine comes to its look at a context by reading the current state.
LEMMA SelectStep ==
  ASSUME Half, [Next]_vars, NEW r \in Routines, rpc'[r] = "select"
  PROVE  \/ rpc[r] = "select" /\ polled'[r] = polled[r]
         \/ rpc[r] = "poll" /\ polled'[r] = execState
<1>0. TypeRoutines BY Types DEF Half
<1> USE <1>0, Names DEF TypeRoutines
<1>1. CASE UNCHANGED routineVars BY <1>1 DEF routineVars
<1>2. CASE GoMain BY <1>2, Types DEF GoMain, Half
<1>3. CASE RoutineMoves
  <2>1. ASSUME NEW x \in Routines, NEW c \in Subs, Spawn(x, c)
        PROVE  rpc[r] = "select" /\ polled'[r] = polled[r]
    BY <2>1 DEF Spawn
  <2>2. ASSUME NEW c \in Subs, InitAdd(c) \/ InitCount(c)
        PROVE  rpc[r] = "select" /\ polled'[r] = polled[r]
    BY <2>2 DEF InitAdd, InitCount
  <2>3. ASSUME NEW x \in Routines, NEW v \in Outcomes, Finish(x, v)
        PROVE  rpc[r] = "select" /\ polled'[r] = polled[r]
    BY <2>3 DEF Finish
  <2>4. ASSUME NEW x \in Routines, PollFlag(x) \/ PollContext(x)
        PROVE  rpc[r] = "select" /\ polled'[r] = polled[r]
    BY <2>4 DEF PollFlag, PollContext
  <2>5. ASSUME NEW x \in Routines, PollState(x)
        PROVE  \/ rpc[r] = "select" /\ polled'[r] = polled[r]
               \/ rpc[r] = "poll" /\ polled'[r] = execState
    BY <2>5 DEF PollState
  <2>6. ASSUME NEW x \in Routines, RecordResult(x)
        PROVE  rpc[r] = "select" /\ polled'[r] = polled[r]
    <3>1. UNCHANGED polled BY <2>6 DEF RecordResult
    <3>2. QED BY <2>6, <3>1, RecordShape
  <2>7. ASSUME NEW x \in Routines, WgDone(x)
        PROVE  rpc[r] = "select" /\ polled'[r] = polled[r]
    <3>1. UNCHANGED polled BY <2>7 DEF WgDone
    <3>2. QED BY <2>7, <3>1, DoneShape
  <2>8. ASSUME NEW x \in Routines, GoroutineCancels(x)
        PROVE  rpc[r] = "select" /\ polled'[r] = polled[r]
    BY <2>8 DEF GoroutineCancels
  <2>9. QED BY <1>3, <2>1, <2>2, <2>3, <2>4, <2>5, <2>6, <2>7, <2>8 DEF RoutineMoves, PollStep
<1>4. QED BY <1>1, <1>2, <1>3, RoutineFrame

LEMMA GlancesNext == ASSUME Half, Joined, Glances, [Next]_vars PROVE Glances'
<1>0. TypeOK /\ TypeRoutines /\ TypeCancel BY CancelTypes DEF Half
<1> SUFFICES ASSUME NEW r \in Routines, NEW e, e = ectx'[r],
                    rpc'[r] = "select", e \notin {Nil, polled'[r]}
             PROVE  PastReset(e)'
  BY DEF Glances, PastReset
<1>1. rpc[r] # "unborn" BY SelectStep
<1>2. e = ectx[r] BY <1>1, RoutineStep
<1>3. e \in Execs BY <1>0, <1>2 DEF TypeRoutines
<1>4. CASE rpc[r] = "select" /\ polled'[r] = polled[r]
  <2>1. PastReset(e) BY <1>2, <1>4 DEF Glances
  <2>2. QED BY <1>0, <1>3, <2>1, Forward
<1>5. CASE rpc[r] = "poll" /\ polled'[r] = execState
  <2>1. Installed(e) BY <1>1, <1>2 DEF Joined
  <2>2. execState # e BY <1>5
  <2>3. PastReset(e)
    BY <1>0, <2>1, <2>2, CancelTypes DEF Half, Structure, Current, Installed, PastReset
  <2>4. QED BY <1>0, <1>3, <2>3, Forward
<1>6. QED BY <1>4, <1>5, SelectStep

LEMMA ThrownNext ==
  ASSUME Half, Causes, Glances, Thrown, [Next]_vars
  PROVE  Thrown'
<1>0. TypeOK /\ TypeRoutines BY Types DEF Half
<1> SUFFICES ASSUME NEW r \in Routines, NEW e, e = ectx'[r], res'[r] = "bailout", e # Nil
             PROVE  Caused(e)'
  BY DEF Thrown, Caused
<1>1. CASE res[r] # "none"
  <2>1. rpc[r] # "unborn" BY <1>1 DEF Half, Structure, Bodies, EndPcs
  <2>2. res'[r] = res[r] /\ e = ectx[r] BY <1>1, <2>1, RoutineStep
  <2>3. e \in Execs BY <1>0, <2>2 DEF TypeRoutines
  <2>4. Caused(e) BY <2>2 DEF Thrown
  <2>5. QED BY <2>3, <2>4, CauseStable
<1>2. CASE res[r] = "none"
  <2>1. PollContext(r) /\ PolledDone(r)
    <3>1. \/ UNCHANGED res
          \/ \E x \in Routines, v \in Outcomes : Finish(x, v)
          \/ \E x \in Routines : PollContext(x) /\ PolledDone(x)
      <4>1. RoutineMoves =>
              \/ UNCHANGED res
              \/ \E x \in Routines, v \in Outcomes : Finish(x, v)
              \/ \E x \in Routines : PollContext(x) /\ PolledDone(x)
        BY DEF RoutineMoves, Spawn, PollFlag, PollStep, PollState, PollContext, RecordResult,
               WgDone, GoroutineCancels, InitAdd, InitCount
      <4>2. QED BY <4>1, RoutineFrame DEF GoMain, routineVars
    <3>2. ASSUME NEW x \in Routines, NEW v \in Outcomes, Finish(x, v) PROVE FALSE
      BY <1>0, <1>2, <3>2, BoundsAssumption DEF Finish, TypeRoutines
    <3>3. ASSUME NEW x \in Routines, PollContext(x), x # r PROVE FALSE
      BY <1>0, <1>2, <3>3 DEF PollContext, TypeRoutines
    <3>4. QED BY <1>2, <3>1, <3>2, <3>3
  <2>2. rpc[r] = "select" /\ e = ectx[r] BY <2>1 DEF PollContext
  <2>3. e \in Execs BY <1>0, <2>2 DEF TypeRoutines
  <2>4. CASE polled[r] = e
    <3>1. ctxDone[e] BY <2>1, <2>4 DEF PolledDone
    <3>2. QED BY <2>3, <3>1, CauseStable DEF Causes
  <2>5. CASE polled[r] # e
    <3>1. PastReset(e) BY <2>2, <2>5 DEF Glances
    <3>2. QED BY <2>3, <3>1, PastIsCaused, CauseStable
  <2>6. QED BY <2>4, <2>5
<1>3. QED BY <1>1, <1>2

-----------------------------------------------------------------------------
(* The causes, and the flag                                                *)

\* Whoever calls cancel() has a reason, and its execution is installed.
LEMMA CallerHasCause ==
  ASSUME Half, Joined, Thrown, NEW r \in Routines, rpc[r] = "cancel"
  PROVE  ectx[r] \in Execs /\ Caused(ectx[r]) /\ Installed(ectx[r])
<1>0. TypeRoutines BY Types DEF Half
<1>1. ectx[r] # Nil /\ res[r] # "ok" /\ res[r] # "none"
  BY DEF Half, Structure, Bodies, RunPcs, EndPcs
<1>2. ectx[r] \in Execs BY <1>0, <1>1 DEF TypeRoutines
<1>3. r \in Subs BY Names DEF Half, Structure, Mains
<1>4. res[r] \in {"fail", "bailout"} BY <1>0, <1>1 DEF TypeRoutines
<1>5. Caused(ectx[r]) BY <1>1, <1>3, <1>4 DEF Thrown, Caused
<1>6. QED BY <1>1, <1>2, <1>5 DEF Joined

LEMMA CausesNext ==
  ASSUME Half, Causes, Joined, Thrown, [Next]_vars
  PROVE  Causes'
<1>0. TypeOK /\ TypeCancel /\ TypeHelpers BY CancelTypes DEF Half
<1> SUFFICES ASSUME NEW e \in Execs, ctxDone'[e] \/ cancelPc'[e] # "none"
             PROVE  Caused(e)'
  BY DEF Causes
<1> USE <1>0 DEF TypeCancel
<1>1. CASE ctxDone[e] \/ cancelPc[e] # "none"
  BY <1>1, CauseStable DEF Causes
<1>2. ASSUME cancelPc[e] = "none", cancelPc'[e] # "none" PROVE Caused(e)'
  <2>1. ASSUME NEW f \in Execs, WatcherFires(f) PROVE Caused(e)'
    <3>1. e = f BY <1>2, <2>1, CallShape DEF WatcherFires
    <3>2. Caused(e) BY <2>1, <3>1 DEF WatcherFires, Caused
    <3>3. QED BY <3>2, CauseStable
  <2>2. ASSUME NEW f \in Execs, WaiterCancels(f) PROVE Caused(e)'
    <3>1. e = f BY <1>2, <2>2, CallShape DEF WaiterCancels
    <3>2. Caused(e) BY <2>2, <3>1 DEF WaiterCancels, Caused
    <3>3. QED BY <3>2, CauseStable
  <2>3. ASSUME NEW r \in Routines, GoroutineCancels(r) PROVE Caused(e)'
    <3>1. e = ectx[r] BY <1>2, <2>3, CallShape DEF GoroutineCancels
    <3>2. Caused(e) BY <2>3, <3>1, CallerHasCause DEF GoroutineCancels
    <3>3. QED BY <3>2, CauseStable
  <2>4. ASSUME NEW f \in Execs, CancelWork(f) PROVE FALSE
    BY <1>2, <2>4 DEF CancelWork, CancelCheckCurrent, CancelStore, CancelCtx
  <2>5. QED BY <1>2, <2>1, <2>2, <2>3, <2>4, CancelFrame DEF CancelCalls
<1>3. ASSUME ~ctxDone[e], cancelPc[e] = "none", cancelPc'[e] = "none", ctxDone'[e]
      PROVE  Caused(e)'
  <2>1. ASSUME NEW f \in Execs, ParentCancelled(f) PROVE Caused(e)'
    <3>1. e = f BY <1>3, <2>1 DEF ParentCancelled
    <3>2. QED BY <2>1, <3>1 DEF ParentCancelled, Caused
  <2>2. ASSUME NEW f \in Execs, CancelCtx(f) PROVE FALSE
    BY <1>3, <2>2 DEF CancelCtx
  <2>3. CASE NewExecutionState
    <3>1. e = cur /\ parentDone[e] BY <1>3, <2>3 DEF NewExecutionState
    <3>2. QED BY <3>1, CauseStable DEF Caused
  <2>4. QED BY <1>3, <2>1, <2>2, <2>3, DoneFrame
<1>4. QED BY <1>1, <1>2, <1>3

LEMMA BegunNext ==
  ASSUME Half, Joined, Thrown, Begun, [Next]_vars
  PROVE  Begun'
<1>0. TypeOK /\ TypeCancel /\ TypeHelpers /\ cur \in Int BY CancelTypes DEF Half
<1> SUFFICES ASSUME NEW e \in Execs, watcher'[e] # "none" \/ cancelPc'[e] # "none"
             PROVE  Created(e)'
  BY DEF Begun
<1>1. Created(e) => Created(e)'
  <2> USE DEF Created
  <2>1. CASE UNCHANGED pos BY <2>1 DEF pos
  <2>2. CASE StartExec BY <2>2, <1>0, Names DEF StartExec
  <2>3. CASE CallerStep
    BY <2>3 DEF CallerStep, NewExecutionState, SetExecState, GoMain, WaitRoutines,
                ResetExecState, ReportMain, ReportSub
  <2>4. QED BY <2>1, <2>2, <2>3, PosFrame DEF CallerMoves
<1>2. ASSUME NEW f \in Execs, Installed(f) PROVE Created(f)
  BY <1>2 DEF Installed, Created
<1>3. ASSUME cancelPc[e] = "none", cancelPc'[e] # "none" PROVE Created(e)
  <2>1. ASSUME NEW f \in Execs, WatcherFires(f) PROVE Created(e)
    <3>1. e = f BY <1>0, <1>3, <2>1, CallShape DEF WatcherFires
    <3>2. QED BY <2>1, <3>1 DEF WatcherFires, Begun
  <2>2. ASSUME NEW f \in Execs, WaiterCancels(f) PROVE Created(e)
    <3>1. e = f BY <1>0, <1>3, <2>2, CallShape DEF WaiterCancels
    <3>2. Waited(f) BY <2>2 DEF WaiterCancels, Half, Helpers
    <3>3. QED BY <3>1, <3>2 DEF Waited, Created
  <2>3. ASSUME NEW r \in Routines, GoroutineCancels(r) PROVE Created(e)
    <3>1. e = ectx[r] BY <1>0, <1>3, <2>3, CallShape DEF GoroutineCancels
    <3>2. Installed(ectx[r]) BY <2>3, CallerHasCause DEF GoroutineCancels
    <3>3. QED BY <1>2, <3>1, <3>2
  <2>4. ASSUME NEW f \in Execs, CancelWork(f) PROVE FALSE
    BY <1>0, <1>3, <2>4 DEF CancelWork, CancelCheckCurrent, CancelStore, CancelCtx, TypeCancel
  <2>5. QED BY <1>3, <2>1, <2>2, <2>3, <2>4, CancelFrame DEF CancelCalls
<1>4. ASSUME watcher[e] = "none", watcher'[e] # "none" PROVE Created(e)'
  <2>1. ASSUME NEW f \in Execs, WatcherFires(f) PROVE watcher'[e] = watcher[e]
    BY <1>0, <1>4, <2>1 DEF WatcherFires, TypeHelpers
  <2>2. ASSUME NEW f \in Execs, WaiterStep(f) \/ TimerStep(f) PROVE UNCHANGED watcher
    BY <2>2 DEF WaiterStep, WaiterStarts, WaiterWakes, WaiterCancels, TimerStep,
                TimerStarts, TimerFires
  <2>3. CASE NewExecutionState
    <3>1. e = cur BY <1>0, <1>4, <2>3 DEF NewExecutionState, TypeHelpers
    <3>2. QED BY <2>3, <3>1 DEF NewExecutionState, Created
  <2>4. QED BY <1>4, <2>1, <2>2, <2>3, HelperFrame DEF helperVars, WaitRoutines, WgDone
<1>5. QED BY <1>1, <1>3, <1>4 DEF Begun

LEMMA PromptNext ==
  ASSUME Half, Joined, Thrown, Prompt, [Next]_vars
  PROVE  Prompt'
<1>0. TypeOK /\ TypeCancel /\ TypeHelpers /\ Current /\ cur \in Int
  BY CancelTypes DEF Half, Structure
<1> SUFFICES ASSUME ~EarlyCancel, NEW e \in Execs
    PROVE  /\ parentDone'[e] \/ cancelPc'[e] # "none" => Installed(e)'
           /\ execState' = e /\ cancelPc'[e] \in {"ctx", "done"} => isRunning' = 0
  BY DEF Prompt
<1> USE <1>0 DEF TypeCancel
<1>1. /\ parentDone[e] \/ cancelPc[e] # "none" => Installed(e)
      /\ execState = e /\ cancelPc[e] \in {"ctx", "done"} => isRunning = 0
  BY DEF Prompt
<1>2. ASSUME parentDone'[e] PROVE Installed(e)'
  <2>1. ASSUME NEW f \in Execs, ParentCancelled(f) PROVE parentDone[e] \/ Installed(e)
    BY <1>2, <2>1 DEF ParentCancelled
  <2>2. QED BY <1>1, <1>2, <2>1, ParentFrame, InstalledStable
<1>3. ASSUME cancelPc'[e] # "none" PROVE Installed(e)'
  <2>1. ASSUME NEW f \in Execs, WatcherFires(f) PROVE cancelPc[e] # "none" \/ parentDone[e]
    BY <1>3, <2>1, CallShape DEF WatcherFires
  <2>2. ASSUME NEW f \in Execs, WaiterCancels(f) PROVE cancelPc[e] # "none" \/ Installed(e)
    <3>1. e = f \/ cancelPc[e] # "none" BY <1>3, <2>2, CallShape DEF WaiterCancels
    <3>2. Waited(f) BY <2>2 DEF WaiterCancels, Half, Helpers
    <3>3. Installed(f) BY <3>2 DEF Waited, Installed
    <3>4. QED BY <3>1, <3>3
  <2>3. ASSUME NEW r \in Routines, GoroutineCancels(r) PROVE cancelPc[e] # "none" \/ Installed(e)
    <3>1. e = ectx[r] \/ cancelPc[e] # "none" BY <1>3, <2>3, CallShape DEF GoroutineCancels
    <3>2. Installed(ectx[r]) BY <2>3, CallerHasCause DEF GoroutineCancels
    <3>3. QED BY <3>1, <3>2
  <2>4. ASSUME NEW f \in Execs, CancelWork(f) PROVE cancelPc[e] # "none"
    BY <1>3, <2>4 DEF CancelWork, CancelCheckCurrent, CancelStore, CancelCtx
  <2>5. cancelPc[e] # "none" \/ parentDone[e] \/ Installed(e)
    BY <1>3, <2>1, <2>2, <2>3, <2>4, CancelFrame DEF CancelCalls
  <2>6. QED BY <1>1, <2>5, InstalledStable
<1>4. ASSUME execState' = e, cancelPc'[e] \in {"ctx", "done"} PROVE isRunning' = 0
  <2>1. CASE \E f \in Execs : CancelWork(f)
    <3>1. PICK f \in Execs : CancelWork(f) BY <2>1
    <3>2. execState = e BY <1>4, <3>1
          DEF CancelWork, CancelCheckCurrent, CancelStore, CancelCtx, ctlVars
    <3>3. CASE CancelStore(f) BY <3>3 DEF CancelStore
    <3>4. CASE CancelCheckCurrent(f)
      BY <1>1, <1>4, <3>2, <3>4 DEF CancelCheckCurrent, ctlVars
    <3>5. CASE CancelCtx(f) BY <1>1, <1>4, <3>2, <3>5 DEF CancelCtx, ctlVars
    <3>6. QED BY <3>1, <3>3, <3>4, <3>5 DEF CancelWork
  <2>2. CASE CancelCalls
    <3>1. UNCHANGED ctlVars BY <2>2 DEF CancelCalls, WatcherFires, WaiterCancels, GoroutineCancels
    <3>2. cancelPc[e] = cancelPc'[e]
      BY <1>4, <2>2, CallShape DEF CancelCalls, WatcherFires, WaiterCancels, GoroutineCancels
    <3>3. QED BY <1>1, <1>4, <3>1, <3>2 DEF ctlVars
  <2>3. CASE UNCHANGED cancelPc
    <3>1. CASE StartExec BY <1>4, <3>1, Names DEF StartExec, Current
    <3>2. CASE SetExecState
      <4>1. e = cur BY <1>4, <3>2 DEF SetExecState
      <4>2. Installed(e) BY <1>1, <1>4, <2>3
      <4>3. QED BY <3>2, <4>1, <4>2 DEF SetExecState, Installed
    <3>3. CASE ResetExecState
      BY <1>1, <1>4, <2>3, <3>3, Names DEF ResetExecState
    <3>4. CASE NewExecutionState \/ GoMain \/ WaitRoutines \/ ReportMain \/ ReportSub
      BY <1>1, <1>4, <2>3, <3>4
      DEF NewExecutionState, GoMain, WaitRoutines, ReportMain, ReportSub
    <3>5. CASE UNCHANGED ctlVars BY <1>1, <1>4, <2>3, <3>5 DEF ctlVars
    <3>6. QED BY <2>1, <3>1, <3>2, <3>3, <3>4, <3>5, FlagFrame DEF CallerStep
  <2>4. QED BY <2>1, <2>2, <2>3, CancelFrame
<1>5. QED BY <1>2, <1>3, <1>4

-----------------------------------------------------------------------------
(* The whole invariant                                                     *)

LEMMA CancelInvInit == Init => CancelInv
<1> SUFFICES ASSUME Init PROVE CancelInv
  OBVIOUS
<1> USE DEF Init
<1>1. Causes /\ Begun BY DEF Causes, Begun
<1>2. Joined BY DEF Joined
<1>3. Glances BY DEF Glances
<1>4. Thrown BY DEF Thrown
<1>5. Prompt BY DEF Prompt
<1>6. QED BY <1>1, <1>2, <1>3, <1>4, <1>5 DEF CancelInv

LEMMA CoreInvNext == CoreInv /\ [Next]_vars => CoreInv'
<1> SUFFICES ASSUME CoreInv, [Next]_vars PROVE CoreInv'
  OBVIOUS
<1>1. IInv /\ Half BY DEF CoreInv, IInv, Half, Waits
<1>2. IInv' BY <1>1, IInvNext
<1>3. Causes' /\ Begun' /\ Joined' /\ Glances' /\ Thrown' /\ Prompt'
  BY <1>1, CausesNext, BegunNext, JoinedNext, GlancesNext, ThrownNext, PromptNext DEF CoreInv, CancelInv
<1>4. QED BY <1>2, <1>3 DEF CoreInv, CancelInv

\* The conjunction of all the parts (CoreInv), for every instance.
THEOREM CoreInvariance == Spec => []CoreInv
<1>1. Init => CoreInv BY IInvInit, CancelInvInit DEF CoreInv
<1>2. QED BY <1>1, CoreInvNext, PTL DEF Spec

\* An execution is cancelled only by its parent, by its own completion, or by
\* the panic of a goroutine registered with it (CancelCaused): being thrown out
\* by ExitIfCtxDone is never the first cause.
THEOREM CancelsAreCaused == Spec => []CancelCaused
<1>1. CoreInv => CancelCaused
  BY DEF CoreInv, CancelInv, Causes, Caused, CancelCaused
<1>2. QED BY <1>1, CoreInvariance, PTL

\* If no parent is done before setExecState, a completed cancellation of the
\* current execution shows in isRunning (CancelVisible).
THEOREM CancelsAreVisible == ASSUME ~EarlyCancel PROVE Spec => []CancelVisible
<1>1. CoreInv => CancelVisible
  BY DEF CoreInv, CancelInv, Prompt, CancelVisible
<1>2. QED BY <1>1, CoreInvariance, PTL

-----------------------------------------------------------------------------
(* The refinement: each step seen through the mapping                      *)

LEMMA PromiseVars == UNCHANGED <<Phase, Over, Bad, ctxDone>> => UNCHANGED Promise!vars
  BY DEF Promise!vars

LEMMA PromiseInit == Init => Promise!Init
<1> SUFFICES ASSUME Init PROVE Promise!Init
  OBVIOUS
<1> USE DEF Init
<1>1. Phase = [e \in Execs |-> "idle"] BY Names, NumExecsAssumption DEF Phase, Execs
<1>2. \A e \in Execs : rpc[e] = "unborn" BY Names
<1>3. Over = [e \in Execs |-> FALSE]
  <2>1. \A e \in Execs : (rpc[e] # "unborn" /\ CodeOver(e)) = FALSE BY <1>2
  <2>2. QED BY <2>1 DEF Over
<1>4. Bad = [e \in Execs |-> FALSE]
  <2>1. \A e \in Execs : ~Failed(e) BY DEF Failed
  <2>2. \A e \in Execs : Failed(e) = FALSE BY <2>1 DEF Failed
  <2>3. QED BY <2>2 DEF Bad
<1>5. ctxDone = [e \in Execs |-> FALSE] OBVIOUS
<1>6. QED BY <1>1, <1>3, <1>4, <1>5 DEF Promise!Init

LEMMA PhaseAt ==
  ASSUME TypeOK, NEW e \in Execs
  PROVE  /\ Phase[e] = "idle" <=> cur < e
         /\ Phase[e] = "running" <=> (e = cur /\ callerPc # "idle")
         /\ Phase[e] = "nil" <=> (Returned(e) /\ NoMessage(e))
         /\ Phase[e] = "error" <=> (Returned(e) /\ ~NoMessage(e))
         /\ Phase[e] \in {"idle", "running", "nil", "error"}
<1>1. e \in Int /\ cur \in Int BY Names, Types
<1>2. QED BY <1>1 DEF Phase, Returned

\* The caller's moves are the only ones that change what it sees.
LEMMA PhaseFrame == UNCHANGED <<pos, report>> => UNCHANGED Phase
  BY DEF pos, Phase, Returned, NoMessage

LEMMA RoutinesFrame == UNCHANGED routineVars => UNCHANGED <<Over, Bad>>
  BY DEF routineVars, Over, CodeOver, Bad, Failed

\* A mapped variable keeps its value if it does at every execution.
LEMMA OverFrame ==
  ASSUME \A e \in Execs : rpc'[e] = "unborn" <=> rpc[e] = "unborn",
         \A e \in Execs : CodeOver(e)' <=> CodeOver(e)
  PROVE  UNCHANGED Over
<1>1. \A e \in Execs : (rpc[e] # "unborn" /\ CodeOver(e))' = (rpc[e] # "unborn" /\ CodeOver(e))
  OBVIOUS
<1>2. QED BY <1>1 DEF Over

LEMMA BadFrame ==
  ASSUME \A e \in Execs : Failed(e)' <=> Failed(e)
  PROVE  UNCHANGED Bad
<1>1. \A e \in Execs : Failed(e)' = Failed(e) BY DEF Failed
<1>2. QED BY <1>1 DEF Bad

-----------------------------------------------------------------------------
(* The steps of routines: ends and failures                                *)

LEMMA OverAt == ASSUME NEW e \in Execs PROVE Over[e] <=> rpc[e] # "unborn" /\ CodeOver(e)
  BY DEF Over

\* A routine that moves among its living states ends nothing, fails nothing.
LivingPcs == {"init", "reg"} \cup RunPcs

LEMMA LivingStep ==
  ASSUME TypeRoutines, NEW r \in Routines, rpc[r] \in LivingPcs, rpc'[r] \in LivingPcs,
         UNCHANGED <<home, ectx>>,
         \A x \in Routines \ {r} : rpc'[x] = rpc[x] /\ res'[x] = res[x]
  PROVE  UNCHANGED <<Over, Bad>>
<1> USE DEF LivingPcs, RunPcs
<1>1. \A e \in Execs : CodeOver(e)' <=> CodeOver(e) BY DEF CodeOver
<1>2. \A e \in Execs : rpc'[e] = "unborn" <=> rpc[e] = "unborn" BY Names
<1>3. UNCHANGED Over BY <1>1, <1>2, OverFrame
<1>4. \A e \in Execs : Failed(e)' <=> Failed(e) BY DEF Failed
<1>5. UNCHANGED Bad BY <1>4, BadFrame
<1>6. QED BY <1>3, <1>5

LEMMA SpawnMapped ==
  ASSUME Half, NEW r \in Routines, NEW c \in Subs, Spawn(r, c)
  PROVE  UNCHANGED <<Over, Bad>>
<1>0. TypeRoutines BY Types DEF Half
<1> USE <1>0, Names DEF TypeRoutines
<1>1. /\ rpc[r] = "run" /\ rpc'[r] \in {"run", "spawn"} /\ rpc[c] = "unborn"
      /\ rpc'[c] \in {"run", "init"} /\ c # r /\ home'[c] = home[r] /\ UNCHANGED res
  BY DEF Spawn
<1>2. \A x \in Routines \ {r, c} : rpc'[x] = rpc[x] /\ home'[x] = home[x] /\ ectx'[x] = ectx[x]
  BY DEF Spawn
<1>3. home'[r] = home[r] /\ ectx'[r] = ectx[r] BY <1>1 DEF Spawn
<1>4. home[c] = Nil BY <1>1 DEF Half, Structure, Children
<1>5. \A e \in Execs : CodeOver(e)' <=> CodeOver(e)
  BY <1>1, <1>2, <1>3, <1>4 DEF CodeOver
<1>6. \A e \in Execs : rpc'[e] = "unborn" <=> rpc[e] = "unborn"
  BY <1>1, <1>2
<1>7. \A e \in Execs : Failed(e)' <=> Failed(e)
  BY <1>1, <1>2, <1>3, <1>4 DEF Failed
<1>8. QED BY <1>5, <1>6, <1>7, OverFrame, BadFrame

LEMMA InitMapped ==
  ASSUME Half, NEW c \in Subs, InitAdd(c) \/ InitCount(c)
  PROVE  UNCHANGED <<Over, Bad>>
<1>0. TypeRoutines BY Types DEF Half
<1> USE <1>0, Names DEF TypeRoutines, LivingPcs, RunPcs
<1>1. CASE InitAdd(c)
  <2>1. /\ rpc[c] = "init" /\ rpc'[c] = "reg" /\ UNCHANGED <<home, ectx, res>>
        /\ \A x \in Routines \ {c} : rpc'[x] = rpc[x]
    BY <1>1 DEF InitAdd
  <2>2. QED BY <2>1, LivingStep
<1>2. CASE InitCount(c)
  <2>1. /\ rpc[c] = "reg" /\ rpc'[c] = "run" /\ UNCHANGED <<home, ectx, res>>
        /\ rpc'[spawner[c]] = "run"
        /\ \A x \in Routines \ {c, spawner[c]} : rpc'[x] = rpc[x]
    BY <1>2 DEF InitCount
  <2>2. rpc[spawner[c]] = "spawn" BY <2>1 DEF Half, Structure, Spawners, PendingPcs
  <2>3. \A x \in Routines : rpc'[x] = rpc[x] \/ (rpc[x] \in {"reg", "spawn"} /\ rpc'[x] = "run")
    BY <2>1, <2>2
  <2>4. \A e \in Execs : CodeOver(e)' <=> CodeOver(e) BY <2>1, <2>3 DEF CodeOver
  <2>5. \A e \in Execs : rpc'[e] = "unborn" <=> rpc[e] = "unborn" BY <2>3
  <2>6. \A e \in Execs : Failed(e)' <=> Failed(e) BY <2>1, <2>3 DEF Failed
  <2>7. QED BY <2>4, <2>5, <2>6, OverFrame, BadFrame
<1>3. QED BY <1>1, <1>2

LEMMA BodyMapped ==
  ASSUME Half, NEW r \in Routines,
         (\E v \in Outcomes : Finish(r, v)) \/ PollFlag(r) \/ PollStep(r)
  PROVE  UNCHANGED <<Over, Bad>>
<1>0. TypeRoutines BY Types DEF Half
<1> USE <1>0, Names DEF TypeRoutines
<1>1. /\ rpc[r] \in {"run", "poll", "select"} /\ UNCHANGED <<home, ectx>>
      /\ \E p \in {"run", "poll", "select", "ended"} : rpc' = [rpc EXCEPT ![r] = p]
  <2>1. CASE \E v \in Outcomes : Finish(r, v) BY <2>1 DEF Finish
  <2>2. CASE PollFlag(r) \/ PollStep(r) BY <2>2, PollShape
  <2>3. QED BY <2>1, <2>2
<1>2. \A x \in Routines \ {r} : res'[x] = res[x]
  BY DEF Finish, PollFlag, PollStep, PollState, PollContext
<1>3. QED BY <1>1, <1>2, LivingStep DEF LivingPcs, RunPcs

\* A goroutine that cancels its execution has ended already.
LEMMA CancelsMapped ==
  ASSUME Half, NEW r \in Routines, GoroutineCancels(r)
  PROVE  UNCHANGED <<Over, Bad>>
<1>0. TypeRoutines BY Types DEF Half
<1> USE <1>0, Names DEF TypeRoutines
<1>1. /\ rpc[r] = "cancel" /\ rpc'[r] = "exit" /\ UNCHANGED <<home, ectx, res>>
      /\ \A x \in Routines \ {r} : rpc'[x] = rpc[x]
  BY DEF GoroutineCancels
<1>2. \A e \in Execs : CodeOver(e)' <=> CodeOver(e) BY <1>1 DEF CodeOver
<1>3. \A e \in Execs : rpc'[e] = "unborn" <=> rpc[e] = "unborn" BY <1>1
<1>4. \A e \in Execs : Failed(e)' <=> Failed(e) BY <1>1 DEF Failed
<1>5. QED BY <1>2, <1>3, <1>4, OverFrame, BadFrame

\* The end of a body is recorded: a failure of its execution, or nothing.
LEMMA RecordMapped ==
  ASSUME IInv, NEW r \in Routines, RecordResult(r), UNCHANGED <<Phase, ctxDone>>
  PROVE  (\E e \in Execs : Promise!Fail(e)) \/ UNCHANGED <<Over, Bad>>
<1>0. Half /\ TypeOK /\ TypeRoutines BY Types DEF Half, IInv, Waits
<1> USE <1>0, Names DEF TypeRoutines
<1>1. CASE rpc' = rpc
  BY <1>1, RecordShape, RoutinesFrame, OverFrame, BadFrame DEF CodeOver, Failed
<1>2. CASE rpc' # rpc
  <2>1. /\ rpc[r] = "ended" /\ rpc' = [rpc EXCEPT ![r] = "recorded"]
        /\ UNCHANGED <<home, ectx, res>>
    BY <1>2, RecordShape
  <2>2. UNCHANGED Over
    <3>1. \A e \in Execs : CodeOver(e)' <=> CodeOver(e) BY <2>1 DEF CodeOver
    <3>2. \A e \in Execs : rpc'[e] = "unborn" <=> rpc[e] = "unborn" BY <2>1
    <3>3. QED BY <3>1, <3>2, OverFrame
  <2>3. CASE home[r] = ectx[r] /\ res[r] # "ok"
    <3>1. PICK e \in Execs : e = home[r] BY <2>1 DEF Half, Structure, Mains, Children
    <3>2. Failed(e)' BY <2>1, <2>3, <3>1 DEF Failed
    <3>3. \A f \in Execs \ {e} : Failed(f)' <=> Failed(f) BY <2>1, <3>1 DEF Failed
    <3>4. Bad' = [Bad EXCEPT ![e] = TRUE]
      <4>1. \A f \in Execs : Bad'[f] = (IF f = e THEN TRUE ELSE Bad[f])
        BY <3>2, <3>3 DEF Bad, Failed
      <4>2. QED BY <4>1 DEF Bad
    <3>5. ~Over[e] BY <2>1, <3>1, OverAt DEF CodeOver
    <3>6. Phase[e] \in {"running", "error"}
      <4>1. Started(e) BY <2>1, <3>1 DEF Half, Structure, Mains, Children
      <4>2. Phase[e] # "idle" BY <4>1, PhaseAt, Types DEF Started
      <4>3. ASSUME Phase[e] = "nil" PROVE FALSE
        <5>1. Returned(e) /\ NoMessage(e) BY <4>3, PhaseAt
        <5>2. EndedWell(r) BY <2>3, <3>1, <5>1 DEF IInv, Reports
        <5>3. QED BY <2>1, <5>2 DEF EndedWell
      <4>4. QED BY <4>2, <4>3, PhaseAt
    <3>7. QED BY <2>2, <3>4, <3>5, <3>6 DEF Promise!Fail
  <2>4. CASE ~(home[r] = ectx[r] /\ res[r] # "ok")
    <3>1. \A e \in Execs : Failed(e)' <=> Failed(e) BY <2>1, <2>4 DEF Failed
    <3>2. QED BY <2>2, <3>1, BadFrame
  <2>5. QED BY <2>3, <2>4
<1>3. QED BY <1>1, <1>2

\* The last routine of an execution is done: its code is over.
LEMMA DoneMapped ==
  ASSUME IInv, NEW r \in Routines, WgDone(r), UNCHANGED <<Phase, ctxDone>>
  PROVE  (\E e \in Execs : Promise!End(e)) \/ UNCHANGED <<Over, Bad>>
<1>0. Half /\ TypeOK /\ TypeRoutines BY Types DEF Half, IInv, Waits
<1> USE <1>0, Names DEF TypeRoutines
<1>1. CASE rpc' = rpc
  BY <1>1, DoneShape, OverFrame, BadFrame DEF CodeOver, Failed
<1>2. CASE rpc' # rpc
  <2>1. /\ rpc[r] = "recorded" /\ rpc'[r] \in {"exit", "cancel"}
        /\ UNCHANGED <<home, ectx, res>>
        /\ \A x \in Routines \ {r} : rpc'[x] = rpc[x]
    BY <1>2, DoneShape
  <2>2. UNCHANGED Bad
    <3>1. \A e \in Execs : Failed(e)' <=> Failed(e) BY <2>1 DEF Failed
    <3>2. QED BY <3>1, BadFrame
  <2>3. PICK e \in Execs : e = home[r] BY <2>1 DEF Half, Structure, Mains, Children
  <2>4. \A f \in Execs \ {e} : CodeOver(f)' <=> CodeOver(f) BY <2>1, <2>3 DEF CodeOver
  <2>5. \A f \in Execs : rpc'[f] = "unborn" <=> rpc[f] = "unborn" BY <2>1
  <2>6. Started(e) /\ rpc[e] # "unborn"
    BY <2>1, <2>3 DEF Half, Structure, Mains, Children
  <2>7. ~CodeOver(e) BY <2>1, <2>3 DEF CodeOver
  <2>8. CASE CodeOver(e)'
    <3>1. Over' = [Over EXCEPT ![e] = TRUE]
      <4>1. \A f \in Execs : Over'[f] = (IF f = e THEN TRUE ELSE Over[f])
        BY <2>4, <2>5, <2>6, <2>8 DEF Over
      <4>2. QED BY <4>1 DEF Over
    <3>2. Phase[e] # "idle" BY <2>6, PhaseAt, Types DEF Started
    <3>3. QED BY <2>2, <3>1, <3>2 DEF Promise!End
  <2>9. CASE ~CodeOver(e)'
    <3>1. \A f \in Execs : CodeOver(f)' <=> CodeOver(f) BY <2>4, <2>7, <2>9
    <3>2. QED BY <2>2, <2>5, <3>1, OverFrame
  <2>10. QED BY <2>8, <2>9
<1>3. QED BY <1>1, <1>2

-----------------------------------------------------------------------------
(* The steps of the caller and of its helpers                              *)

LEMMA StartMapped ==
  ASSUME IInv, StartExec
  PROVE  \E e \in Execs : Promise!Begin(e)
<1>0. TypeOK /\ TypeOK' BY CallerType DEF IInv
<1>1. /\ cur \in Int /\ cur' = cur + 1 /\ callerPc = "idle" /\ callerPc' # "idle"
      /\ UNCHANGED <<report, routineVars, ctxDone>>
  BY <1>0, Types DEF StartExec, countVars, cancelVars
<1>2. PICK e \in Execs : e = cur'
  <2>1. cur \in 0 .. NumExecs /\ cur < NumExecs BY <1>0 DEF TypeOK, TypeCtl, StartExec
  <2>2. cur' \in Execs BY <1>1, <2>1, NumExecsAssumption DEF Execs
  <2>3. QED BY <2>2
<1>3. e \in Int /\ \A f \in Execs : f \in Int BY Names
<1>4. Phase[e] = "idle" BY <1>0, <1>1, <1>2, <1>3, PhaseAt
<1>5. \A f \in Execs : /\ f < e => Phase[f] \in {"nil", "error"}
                       /\ f > e => Phase[f] = "idle"
  <2> SUFFICES ASSUME NEW f \in Execs
               PROVE  /\ f < e => Phase[f] \in {"nil", "error"}
                      /\ f > e => Phase[f] = "idle"
    OBVIOUS
  <2>1. f < e => Phase[f] # "idle" /\ Phase[f] # "running"
    BY <1>0, <1>1, <1>2, <1>3, PhaseAt
  <2>2. f > e => Phase[f] = "idle" BY <1>0, <1>1, <1>2, <1>3, PhaseAt
  <2>3. QED BY <1>0, <2>1, <2>2, PhaseAt
<1>6. Phase' = [Phase EXCEPT ![e] = "running"]
  <2>1. \A f \in Execs : NoMessage(f)' <=> NoMessage(f) BY <1>1 DEF NoMessage
  <2>2. \A f \in Execs : f # e => /\ (cur < f)' <=> cur < f
                                  /\ Returned(f)' <=> Returned(f)
    BY <1>1, <1>2, <1>3 DEF Returned
  <2>3. ~(cur < e)' /\ ~Returned(e)' BY <1>1, <1>2, <1>3 DEF Returned
  <2>4. \A f \in Execs : Phase'[f] = IF f = e THEN "running" ELSE Phase[f]
    BY <2>1, <2>2, <2>3 DEF Phase
  <2>5. QED BY <2>4 DEF Phase
<1>7. UNCHANGED <<Over, Bad>> BY <1>1, RoutinesFrame
<1>8. QED BY <1>1, <1>4, <1>5, <1>6, <1>7 DEF Promise!Begin

\* A context that is done before newExecutionState has a parent that is.
LEMMA NewContextMapped ==
  ASSUME CoreInv, NewExecutionState
  PROVE  (\E e \in Execs : Promise!Cancel(e)) \/ UNCHANGED Promise!vars
<1>0. TypeOK /\ TypeCancel /\ TypeHelpers /\ cur \in Execs
  BY CancelTypes, Types DEF CoreInv, IInv, NewExecutionState
<1>1. ctxDone' = [ctxDone EXCEPT ![cur] = parentDone[cur]] /\ callerPc = "starting"
  BY DEF NewExecutionState
<1>2. UNCHANGED <<Over, Bad>> BY RoutinesFrame DEF NewExecutionState
<1>3. UNCHANGED Phase
  <2>1. UNCHANGED <<cur, report>> /\ callerPc' # "idle" /\ callerPc # "idle"
    BY DEF NewExecutionState, countVars
  <2>2. QED BY <2>1 DEF Phase, Returned, NoMessage
<1>4. Phase[cur] # "idle" BY <1>0, PhaseAt, Names
<1>5. CASE parentDone[cur]
  BY <1>0, <1>1, <1>2, <1>3, <1>4, <1>5 DEF Promise!Cancel
<1>6. CASE ~parentDone[cur]
  <2>1. ~ctxDone[cur]
    <3>1. ~Installed(cur) /\ ~Waited(cur)
      BY <1>0, <1>1, Names DEF Installed, Waited
    <3>2. waiter[cur] = "none" BY <1>0, <3>1 DEF CoreInv, IInv, Waits, Helpers
    <3>3. ~\E c \in Subs : ectx[c] = cur /\ res[c] = "fail"
      <4> SUFFICES ASSUME NEW c \in Subs, ectx[c] = cur, res[c] = "fail" PROVE FALSE
        OBVIOUS
      <4>1. c \in Routines /\ rpc[c] # "unborn"
        BY Names DEF CoreInv, IInv, Structure, Bodies, EndPcs
      <4>2. cur # Nil BY <1>0, Names
      <4>3. QED BY <3>1, <4>1, <4>2 DEF CoreInv, CancelInv, Joined
    <3>4. QED BY <1>0, <1>6, <3>2, <3>3 DEF CoreInv, CancelInv, Causes, Caused
  <2>2. UNCHANGED ctxDone BY <1>0, <1>1, <1>6, <2>1 DEF TypeCancel
  <2>3. QED BY <1>2, <1>3, <2>2, PromiseVars
<1>7. QED BY <1>5, <1>6

LEMMA GoMapped ==
  ASSUME IInv, GoMain
  PROVE  UNCHANGED Promise!vars
<1>0. TypeOK /\ TypeRoutines /\ cur \in Execs BY Types DEF IInv, GoMain
<1> USE <1>0, Names DEF TypeRoutines
<1>1. PICK e \in Execs : e = cur BY <1>0
<1>2. /\ rpc[e] = "unborn" /\ rpc'[e] = "run" /\ home[e] = e
      /\ UNCHANGED <<home, ectx, res>>
      /\ \A x \in Routines \ {e} : rpc'[x] = rpc[x]
  BY <1>1 DEF GoMain, IInv, Structure, Mains, Started
<1>3. \A f \in Execs : (rpc[f] # "unborn" /\ CodeOver(f))' <=> (rpc[f] # "unborn" /\ CodeOver(f))
  <2>1. \A f \in Execs \ {e} : CodeOver(f)' <=> CodeOver(f) BY <1>2 DEF CodeOver
  <2>2. ~CodeOver(e)' BY <1>2 DEF CodeOver
  <2>3. QED BY <1>2, <2>1, <2>2
<1>4. UNCHANGED Over
  <2>1. \A f \in Execs : (rpc[f] # "unborn" /\ CodeOver(f))' = (rpc[f] # "unborn" /\ CodeOver(f))
    BY <1>3
  <2>2. QED BY <2>1 DEF Over
<1>5. \A f \in Execs : Failed(f)' <=> Failed(f) BY <1>2 DEF Failed
<1>6. UNCHANGED <<cur, report, ctxDone>> /\ callerPc' # "idle" /\ callerPc # "idle"
  BY DEF GoMain, cancelVars
<1>7. UNCHANGED Phase BY <1>6 DEF Phase, Returned, NoMessage
<1>8. QED BY <1>4, <1>5, <1>6, <1>7, BadFrame, PromiseVars

\* Steps of a call that goes on.
LEMMA CallMapped ==
  ASSUME IInv, SetExecState \/ WaitRoutines \/ ResetExecState \/ ReportMain
  PROVE  UNCHANGED Promise!vars
<1>0. TypeOK /\ cur \in Execs
  BY Types DEF IInv, SetExecState, WaitRoutines, ResetExecState, ReportMain
<1>1. /\ UNCHANGED <<cur, ctxDone, routineVars>> /\ callerPc' # "idle" /\ callerPc # "idle"
      /\ \A f \in Execs : f # cur => report'[f] = report[f]
  <2>1. report \in [Execs -> [main : {"unset", "silent", "failed", "canceled", "hanging"},
                              sub : Counters]]
    BY <1>0 DEF TypeOK, TypeCounts
  <2>2. QED BY <1>0, <2>1 DEF SetExecState, WaitRoutines, ResetExecState, ReportMain, cancelVars,
                        countVars
<1>2. UNCHANGED Phase
  <2>1. \A f \in Execs : f # cur => (NoMessage(f)' <=> NoMessage(f)) BY <1>1 DEF NoMessage
  <2>2. \A f \in Execs : Returned(f)' <=> Returned(f) BY <1>1 DEF Returned
  <2>3. ~Returned(cur) BY <1>1, <1>0, Names DEF Returned
  <2>4. \A f \in Execs : Phase'[f] = Phase[f] BY <1>1, <2>1, <2>2, <2>3 DEF Phase
  <2>5. QED BY <2>4 DEF Phase
<1>3. QED BY <1>1, <1>2, RoutinesFrame, PromiseVars

LEMMA ReturnMapped ==
  ASSUME IInv, IInv', ReportSub
  PROVE  Promise!Return(cur)
<1>0. /\ TypeOK /\ cur \in Execs /\ callerPc = "reportSub" /\ callerPc' = "idle"
      /\ UNCHANGED <<cur, ctxDone, routineVars>>
      /\ \A f \in Execs : f # cur => report'[f] = report[f]
  <2>1. TypeOK /\ cur \in Execs BY Types DEF IInv, ReportSub
  <2>2. report \in [Execs -> [main : {"unset", "silent", "failed", "canceled", "hanging"},
                              sub : Counters]]
    BY <2>1 DEF TypeOK, TypeCounts
  <2>3. QED BY <2>1, <2>2 DEF ReportSub, cancelVars
<1>1. Phase[cur] = "running" BY <1>0, PhaseAt
<1>2. Over[cur] \/ ctxDone[cur]
  <2>1. PastReset(cur) /\ Started(cur) BY <1>0 DEF PastReset, Started
  <2>2. rpc[cur] # "unborn" BY <1>0, <2>1 DEF IInv, Structure, Mains
  <2>3. timer[cur] = "exit" \/ CodeOver(cur)
    BY <1>0, <2>1 DEF IInv, Waits, Helpers, Released
  <2>4. timer[cur] = "exit" => ctxDone[cur] BY <1>0 DEF IInv, Waits, Helpers
  <2>5. QED BY <1>0, <2>2, <2>3, <2>4, OverAt
<1>3. \A f \in Execs : f # cur => Phase'[f] = Phase[f]
  <2>1. \A f \in Execs : f # cur => (NoMessage(f)' <=> NoMessage(f)) BY <1>0 DEF NoMessage
  <2>2. \A f \in Execs : f # cur => (Returned(f)' <=> Returned(f)) BY <1>0 DEF Returned
  <2>3. QED BY <1>0, <2>1, <2>2 DEF Phase
<1>4. Returned(cur)' /\ ~(cur < cur)' BY <1>0, Names DEF Returned
<1>5. CASE ~NoMessage(cur)'
  <2>1. Phase'[cur] = "error" BY <1>0, <1>4, <1>5 DEF Phase
  <2>2. Phase' = [Phase EXCEPT ![cur] = "error"] BY <1>0, <1>3, <2>1 DEF Phase
  <2>3. QED BY <1>0, <1>1, <1>2, <2>2, RoutinesFrame DEF Promise!Return
<1>6. CASE NoMessage(cur)'
  <2>1. Phase'[cur] = "nil" BY <1>0, <1>4, <1>6 DEF Phase
  <2>2. Phase' = [Phase EXCEPT ![cur] = "nil"] BY <1>0, <1>3, <2>1 DEF Phase
  <2>3. ~Failed(cur)
    <3>1. \A r \in Routines : home'[r] = cur' /\ ectx'[r] = cur' => EndedWell(r)'
      BY <1>0, <1>4, <1>6 DEF IInv, Reports, Returned, NoMessage
    <3>2. QED BY <1>0, <3>1 DEF EndedWell, Failed, routineVars
  <2>4. ~Bad[cur] BY <1>0, <2>3 DEF Bad
  <2>5. QED BY <1>0, <1>1, <1>2, <2>2, <2>4, RoutinesFrame DEF Promise!Return
<1>7. QED BY <1>5, <1>6

\* An execution is cancelled only once it has been started.
LEMMA HelperMapped ==
  ASSUME CoreInv, HelperMoves
  PROVE  (\E e \in Execs : Promise!Cancel(e)) \/ UNCHANGED Promise!vars
<1>0. /\ TypeOK /\ TypeCancel
      /\ UNCHANGED <<pos, report, routineVars>>
  BY CancelTypes, HelperMovesKeep DEF CoreInv, IInv, countVars
<1>1. UNCHANGED <<Phase, Over, Bad>> BY <1>0, PhaseFrame, RoutinesFrame
<1>2. ASSUME NEW e \in Execs, Created(e) PROVE Phase[e] # "idle"
  BY <1>0, <1>2, PhaseAt, Names, Types DEF Created
<1>3. ASSUME NEW e \in Execs, ParentCancelled(e)
      PROVE  Promise!Cancel(e) \/ UNCHANGED ctxDone
  <2>1. ctxDone' = [ctxDone EXCEPT ![e] = @ \/ Created(e)] BY <1>3 DEF ParentCancelled
  <2>2. CASE Created(e)
    <3>1. ctxDone' = [ctxDone EXCEPT ![e] = TRUE] BY <2>1, <2>2
    <3>2. QED BY <1>1, <1>2, <2>2, <3>1 DEF Promise!Cancel
  <2>3. CASE ~Created(e) BY <1>0, <2>1, <2>3 DEF TypeCancel
  <2>4. QED BY <2>2, <2>3
<1>4. ASSUME NEW e \in Execs, CancelCtx(e) PROVE Promise!Cancel(e)
  <2>1. Created(e) BY <1>4 DEF CancelCtx, CoreInv, CancelInv, Begun
  <2>2. QED BY <1>1, <1>2, <1>4, <2>1 DEF CancelCtx, Promise!Cancel
<1>5. \/ UNCHANGED ctxDone \/ \E e \in Execs : ParentCancelled(e) \/ CancelCtx(e)
  BY DEF HelperMoves, WatcherFires, CancelCheckCurrent, CancelStore, WaiterStarts,
         WaiterWakes, WaiterCancels, TimerStarts, TimerFires, cancelVars
<1>6. QED BY <1>1, <1>3, <1>4, <1>5, PromiseVars

LEMMA PromiseNext == CoreInv /\ CoreInv' /\ [Next]_vars => [Promise!Next]_(Promise!vars)
<1> SUFFICES ASSUME CoreInv, CoreInv', [Next]_vars
             PROVE  Promise!Next \/ UNCHANGED Promise!vars
  OBVIOUS
<1>0. IInv /\ IInv' /\ Half /\ TypeOK BY DEF CoreInv, IInv, Half, Waits
<1>1. CASE RoutineMoves
  <2>1. UNCHANGED <<Phase, ctxDone>>
    <3>1. UNCHANGED <<ctxDone, report>>
      BY <1>1 DEF RoutineMoves, Spawn, Finish, PollFlag, PollStep, PollState, PollContext,
                  RecordResult, WgDone, GoroutineCancels, InitAdd, InitCount, cancelVars,
                  countVars
    <3>2. QED BY <1>1, <3>1, RoutineMovesKeep, PhaseFrame
  <2>2. ASSUME NEW r \in Routines, RecordResult(r)
        PROVE  Promise!Next \/ UNCHANGED <<Over, Bad>>
    BY <1>0, <2>1, <2>2, RecordMapped DEF Promise!Next
  <2>3. ASSUME NEW r \in Routines, WgDone(r)
        PROVE  Promise!Next \/ UNCHANGED <<Over, Bad>>
    BY <1>0, <2>1, <2>3, DoneMapped DEF Promise!Next
  <2>4. Promise!Next \/ UNCHANGED <<Over, Bad>>
    BY <1>0, <1>1, <2>2, <2>3, SpawnMapped, InitMapped, BodyMapped, CancelsMapped
    DEF RoutineMoves
  <2>5. QED BY <2>1, <2>4, PromiseVars
<1>2. CASE HelperMoves BY <1>2, HelperMapped DEF Promise!Next
<1>3. CASE StartExec BY <1>0, <1>3, StartMapped DEF Promise!Next
<1>4. CASE NewExecutionState BY <1>4, NewContextMapped DEF Promise!Next
<1>5. CASE GoMain BY <1>0, <1>5, GoMapped
<1>6. CASE SetExecState \/ WaitRoutines \/ ResetExecState \/ ReportMain
  BY <1>0, <1>6, CallMapped
<1>7. CASE ReportSub
  <2>1. cur \in Execs BY <1>0, <1>7, Types DEF ReportSub
  <2>2. QED BY <1>0, <1>7, <2>1, ReturnMapped DEF Promise!Next
<1>8. CASE UNCHANGED vars
  <2>1. UNCHANGED <<pos, report, routineVars, ctxDone>>
    BY <1>8 DEF vars, pos, ctlVars, countVars, cancelVars
  <2>2. QED BY <2>1, PhaseFrame, RoutinesFrame, PromiseVars
<1>9. QED BY <1>1, <1>2, <1>3, <1>4, <1>5, <1>6, <1>7, <1>8, Moves DEF CallerMoves, CallerStep

\* Every step of the execution manager is a step of ExecPromise or changes
\* nothing the caller of ExecLgoEntryPoint can see (ImplementsPromise).
THEOREM KeepsPromise == Spec => ImplementsPromise
<1>1. CoreInv /\ CoreInv' /\ [Next]_vars => [Promise!Next]_(Promise!vars)
  BY PromiseNext
<1>2. QED BY <1>1, PromiseInit, CoreInvariance, PTL DEF Spec, ImplementsPromise, Promise!Spec
=============================================================================
