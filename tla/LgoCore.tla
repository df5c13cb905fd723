------------------------------ MODULE LgoCore ------------------------------
(***************************************************************************)
(* The execution manager of core/core.go: what happens between a call of   *)
(* ExecLgoEntryPoint and its return, and what the goroutines of an lgo     *)
(* code block (its routines) go on doing after that return.                *)
(*                                                                         *)
(* Executions are numbered 1, 2, ... in the order ExecLgoEntryPoint is     *)
(* called: the runner calls it from one goroutine only.  The main routine  *)
(* of execution e is named e itself; Subs names the goroutines that lgo    *)
(* code starts with a go statement.  Every lock region and every atomic    *)
(* access of the source is a step of its own; what follows one without     *)
(* reading or writing shared state is part of its step.                    *)
(***************************************************************************)
EXTENDS Integers, FiniteSets

CONSTANTS
  NumExecs,      \* bound: how many executions are started
  Subs,          \* bound: the goroutines that lgo code may start
  UintMax,       \* the largest value of a Go uint (resultCounter.active)
  Interrupted,   \* bound: the executions whose parent context may be done
  Outcomes,      \* bound: how bodies may end by themselves: "ok", "fail"
  EarlyCancel    \* may a parent context be done before setExecState?

ASSUME NumExecsAssumption == NumExecs \in Nat \ {0}
ASSUME SubsAssumption     == IsFiniteSet(Subs) /\ Subs \cap Int = {}
ASSUME UintMaxAssumption  == UintMax \in Nat /\ UintMax > 1
ASSUME BoundsAssumption   == Interrupted \subseteq Int /\ Outcomes \subseteq {"ok", "fail"}
ASSUME FlagsAssumption    == EarlyCancel \in BOOLEAN

Execs    == 1 .. NumExecs
Routines == Execs \cup Subs
Nil      == 0             \* the nil *ExecutionState

VARIABLES
  isRunning,    \* the atomic flag read by ExitIfCtxDone
  execState,    \* the current *ExecutionState, or Nil
  callerPc,     \* the goroutine that calls ExecLgoEntryPoint
  cur,          \* the execution it is working on (0 before the first)
  parentDone,   \* parentDone[e]: the parent context of e is done
  ctxDone,      \* ctxDone[e]: e.Context is done
  cancelPc,     \* cancelPc[e]: how far the one effective e.cancel() got
  watcher,      \* the goroutine of newExecutionState that awaits the parent
  waiter,       \* the goroutine of waitRoutines that awaits routineWait
  timer,        \* the goroutine of waitRoutines that awaits e.Context
  waitDone,     \* waitDone[e]: the local context of waitRoutines is done
  wg,           \* wg[e]: the counter of e.routineWait
  mainCounter,  \* mainCounter[e]: a resultCounter
  subCounter,   \* subCounter[e]: a resultCounter
  report,       \* report[e]: what counterMessage collected
  rpc,          \* rpc[r]: where routine r is
  ectx,         \* ectx[r]: the state InitGoroutine returned for r
  spawner,      \* spawner[r]: the routine that started r
  polled,       \* polled[r]: the state GetExecContext read for r's poll
  res,          \* res[r]: how the body of r ended
  home,         \* history: home[r], the execution whose code r belongs to
  crashed       \* the process died in a run-time panic, and of which

ctlVars     == <<isRunning, execState, callerPc, cur>>
cancelVars  == <<parentDone, ctxDone, cancelPc>>
helperVars  == <<watcher, waiter, timer, waitDone>>
countVars   == <<wg, mainCounter, subCounter, report>>
routineVars == <<rpc, ectx, spawner, polled, res, home>>
vars == <<ctlVars, cancelVars, helperVars, countVars, routineVars, crashed>>

-----------------------------------------------------------------------------
(* resultCounter *)

NewCounter == [active |-> 0, fail |-> 0, cancel |-> 0]

Inc(c) == [c EXCEPT !.active = @ + 1]

\* active is a uint: decrementing 0 wraps, so the panic under c.active < 0
\* can never be reached.
Dec(n) == IF n = 0 THEN UintMax ELSE n - 1

RecordIn(c, v) == [active |-> Dec(c.active),
                   fail   |-> c.fail   + (IF v = "fail"    THEN 1 ELSE 0),
                   cancel |-> c.cancel + (IF v = "bailout" THEN 1 ELSE 0)]

\* Mutant: a main routine that was thrown out is not mentioned.
MainMsgForgets(c) == IF c.fail > 0 THEN "failed"
                     ELSE IF c.active > 0 THEN "hanging" ELSE "silent"

\* The first half of counterMessage: what it says of the main routine.
MainMsg(c) == IF c.fail > 0 THEN "failed"
              ELSE IF c.cancel > 0 THEN "canceled"
              ELSE IF c.active > 0 THEN "hanging"
              ELSE "silent"

NoReport == [main |-> "unset", sub |-> NewCounter]

-----------------------------------------------------------------------------
Init ==
  /\ isRunning = 0 /\ execState = Nil /\ callerPc = "idle" /\ cur = 0
  /\ parentDone  = [e \in Execs |-> FALSE]
  /\ ctxDone     = [e \in Execs |-> FALSE]
  /\ cancelPc    = [e \in Execs |-> "none"]
  /\ watcher     = [e \in Execs |-> "none"]
  /\ waiter      = [e \in Execs |-> "none"]
  /\ timer       = [e \in Execs |-> "none"]
  /\ waitDone    = [e \in Execs |-> FALSE]
  /\ wg          = [e \in Execs |-> 0]
  /\ mainCounter = [e \in Execs |-> NewCounter]
  /\ subCounter  = [e \in Execs |-> NewCounter]
  /\ report      = [e \in Execs |-> NoReport]
  /\ rpc         = [r \in Routines |-> "unborn"]
  /\ ectx        = [r \in Routines |-> IF r \in Execs THEN r ELSE Nil]
  /\ spawner     = [r \in Routines |-> r]
  /\ polled      = [r \in Routines |-> Nil]
  /\ res         = [r \in Routines |-> "none"]
  /\ home        = [r \in Routines |-> IF r \in Execs THEN r ELSE Nil]
  /\ crashed     = "no"

Alive == crashed = "no"

-----------------------------------------------------------------------------
(* e.cancel(): the first caller wins under cancelMu, every other call      *)
(* returns at once.  Nothing follows the call in any of its callers, so    *)
(* the rest of the winning call is the little process cancelPc[e].         *)

CallCancel(e) ==
  cancelPc' = IF cancelPc[e] = "none" THEN [cancelPc EXCEPT ![e] = "check"]
                                      ELSE cancelPc

\* Mutant: the comparison is inverted.
CancelCheckInverted(e) ==
  /\ Alive /\ cancelPc[e] = "check"
  /\ cancelPc' = [cancelPc EXCEPT ![e] = IF execState # e THEN "store" ELSE "ctx"]
  /\ UNCHANGED <<ctlVars, parentDone, ctxDone, helperVars, countVars,
                 routineVars, crashed>>

CancelCheckCurrent(e) ==          \* if getExecState() == e
  /\ Alive /\ cancelPc[e] = "check"
  /\ cancelPc' = [cancelPc EXCEPT ![e] = IF execState = e THEN "store" ELSE "ctx"]
  /\ UNCHANGED <<ctlVars, parentDone, ctxDone, helperVars, countVars,
                 routineVars, crashed>>

CancelStore(e) ==                 \* atomic.StoreUint32(&isRunning, 0)
  /\ Alive /\ cancelPc[e] = "store"
  /\ isRunning' = 0
  /\ cancelPc' = [cancelPc EXCEPT ![e] = "ctx"]
  /\ UNCHANGED <<execState, callerPc, cur, parentDone, ctxDone, helperVars,
                 countVars, routineVars, crashed>>

CancelCtx(e) ==                   \* e.cancelCtx()
  /\ Alive /\ cancelPc[e] = "ctx"
  /\ ctxDone'  = [ctxDone EXCEPT ![e] = TRUE]
  /\ cancelPc' = [cancelPc EXCEPT ![e] = "done"]
  /\ UNCHANGED <<ctlVars, parentDone, helperVars, countVars, routineVars,
                 crashed>>

-----------------------------------------------------------------------------
(* The parent context.  It is done when the frontend interrupts the        *)
(* request, and at the latest when the handler of the request returns.     *)

Created(e)   == e < cur \/ (e = cur /\ callerPc # "starting")
Installed(e) == e < cur \/ (e = cur /\ callerPc \notin {"starting", "created"})

ParentCancelled(e) ==
  /\ Alive /\ e \in Interrupted /\ ~parentDone[e]
  /\ EarlyCancel \/ Installed(e)
  /\ parentDone' = [parentDone EXCEPT ![e] = TRUE]
  /\ ctxDone' = [ctxDone EXCEPT ![e] = @ \/ Created(e)]
  /\ UNCHANGED <<ctlVars, cancelPc, helperVars, countVars, routineVars, crashed>>

WatcherFires(e) ==                \* <-parent.Done(); e.cancel()
  /\ Alive /\ watcher[e] = "wait" /\ parentDone[e]
  /\ watcher' = [watcher EXCEPT ![e] = "exit"]
  /\ CallCancel(e)
  /\ UNCHANGED <<ctlVars, parentDone, ctxDone, waiter, timer, waitDone,
                 countVars, routineVars, crashed>>

-----------------------------------------------------------------------------
(* ExecLgoEntryPoint = finalizeExec(startExec(...)), by its one caller.    *)

StartExec ==                      \* atomic.StoreUint32(&isRunning, 1)
  /\ Alive /\ callerPc = "idle" /\ cur < NumExecs
  /\ isRunning' = 1
  /\ cur' = cur + 1
  /\ callerPc' = "starting"
  /\ UNCHANGED <<execState, cancelVars, helperVars, countVars, routineVars,
                 crashed>>

NewExecutionState ==              \* a context derived from a done one is done
  /\ Alive /\ callerPc = "starting"
  /\ ctxDone' = [ctxDone EXCEPT ![cur] = parentDone[cur]]
  /\ watcher' = [watcher EXCEPT ![cur] = "wait"]
  /\ callerPc' = "created"
  /\ UNCHANGED <<isRunning, execState, cur, parentDone, cancelPc, waiter,
                 timer, waitDone, countVars, routineVars, crashed>>

SetExecState ==
  /\ Alive /\ callerPc = "created"
  /\ execState' = cur
  /\ callerPc' = "installed"
  /\ UNCHANGED <<isRunning, cur, cancelVars, helperVars, countVars,
                 routineVars, crashed>>

GoMain ==                         \* routineWait.Add(1), mainCounter.add(), go
  /\ Alive /\ callerPc = "installed"
  /\ wg' = [wg EXCEPT ![cur] = @ + 1]
  /\ mainCounter' = [mainCounter EXCEPT ![cur] = Inc(@)]
  /\ rpc' = [rpc EXCEPT ![cur] = "run"]
  /\ callerPc' = "started"
  /\ UNCHANGED <<isRunning, execState, cur, cancelVars, helperVars, subCounter,
                 report, ectx, spawner, polled, res, home, crashed>>

WaitRoutines ==                   \* start both helpers, then block
  /\ Alive /\ callerPc = "started"
  /\ waiter' = [waiter EXCEPT ![cur] = "start"]
  /\ timer'  = [timer EXCEPT ![cur] = "wait"]
  /\ callerPc' = "waiting"
  /\ UNCHANGED <<isRunning, execState, cur, cancelVars, watcher, waitDone,
                 countVars, routineVars, crashed>>

\* Mutant: the state stays behind.
ResetNothing ==
  /\ Alive /\ callerPc = "waiting" /\ waitDone[cur]
  /\ callerPc' = "report"
  /\ UNCHANGED <<isRunning, execState, cur, cancelVars, helperVars, countVars,
                 routineVars, crashed>>

ResetExecState ==                 \* <-ctx.Done(); resetExecState(e)
  /\ Alive /\ callerPc = "waiting" /\ waitDone[cur]
  /\ execState' = IF execState = cur THEN Nil ELSE execState
  /\ callerPc' = "report"
  /\ UNCHANGED <<isRunning, cur, cancelVars, helperVars, countVars,
                 routineVars, crashed>>

ReportMain ==                     \* counterMessage, under mainCounter.mu
  /\ Alive /\ callerPc = "report"
  /\ report' = [report EXCEPT ![cur].main = MainMsg(mainCounter[cur])]
  /\ callerPc' = "reportSub"
  /\ UNCHANGED <<isRunning, execState, cur, cancelVars, helperVars, wg,
                 mainCounter, subCounter, routineVars, crashed>>

ReportSub ==                      \* under subCounter.mu; then return
  /\ Alive /\ callerPc = "reportSub"
  /\ report' = [report EXCEPT ![cur].sub = subCounter[cur]]
  /\ callerPc' = "idle"
  /\ UNCHANGED <<isRunning, execState, cur, cancelVars, helperVars, wg,
                 mainCounter, subCounter, routineVars, crashed>>

CallerStep == \/ NewExecutionState \/ SetExecState \/ GoMain \/ WaitRoutines
              \/ ResetExecState \/ ReportMain \/ ReportSub

-----------------------------------------------------------------------------
(* The two goroutines of waitRoutines.                                     *)

\* Mutant: done() does not wait for the routines.
WaiterRushes(e) ==
  /\ Alive /\ waiter[e] = "start"
  /\ waiter'   = [waiter EXCEPT ![e] = "cancel"]
  /\ waitDone' = [waitDone EXCEPT ![e] = TRUE]
  /\ UNCHANGED <<ctlVars, cancelVars, watcher, timer, countVars, routineVars,
                 crashed>>

\* routineWait.Wait() returns at once when the counter is 0 and blocks
\* otherwise; done() follows it.
WaiterStarts(e) ==
  /\ Alive /\ waiter[e] = "start"
  /\ IF wg[e] = 0
     THEN /\ waiter'   = [waiter EXCEPT ![e] = "cancel"]
          /\ waitDone' = [waitDone EXCEPT ![e] = TRUE]
     ELSE /\ waiter'   = [waiter EXCEPT ![e] = "blocked"]
          /\ UNCHANGED waitDone
  /\ UNCHANGED <<ctlVars, cancelVars, watcher, timer, countVars, routineVars,
                 crashed>>

\* A Wait that was woken up panics when the counter is no longer 0
\* (sync: WaitGroup is reused before previous Wait has returned).
WaiterWakes(e) ==
  /\ Alive /\ waiter[e] = "woken"
  /\ IF wg[e] = 0
     THEN /\ waiter'   = [waiter EXCEPT ![e] = "cancel"]
          /\ waitDone' = [waitDone EXCEPT ![e] = TRUE]
          /\ UNCHANGED crashed
     ELSE /\ crashed' = "WaitGroup reused"
          /\ UNCHANGED <<waiter, waitDone>>
  /\ UNCHANGED <<ctlVars, cancelVars, watcher, timer, countVars, routineVars>>

\* Mutant: the context is forgotten.
WaiterForgets(e) ==
  /\ Alive /\ waiter[e] = "cancel"
  /\ waiter' = [waiter EXCEPT ![e] = "exit"]
  /\ UNCHANGED <<ctlVars, cancelVars, watcher, timer, waitDone, countVars,
                 routineVars, crashed>>

WaiterCancels(e) ==               \* e.cancel(), to avoid a context leak
  /\ Alive /\ waiter[e] = "cancel"
  /\ waiter' = [waiter EXCEPT ![e] = "exit"]
  /\ CallCancel(e)
  /\ UNCHANGED <<ctlVars, parentDone, ctxDone, watcher, timer, waitDone,
                 countVars, routineVars, crashed>>

TimerStarts(e) ==                 \* <-e.Context.Done()
  /\ Alive /\ timer[e] = "wait" /\ ctxDone[e]
  /\ timer' = [timer EXCEPT ![e] = "sleep"]
  /\ UNCHANGED <<ctlVars, cancelVars, watcher, waiter, waitDone, countVars,
                 routineVars, crashed>>

\* Mutant: done() is missing.
TimerOnlySleeps(e) ==
  /\ Alive /\ timer[e] = "sleep"
  /\ timer' = [timer EXCEPT ![e] = "exit"]
  /\ UNCHANGED <<ctlVars, cancelVars, watcher, waiter, waitDone, countVars,
                 routineVars, crashed>>

TimerFires(e) ==                  \* time.Sleep(execWaitDuration); done()
  /\ Alive /\ timer[e] = "sleep"
  /\ timer'    = [timer EXCEPT ![e] = "exit"]
  /\ waitDone' = [waitDone EXCEPT ![e] = TRUE]
  /\ UNCHANGED <<ctlVars, cancelVars, watcher, waiter, countVars, routineVars,
                 crashed>>

-----------------------------------------------------------------------------
(* Routines.  A go statement is converted to                               *)
(*   ectx := core.InitGoroutine()                                          *)
(*   go func() { defer core.FinalizeGoroutine(ectx); ... }()               *)

\* InitGoroutine reads the current execution, whichever that is by now.
Spawn(r, c) ==
  /\ Alive /\ rpc[r] = "run" /\ rpc[c] = "unborn"
  /\ home' = [home EXCEPT ![c] = home[r]]
  /\ ectx' = [ectx EXCEPT ![c] = execState]
  /\ spawner' = [spawner EXCEPT ![c] = r]
  /\ rpc' = IF execState = Nil
            THEN [rpc EXCEPT ![c] = "run"]
            ELSE [rpc EXCEPT ![c] = "init", ![r] = "spawn"]
  /\ UNCHANGED <<ctlVars, cancelVars, helperVars, countVars, polled, res, crashed>>

InitAdd(c) ==                     \* e.routineWait.Add(1)
  /\ Alive /\ rpc[c] = "init"
  /\ wg' = [wg EXCEPT ![ectx[c]] = @ + 1]
  /\ rpc' = [rpc EXCEPT ![c] = "reg"]
  /\ UNCHANGED <<ctlVars, cancelVars, helperVars, mainCounter, subCounter,
                 report, ectx, spawner, polled, res, home, crashed>>

\* Mutant: subCounter.add() is missing.
InitCountNothing(c) ==
  /\ Alive /\ rpc[c] = "reg"
  /\ rpc' = [rpc EXCEPT ![c] = "run", ![spawner[c]] = "run"]
  /\ UNCHANGED <<ctlVars, cancelVars, helperVars, countVars,
                 ectx, spawner, polled, res, home, crashed>>

InitCount(c) ==                   \* e.subCounter.add(); the go statement
  /\ Alive /\ rpc[c] = "reg"
  /\ subCounter' = [subCounter EXCEPT ![ectx[c]] = Inc(@)]
  /\ rpc' = [rpc EXCEPT ![c] = "run", ![spawner[c]] = "run"]
  /\ UNCHANGED <<ctlVars, cancelVars, helperVars, wg, mainCounter, report,
                 ectx, spawner, polled, res, home, crashed>>

\* The body returns or panics.
Finish(r, v) ==
  /\ Alive /\ rpc[r] = "run"
  /\ rpc' = [rpc EXCEPT ![r] = "ended"]
  /\ res' = [res EXCEPT ![r] = v]
  /\ UNCHANGED <<ctlVars, cancelVars, helperVars, countVars, ectx, spawner,
                 polled, home, crashed>>

\* ExitIfCtxDone: while isRunning is 1 it changes nothing.
PollFlag(r) ==
  /\ Alive /\ rpc[r] = "run" /\ isRunning # 1
  /\ rpc' = [rpc EXCEPT ![r] = "poll"]
  /\ UNCHANGED <<ctlVars, cancelVars, helperVars, countVars, ectx, spawner,
                 polled, res, home, crashed>>

PollState(r) ==                   \* GetExecContext()
  /\ Alive /\ rpc[r] = "poll"
  /\ rpc' = [rpc EXCEPT ![r] = "select"]
  /\ polled' = [polled EXCEPT ![r] = execState]
  /\ UNCHANGED <<ctlVars, cancelVars, helperVars, countVars, ectx, spawner,
                 res, home, crashed>>

\* Mutant: the flag alone decides.
PolledDoneAlways(r) == TRUE

\* canceledCtx stands in for the context of the nil state.
PolledDone(r) == polled[r] = Nil \/ ctxDone[polled[r]]

PollContext(r) ==                 \* case <-...Done(): panic(Bailout)
  /\ Alive /\ rpc[r] = "select"
  /\ IF PolledDone(r)
     THEN /\ rpc' = [rpc EXCEPT ![r] = "ended"]
          /\ res' = [res EXCEPT ![r] = "bailout"]
     ELSE /\ rpc' = [rpc EXCEPT ![r] = "run"]
          /\ UNCHANGED res
  /\ polled' = [polled EXCEPT ![r] = Nil]
  /\ UNCHANGED <<ctlVars, cancelVars, helperVars, countVars, ectx, spawner,
                 home, crashed>>

\* recordResultInDefer of a main routine, FinalizeGoroutine of a goroutine;
\* the latter dereferences the nil state it may have been given.
RecordResult(r) ==
  /\ Alive /\ rpc[r] = "ended"
  /\ IF ectx[r] = Nil
     THEN /\ crashed' = "nil ExecutionState"
          /\ UNCHANGED <<rpc, mainCounter, subCounter>>
     ELSE /\ rpc' = [rpc EXCEPT ![r] = "recorded"]
          /\ IF r \in Execs
             THEN /\ mainCounter' = [mainCounter EXCEPT ![r] = RecordIn(@, res[r])]
                  /\ UNCHANGED subCounter
             ELSE /\ subCounter' = [subCounter EXCEPT ![ectx[r]] = RecordIn(@, res[r])]
                  /\ UNCHANGED mainCounter
          /\ UNCHANGED crashed
  /\ UNCHANGED <<ctlVars, cancelVars, helperVars, wg, report, ectx, spawner,
                 polled, res, home>>

\* Mutant: cancel() is called whatever recover() returned.
WgDoneCancels(r) ==
  LET e == ectx[r] IN
  /\ Alive /\ rpc[r] = "recorded" /\ wg[e] > 0
  /\ wg' = [wg EXCEPT ![e] = @ - 1]
  /\ waiter' = IF wg[e] = 1 /\ waiter[e] = "blocked"
               THEN [waiter EXCEPT ![e] = "woken"] ELSE waiter
  /\ rpc' = [rpc EXCEPT ![r] = IF r \in Subs THEN "cancel" ELSE "exit"]
  /\ UNCHANGED <<ctlVars, cancelVars, watcher, timer, waitDone, mainCounter,
                 subCounter, report, ectx, spawner, polled, res, home, crashed>>

\* routineWait.Done(): at 0 it wakes the waiter, below 0 it panics.
\* A goroutine that panicked goes on to cancel its execution.
WgDone(r) ==
  LET e == ectx[r] IN
  /\ Alive /\ rpc[r] = "recorded"
  /\ IF wg[e] = 0
     THEN /\ crashed' = "negative WaitGroup"
          /\ UNCHANGED <<wg, waiter, rpc>>
     ELSE /\ wg' = [wg EXCEPT ![e] = @ - 1]
          /\ waiter' = IF wg[e] = 1 /\ waiter[e] = "blocked"
                       THEN [waiter EXCEPT ![e] = "woken"] ELSE waiter
          /\ rpc' = [rpc EXCEPT ![r] = IF r \in Subs /\ res[r] # "ok"
                                       THEN "cancel" ELSE "exit"]
          /\ UNCHANGED crashed
  /\ UNCHANGED <<ctlVars, cancelVars, watcher, timer, waitDone, mainCounter,
                 subCounter, report, ectx, spawner, polled, res, home>>

GoroutineCancels(r) ==
  /\ Alive /\ rpc[r] = "cancel"
  /\ rpc' = [rpc EXCEPT ![r] = "exit"]
  /\ CallCancel(ectx[r])
  /\ UNCHANGED <<ctlVars, parentDone, ctxDone, helperVars, countVars, ectx,
                 spawner, polled, res, home, crashed>>

-----------------------------------------------------------------------------
CancelStep(e)  == CancelCheckCurrent(e) \/ CancelStore(e) \/ CancelCtx(e)
WaiterStep(e)  == WaiterStarts(e) \/ WaiterWakes(e) \/ WaiterCancels(e)
TimerStep(e)   == TimerStarts(e) \/ TimerFires(e)
RuntimeStep(r) == RecordResult(r) \/ WgDone(r) \/ GoroutineCancels(r)
PollStep(r)    == PollState(r) \/ PollContext(r)
InitStep(c)    == InitAdd(c) \/ InitCount(c)
BodyStep(r)    == \/ \E c \in Subs : Spawn(r, c)
                  \/ \E v \in Outcomes : Finish(r, v)
                  \/ PollFlag(r)

Next ==
  \/ StartExec \/ CallerStep
  \/ \E e \in Execs : \/ ParentCancelled(e) \/ WatcherFires(e)
                      \/ CancelStep(e) \/ WaiterStep(e) \/ TimerStep(e)
  \/ \E r \in Routines : BodyStep(r) \/ PollStep(r) \/ RuntimeStep(r)
  \/ \E c \in Subs : InitStep(c)

Spec == Init /\ [][Next]_vars

\* The Go scheduler runs every goroutine that can run.  Nothing is assumed of
\* lgo code (it may hang) nor of the environment.  A step of ManagerStep stays
\* possible until it is taken and is taken once per execution or goroutine, so
\* fairness for all of them together is fairness for each.
ManagerStep ==
  \/ CallerStep
  \/ \E e \in Execs : WatcherFires(e) \/ CancelStep(e) \/ WaiterStep(e) \/ TimerStep(e)
  \/ \E r \in Routines : RuntimeStep(r)
  \/ \E c \in Subs : InitStep(c)

Fairness == WF_vars(ManagerStep) /\ \A r \in Routines : WF_vars(PollStep(r))

FairSpec == Spec /\ Fairness
-----------------------------------------------------------------------------
(* Properties *)

States     == {"none", "wait", "start", "blocked", "woken", "sleep", "cancel", "exit"}
Counters   == [active : Nat, fail : Nat, cancel : Nat]
RoutinePcs == {"unborn", "init", "reg", "run", "spawn", "poll", "select",
               "ended", "recorded", "cancel", "exit"}

TypeCtl ==
  /\ isRunning \in {0, 1}
  /\ execState \in Execs \cup {Nil}
  /\ cur \in 0 .. NumExecs
  /\ callerPc \in {"idle", "starting", "created", "installed", "started",
                   "waiting", "report", "reportSub"}
  /\ callerPc # "idle" => cur \in Execs
TypeCancel ==
  /\ parentDone \in [Execs -> BOOLEAN]
  /\ ctxDone \in [Execs -> BOOLEAN]
  /\ cancelPc \in [Execs -> {"none", "check", "store", "ctx", "done"}]
TypeHelpers ==
  /\ watcher \in [Execs -> States]
  /\ waiter \in [Execs -> States]
  /\ timer \in [Execs -> States]
  /\ waitDone \in [Execs -> BOOLEAN]
TypeCounts ==
  /\ wg \in [Execs -> Nat]
  /\ mainCounter \in [Execs -> Counters]
  /\ subCounter \in [Execs -> Counters]
  /\ report \in [Execs -> [main : {"unset", "silent", "failed", "canceled", "hanging"},
                           sub  : Counters]]
TypeRoutines ==
  /\ rpc \in [Routines -> RoutinePcs]
  /\ ectx \in [Routines -> Execs \cup {Nil}]
  /\ spawner \in [Routines -> Routines]
  /\ polled \in [Routines -> Execs \cup {Nil}]
  /\ res \in [Routines -> {"none", "ok", "fail", "bailout"}]
  /\ home \in [Routines -> Execs \cup {Nil}]

\* Every variable stays in its range; isRunning in particular is 0 or 1, the
\* two values ExitIfCtxDone distinguishes (core.go:308).
TypeOK ==
  /\ TypeCtl /\ TypeCancel /\ TypeHelpers /\ TypeCounts /\ TypeRoutines
  /\ crashed \in {"no", "nil ExecutionState", "WaitGroup reused", "negative WaitGroup"}

Returned(e)  == e < cur \/ (e = cur /\ callerPc = "idle")
NoMessage(e) == /\ report[e].main = "silent" /\ report[e].sub.active = 0
                /\ report[e].sub.fail = 0    /\ report[e].sub.cancel = 0

\* The routines that hold a unit of e.routineWait, and the goroutines that
\* hold a unit of e.subCounter.active.
Waiting(e) == {r \in Routines : /\ ectx[r] = e
                                /\ rpc[r] \in {"reg", "run", "spawn", "poll",
                                               "select", "ended", "recorded"}}
Active(e)  == {c \in Subs : /\ ectx[c] = e
                            /\ rpc[c] \in {"run", "spawn", "poll", "select", "ended"}}

\* Each counter is the number of routines it stands for, whichever execution
\* they came from: the unsigned counter never wraps (core.go:84-87), Done never
\* drives the WaitGroup below 0, "n goroutines are hanging" counts the living.
CountersExact ==
  /\ \A e \in Execs : /\ wg[e] = Cardinality(Waiting(e))
                      /\ subCounter[e].active = Cardinality(Active(e))
  /\ crashed # "negative WaitGroup"

\* The lgo code of execution e is over.
CodeOver(e) == \A r \in Routines :
                 home[r] = e => rpc[r] \in {"unborn", "cancel", "exit"}

\* waitRoutines lets ExecLgoEntryPoint return only when all the code of the
\* execution is over or its context was done (core.go:178-193).
ReturnJustified == \A e \in Execs : waitDone[e] => CodeOver(e) \/ ctxDone[e]

\* If ExecLgoEntryPoint returned nil, every goroutine the code block ever
\* started, directly or not, ended and ended normally (core.go:143-176,
\* 261-268), even when goroutines of earlier blocks are still around.  The one
\* exception: after execWaitDuration has run out a routine can start goroutines
\* that no longer belong to the execution (InitGoroutine finds another state,
\* or none) and end normally itself before counterMessage looks.
CleanReport ==
  \A e \in Execs : Returned(e) /\ NoMessage(e) =>
    \A r \in Routines : home[r] = e /\ rpc[r] # "unborn" =>
      \/ rpc[r] \in {"recorded", "exit"} /\ res[r] = "ok"
      \/ ectx[r] # e /\ timer[e] = "exit"

\* A routine is thrown out by ExitIfCtxDone only if its own execution was
\* cancelled (core.go:305-319), although the function looks at whichever
\* execution is current.
BailoutJustified ==
  \A r \in Routines : res[r] = "bailout" => home[r] \in Execs /\ ctxDone[home[r]]

\* Once the cancellation of the current execution is complete, isRunning sends
\* ExitIfCtxDone to its slow path (core.go:137-140, 305-306).
CancelVisible ==
  \A e \in Execs : execState = e /\ cancelPc[e] = "done" => isRunning = 0

\* An execution is cancelled only by its parent, by its own completion, or by
\* the panic of a goroutine registered with it (core.go:121-124, 181-185,
\* 287-290): a routine that was merely thrown out cannot be the first cause.
CancelCaused ==
  \A e \in Execs : ctxDone[e] =>
    \/ parentDone[e]
    \/ waiter[e] \in {"cancel", "exit"}
    \/ \E c \in Subs : ectx[c] = e /\ res[c] = "fail"

Dead == crashed # "no"

\* What can hold up the call: nobody cancels its execution, and lgo code
\* registered with it does not end.  That code need not be the block's own:
\* InitGoroutine registers a goroutine of an earlier block with the execution
\* that is current when it is started.
HeldUp ==
  \E e \in Execs, r \in Routines :
    cur = e /\ ~ctxDone[e] /\ ectx[r] = e /\ rpc[r] \in {"run", "spawn", "poll", "select"}

\* ExecLgoEntryPoint returns, unless from some moment on it is held up for good.
\* So a cancelled execution returns even if its code hangs, because
\* execWaitDuration bounds the wait (core.go:186-190), and one without code left
\* returns by itself, whatever joined its WaitGroup meanwhile (core.go:180-185).
CallReturns == (callerPc # "idle") ~> (callerPc = "idle" \/ Dead \/ []HeldUp)

\* No execution leaks its context (the comment of core.go:183), not even one
\* whose cancel() the next execution overtakes.
ContextReleased == []<>(Dead \/ \A e \in Execs : Returned(e) => ctxDone[e])

\* The code of an interrupted execution, until the next execution starts.
Stragglers == {r \in Routines : /\ cur \in Execs /\ parentDone[cur] /\ home[r] = cur
                                /\ rpc[r] \notin {"unborn", "cancel", "exit"}}

\* Code that keeps calling ExitIfCtxDone ends once its execution is interrupted,
\* or else the next execution starts before it looked: startExec sets isRunning
\* again and ExitIfCtxDone knows the current execution only, so from then on
\* nothing is promised of it.  Not covered: a cancel() that takes so long that
\* execWaitDuration runs out first (core.go:137-140, 186-190, 247, 305-319).
Overtaken == \E e \in Execs : timer[e] = "exit" /\ cancelPc[e] # "done"

PollersStop ==
  /\ \A r \in Routines : WF_vars(PollFlag(r))
  /\ []~Overtaken
  => []<>(Dead \/ Stragglers = {})

-----------------------------------------------------------------------------
(* LgoCore implements ExecPromise.                                         *)

Failed(e) == \E r \in Routines : /\ home[r] = e /\ ectx[r] = e
                                 /\ rpc[r] \in {"recorded", "cancel", "exit"}
                                 /\ res[r] # "ok"

Phase == [e \in Execs |-> IF cur < e THEN "idle"
                          ELSE IF ~Returned(e) THEN "running"
                          ELSE IF NoMessage(e) THEN "nil" ELSE "error"]
Over  == [e \in Execs |-> rpc[e] # "unborn" /\ CodeOver(e)]
Bad   == [e \in Execs |-> Failed(e)]

Promise == INSTANCE ExecPromise WITH
  phase <- Phase, over <- Over, failed <- Bad, cancelled <- ctxDone

\* Every step of the execution manager is a step of the promise or changes
\* nothing the caller of ExecLgoEntryPoint can see (core.go:241-268).
ImplementsPromise == Promise!Spec

-----------------------------------------------------------------------------
(* What comments and tests of the repository say and the code does not do. *)

\* core.go:195-198: InitGoroutine, FinalizeGoroutine and ExitIfCtxDone "might be
\* called after" an execution finishes, by its goroutines; that must not bring
\* the process down, neither by the nil state InitGoroutine then returns nor by
\* a WaitGroup that is just being waited for.
LateCallsSurvive == crashed \notin {"nil ExecutionState", "WaitGroup reused"}
=============================================================================
