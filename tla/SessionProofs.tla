---------------------------- MODULE SessionProofs ----------------------------
(***************************************************************************)
(* Proofs about Session: types, the runner, contexts and files, then the   *)
(* pipes of the handler, and the theorems.                                 *)
(***************************************************************************)
EXTENDS SessionInv, TLAPS

rvars == <<sessionVars, runVars, loaded>>

(***************************************************************************)
(* Which actions touch which variables.                                    *)
(***************************************************************************)
LEMMA RunnerShape ==
  ASSUME [Next]_allVars
  PROVE  \/ UNCHANGED rvars
         \/ \E b \in Blocks \cup {NoBlock} : RunCalled(b)
         \/ RunStep \/ ExecReturns \/ RunConsumed
         \/ RunnerForgets /\ ExecHandlerForgets /\ FrontEndForgets
<1> USE DEF rvars, runnerVars, sessionVars, runVars, fileVars
<1>1. CASE InternalStep
  <2>1. CASE RunStep
    BY <2>1
  <2>2. CASE KernelStep
    BY <2>2 DEF KernelStep, KernelCallsRun, KernelRunEnds
  <2>3. CASE FrontStep
    BY <2>3 DEF FrontStep, LoopChecksContext, WatcherStarts, RunEnds, NextFile, FileEnds
  <2> QED BY <1>1, <2>1, <2>2, <2>3 DEF InternalStep
<1>2. CASE Environment
  BY <1>2 DEF Environment, KernelRequest, ServerCancels, NextReturns, Interrupt, TerminationSignal
<1>3. CASE CodeReturns
  BY <1>3 DEF CodeReturns
<1>4. CASE Builder
  BY <1>4 DEF Builder, BuilderInstalls, BuilderEnds
<1>5. CASE Leave \/ LauncherCleans \/ LauncherKilled \/ \E a \in Processes : CleanSession(a)
  BY <1>5 DEF Leave, LauncherCleans, LauncherKilled, CleanSession
<1>6. CASE Exit \/ Die
  BY <1>6 DEF Exit, Die, Forgets
<1>7. CASE UNCHANGED allVars
  BY <1>7 DEF allVars
<1> QED BY <1>1, <1>2, <1>3, <1>4, <1>5, <1>6, <1>7 DEF Next

LEMMA FilesShape ==
  ASSUME [Next]_allVars
  PROVE  \/ UNCHANGED fileVars
         \/ WriteSrc \/ StartBuild \/ AwaitBuild \/ Builder
         \/ \E a \in Processes : CleanSession(a)
<1> USE DEF runnerVars, fileVars
<1>1. CASE InternalStep
  <2>1. CASE RunStep
    BY <2>1 DEF RunStep, ConvertFails, Converted, Register, Registered, InstallDeps, Load
  <2>2. CASE KernelStep
    BY <2>2 DEF KernelStep, KernelCallsRun, KernelRunEnds, RunCalled, RunConsumed
  <2>3. CASE FrontStep
    BY <2>3 DEF FrontStep, LoopChecksContext, WatcherStarts, RunEnds, NextFile, FileEnds,
                RunCalled, RunConsumed
  <2> QED BY <1>1, <2>1, <2>2, <2>3 DEF InternalStep
<1>2. CASE Environment
  BY <1>2 DEF Environment, KernelRequest, ServerCancels, NextReturns, Interrupt,
              TerminationSignal, RunCalled
<1>3. CASE CodeReturns
  BY <1>3 DEF CodeReturns, ExecReturns
<1>4. CASE Leave \/ LauncherCleans \/ LauncherKilled
  BY <1>4 DEF Leave, LauncherCleans, LauncherKilled
<1>5. CASE Exit \/ Die
  BY <1>5 DEF Exit, Die
<1>6. CASE UNCHANGED allVars
  BY <1>6 DEF allVars
<1> QED BY <1>1, <1>2, <1>3, <1>4, <1>5, <1>6 DEF Next

LEMMA ContextShape ==
  ASSUME [Next]_allVars
  PROVE  \/ UNCHANGED runCtx
         \/ KernelRequest \/ ServerCancels \/ NextReturns \/ Interrupt \/ ProcessDone
         \/ RunEnds \/ NextFile \/ RunnerForgets
<1> USE DEF runnerVars
<1>1. CASE InternalStep
  <2>1. CASE RunStep
    BY <2>1 DEF RunStep, ConvertFails, Converted, Register, Registered, WriteSrc, InstallDeps,
                StartBuild, AwaitBuild, Load
  <2>2. CASE KernelStep
    BY <2>2 DEF KernelStep, KernelCallsRun, KernelRunEnds
  <2>3. CASE FrontStep
    BY <2>3 DEF FrontStep, LoopChecksContext, WatcherStarts, FileEnds
  <2> QED BY <1>1, <2>1, <2>2, <2>3 DEF InternalStep
<1>2. CASE Environment
  BY <1>2 DEF Environment, TerminationSignal
<1>3. CASE CodeReturns
  BY <1>3 DEF CodeReturns, ExecReturns
<1>4. CASE Leave \/ LauncherCleans \/ LauncherKilled \/ \E a \in Processes : CleanSession(a)
  BY <1>4 DEF Leave, LauncherCleans, LauncherKilled, CleanSession
<1>5. CASE Exit \/ Die
  BY <1>5 DEF Exit, Die, Forgets
<1>6. CASE Builder
  BY <1>6 DEF Builder, BuilderInstalls, BuilderEnds
<1>7. CASE UNCHANGED allVars
  BY <1>7 DEF allVars
<1> QED BY <1>1, <1>2, <1>3, <1>4, <1>5, <1>6, <1>7 DEF Next

LEMMA FrontShape ==
  ASSUME [Next]_allVars
  PROVE  \/ UNCHANGED frontVars
         \/ FrontStep \/ NextReturns \/ Interrupt \/ TerminationSignal
         \/ (UNCHANGED <<mode, signals>> /\ FrontEndForgets)
         \/ (LauncherKilled /\ ProcessDone)
<1> USE DEF frontVars
<1>1. CASE InternalStep
  BY <1>1 DEF InternalStep, KernelStep, KernelCallsRun, KernelRunEnds
<1>2. CASE Environment
  BY <1>2 DEF Environment, KernelRequest, ServerCancels
<1>3. CASE CodeReturns
  BY <1>3 DEF CodeReturns
<1>4. CASE LauncherKilled
  BY <1>4 DEF LauncherKilled
<1>5. CASE Leave \/ LauncherCleans \/ \E a \in Processes : CleanSession(a)
  BY <1>5 DEF Leave, LauncherCleans, CleanSession
<1>6. CASE Exit \/ Die
  BY <1>6 DEF Exit, Die, Forgets
<1>7. CASE Builder
  BY <1>7 DEF Builder
<1>8. CASE UNCHANGED allVars
  BY <1>8 DEF allVars
<1> QED BY <1>1, <1>2, <1>3, <1>4, <1>5, <1>6, <1>7, <1>8 DEF Next

hvars == <<handlerVars, pipeVars, children, writing, written>>

LEMMA HandlerShape ==
  ASSUME [Next]_allVars
  PROVE  \/ UNCHANGED hvars
         \/ HandleExecuteRequest \/ CallRun
         \/ (HandlerStep /\ hpc # "running") \/ RunReturned
         \/ (ReaderStep /\ UNCHANGED <<handlerVars, codeVars>>)
         \/ CodeStep \/ ExecHandlerForgets
<1> USE DEF hvars, execHandlerVars, codeVars
<1>1. CASE InternalStep
  BY <1>1 DEF InternalStep, KernelStep, KernelCallsRun, KernelRunEnds
<1>2. CASE Environment
  BY <1>2 DEF Environment, KernelRequest, ServerCancels
<1>3. CASE CodeReturns
  BY <1>3 DEF CodeReturns
<1>4. CASE Leave \/ LauncherCleans \/ LauncherKilled \/ \E a \in Processes : CleanSession(a)
  BY <1>4 DEF Leave, LauncherCleans, LauncherKilled, CleanSession
<1>5. CASE Exit \/ Die
  BY <1>5 DEF Exit, Die, Forgets
<1>6. CASE Builder
  BY <1>6 DEF Builder
<1>7. CASE UNCHANGED allVars
  BY <1>7 DEF allVars
<1> QED BY <1>1, <1>2, <1>3, <1>4, <1>5, <1>6, <1>7 DEF Next

-----------------------------------------------------------------------------
(***************************************************************************)
(* Types.                                                                  *)
(***************************************************************************)
\* What the runner has in memory.
MemoryTyped ==
  /\ execCount \in 0 .. MaxRuns /\ vars \in [Names -> 0 .. MaxRuns]
  /\ imports \subseteq Packages
  /\ rpc \in {"idle", "convert", "register", "write", "deps", "build", "building",
              "load", "exec", "returned"}
  /\ block \in Blocks \cup {NoBlock} /\ pending \subseteq Names /\ olds \subseteq Runs
  /\ outcome \in [Runs -> Results] /\ loaded \subseteq Runs

LEMMA BlockTyped ==
  ASSUME NEW b \in Blocks \cup {NoBlock}
  PROVE  /\ b.defs \subseteq Names /\ b.uses \subseteq Names \cup Packages
         /\ b.imports \subseteq Packages /\ b.code \in BOOLEAN
<1>1. CASE b \in Blocks
  BY <1>1, BlocksAssumption
<1>2. CASE b = NoBlock
  BY <1>2 DEF NoBlock
<1> QED BY <1>1, <1>2

LEMMA MemoryNext ==
  ASSUME TypeOK, Numbered, [Next]_allVars
  PROVE  MemoryTyped'
<1> USE RunsAssumption DEF TypeOK, RunnerTypeOK, MemoryTyped, Runs
<1>0. MemoryTyped
  OBVIOUS
<1>1. CASE UNCHANGED rvars
  BY <1>1 DEF rvars, sessionVars, runVars
<1>2. CASE \E b \in Blocks \cup {NoBlock} : RunCalled(b)
  BY <1>2 DEF RunCalled
<1>3. CASE RunStep
  <2> USE DEF sessionVars, Return, Results
  <2>1. CASE ConvertFails
    BY <2>1 DEF ConvertFails
  <2>2. CASE Converted
    BY <2>2, BlockTyped DEF Converted
  <2>3. CASE \E n \in Names : Register(n)
    BY <2>3 DEF Register
  <2>4. CASE Registered
    BY <2>4, BlockTyped DEF Registered
  <2>5. CASE WriteSrc \/ InstallDeps \/ StartBuild \/ AwaitBuild
    BY <2>5 DEF WriteSrc, InstallDeps, StartBuild, AwaitBuild
  <2>6. CASE Load
    BY <2>6 DEF Load, Numbered
  <2> QED BY <1>3, <2>1, <2>2, <2>3, <2>4, <2>5, <2>6 DEF RunStep
<1>4. CASE ExecReturns
  BY <1>4 DEF ExecReturns, Return, Results, sessionVars
<1>5. CASE RunConsumed
  BY <1>5 DEF RunConsumed, sessionVars
<1>6. CASE RunnerForgets
  BY <1>6 DEF RunnerForgets, Results
<1> QED BY <1>1, <1>2, <1>3, <1>4, <1>5, <1>6, RunnerShape

LEMMA FileTypesNext ==
  ASSUME TypeOK, Numbered, [Next]_allVars
  PROVE  files' \subseteq {"src", "archive", "lib"} \X Runs /\ builders' \subseteq Runs
<1> USE DEF TypeOK, RunnerTypeOK
<1>1. CASE UNCHANGED fileVars
  BY <1>1 DEF fileVars
<1>2. CASE WriteSrc \/ StartBuild \/ AwaitBuild
  BY <1>2 DEF WriteSrc, StartBuild, AwaitBuild, Numbered
<1>3. CASE Builder
  BY <1>3 DEF Builder, BuilderInstalls, BuilderEnds
<1>4. CASE \E a \in Processes : CleanSession(a)
  BY <1>4 DEF CleanSession, CleanSrc, CleanSharedLibs, CleanArchives, Remove
<1> QED BY <1>1, <1>2, <1>3, <1>4, FilesShape

LEMMA ContextTypeNext ==
  ASSUME TypeOK, [Next]_allVars
  PROVE  runCtx' \in BOOLEAN
<1> USE DEF TypeOK, RunnerTypeOK, FrontEndTypeOK
<1>1. CASE KernelRequest \/ ServerCancels \/ RunEnds \/ RunnerForgets
  BY <1>1 DEF KernelRequest, ServerCancels, RunEnds, RunnerForgets
<1>2. CASE NextReturns \/ NextFile
  BY <1>2 DEF NextReturns, NextFile, runnerVars
<1>3. CASE Interrupt \/ ProcessDone
  BY <1>3 DEF Interrupt, ProcessDone
<1> QED BY <1>1, <1>2, <1>3, ContextShape

LEMMA RunnerTypeNext ==
  ASSUME TypeOK, Numbered, [Next]_allVars
  PROVE  RunnerTypeOK'
BY MemoryNext, FileTypesNext, ContextTypeNext DEF MemoryTyped, RunnerTypeOK
-----------------------------------------------------------------------------
(***************************************************************************)
(* The runner.                                                             *)
(***************************************************************************)
LEMMA NumberedNext ==
  ASSUME TypeOK, Numbered, [Next]_allVars
  PROVE  Numbered'
<1> USE RunsAssumption DEF TypeOK, RunnerTypeOK, Numbered, Runs, Before
<1>1. CASE UNCHANGED rvars
  BY <1>1 DEF rvars, sessionVars, runVars
<1>2. CASE \E b \in Blocks \cup {NoBlock} : RunCalled(b)
  BY <1>2 DEF RunCalled
<1>3. CASE RunStep
  <2> USE DEF sessionVars, Return
  <2>1. CASE ConvertFails
    BY <2>1 DEF ConvertFails
  <2>6. CASE Converted
    BY <2>6 DEF Converted
  <2>2. CASE (\E n \in Names : Register(n)) \/ Registered
    BY <2>2 DEF Register, Registered
  <2>3. CASE WriteSrc \/ InstallDeps
    BY <2>3 DEF WriteSrc, InstallDeps
  <2>4. CASE StartBuild
    <3>1. CASE runCtx
      BY <2>4, <3>1 DEF StartBuild
    <3>2. CASE ~runCtx
      BY <2>4, <3>2 DEF StartBuild
    <3> QED BY <3>1, <3>2
  <2>7. CASE AwaitBuild
    BY <2>7 DEF AwaitBuild
  <2>5. CASE Load
    BY <2>5 DEF Load
  <2> QED BY <1>3, <2>1, <2>2, <2>3, <2>4, <2>5, <2>6, <2>7 DEF RunStep
<1>4. CASE ExecReturns
  BY <1>4 DEF ExecReturns, Return, sessionVars
<1>5. CASE RunConsumed
  BY <1>5 DEF RunConsumed, sessionVars
<1>6. CASE RunnerForgets
  BY <1>6 DEF RunnerForgets
<1> QED BY <1>1, <1>2, <1>3, <1>4, <1>5, <1>6, RunnerShape

LEMMA NamedNext ==
  ASSUME TypeOK, Numbered, Named, [Next]_allVars
  PROVE  Named'
<1> USE RunsAssumption DEF TypeOK, RunnerTypeOK, Named, Runs
<1>1. CASE UNCHANGED rvars
  BY <1>1 DEF rvars, sessionVars, runVars
<1>2. CASE \E b \in Blocks \cup {NoBlock} : RunCalled(b)
  BY <1>2 DEF RunCalled
<1>3. CASE RunStep
  <2> USE DEF sessionVars, Return
  <2>1. CASE ConvertFails \/ Converted
    BY <2>1 DEF ConvertFails, Converted
  <2>2. CASE (\E n \in Names : Register(n)) \/ Registered
    BY <2>2 DEF Register, Registered
  <2>3. CASE WriteSrc \/ InstallDeps \/ StartBuild \/ AwaitBuild \/ Load
    BY <2>3 DEF WriteSrc, InstallDeps, StartBuild, AwaitBuild, Load
  <2> QED BY <1>3, <2>1, <2>2, <2>3 DEF RunStep
<1>4. CASE ExecReturns
  BY <1>4 DEF ExecReturns, Return, sessionVars
<1>5. CASE RunConsumed
  BY <1>5 DEF RunConsumed, sessionVars, NoBlock
<1>6. CASE RunnerForgets
  BY <1>6 DEF RunnerForgets, NoBlock
<1> QED BY <1>1, <1>2, <1>3, <1>4, <1>5, <1>6, RunnerShape

\* A block that declared nothing left no name; one that declared something is
\* loaded when Run returns nil.
LEMMA NamesBackedNext ==
  ASSUME TypeOK, Numbered, Named, NamesBacked, [Next]_allVars
  PROVE  NamesBacked'
<1> USE RunsAssumption DEF TypeOK, RunnerTypeOK, Numbered, Named, NamesBacked, Runs
<1>1. CASE UNCHANGED rvars
  BY <1>1 DEF rvars, sessionVars, runVars
<1>2. CASE \E b \in Blocks \cup {NoBlock} : RunCalled(b)
  BY <1>2 DEF RunCalled
<1>3. CASE RunStep
  <2> USE DEF sessionVars, Return
  <2>1. CASE ConvertFails \/ Converted
    BY <2>1 DEF ConvertFails, Converted
  <2>2. CASE \E n \in Names : Register(n)
    BY <2>2 DEF Register
  <2>3. CASE Registered
    BY <2>3 DEF Registered
  <2>4. CASE WriteSrc \/ InstallDeps \/ StartBuild \/ AwaitBuild
    BY <2>4 DEF WriteSrc, InstallDeps, StartBuild, AwaitBuild
  <2>5. CASE Load
    BY <2>5 DEF Load
  <2> QED BY <1>3, <2>1, <2>2, <2>3, <2>4, <2>5 DEF RunStep
<1>4. CASE ExecReturns
  BY <1>4 DEF ExecReturns, Return, sessionVars
<1>5. CASE RunConsumed
  BY <1>5 DEF RunConsumed, sessionVars
<1>6. CASE RunnerForgets
  BY <1>6 DEF RunnerForgets
<1> QED BY <1>1, <1>2, <1>3, <1>4, <1>5, <1>6, RunnerShape

LEMMA OldsBackedNext ==
  ASSUME TypeOK, Numbered, Named, NamesBacked, OldsBacked, [Next]_allVars
  PROVE  OldsBacked'
<1> USE RunsAssumption DEF TypeOK, RunnerTypeOK, Numbered, OldsBacked, Runs, Failures
<1>1. CASE UNCHANGED rvars
  BY <1>1 DEF rvars, sessionVars, runVars
<1>2. CASE \E b \in Blocks \cup {NoBlock} : RunCalled(b)
  BY <1>2 DEF RunCalled
<1>3. CASE RunStep
  <2> USE DEF sessionVars, Return
  <2>1. CASE ConvertFails
    BY <2>1 DEF ConvertFails
  <2>2. CASE Converted
    BY <2>2 DEF Converted, Named, NamesBacked
  <2>3. CASE (\E n \in Names : Register(n)) \/ Registered
    BY <2>3 DEF Register, Registered
  <2>4. CASE WriteSrc \/ InstallDeps \/ StartBuild \/ AwaitBuild
    BY <2>4 DEF WriteSrc, InstallDeps, StartBuild, AwaitBuild
  <2>5. CASE Load
    BY <2>5 DEF Load
  <2> QED BY <1>3, <2>1, <2>2, <2>3, <2>4, <2>5 DEF RunStep
<1>4. CASE ExecReturns
  BY <1>4 DEF ExecReturns, Return, sessionVars
<1>5. CASE RunConsumed
  BY <1>5 DEF RunConsumed, sessionVars
<1>6. CASE RunnerForgets
  BY <1>6 DEF RunnerForgets
<1> QED BY <1>1, <1>2, <1>3, <1>4, <1>5, <1>6, RunnerShape
-----------------------------------------------------------------------------
(***************************************************************************)
(* The caller and the context.                                             *)
(***************************************************************************)
LEMMA FrontTypeNext ==
  ASSUME TypeOK, Numbered, [Next]_allVars
  PROVE  FrontEndTypeOK'
<1> USE RunsAssumption, SignalsAssumption DEF TypeOK, FrontEndTypeOK, RunnerTypeOK
<1>1. CASE UNCHANGED frontVars
  BY <1>1 DEF frontVars
<1>2. CASE FrontStep
  BY <1>2 DEF FrontStep, LoopChecksContext, WatcherStarts, RunEnds, NextFile, FileEnds
<1>3. CASE NextReturns
  BY <1>3 DEF NextReturns, Runs
<1>4. CASE Interrupt
  <2> DEFINE first == CHOOSE e \in Waiting : \A f \in Waiting : e <= f
  <2>1. /\ watcher' = watcher \/ watcher' = [watcher EXCEPT ![first] = "gone"]
        /\ reached' = reached \/ reached' = (reached \/ first = execCount)
    BY <1>4 DEF Interrupt
  <2>2. signals' \in 0 .. MaxSignals /\ UNCHANGED <<mode, fpc, procCtx, termAt>>
    BY <1>4 DEF Interrupt
  <2>3. reached' \in BOOLEAN
    BY <2>1
  <2> HIDE DEF first
  <2>4. watcher' \in [Runs -> {"none", "starting", "waiting", "gone"}]
    BY <2>1
  <2> QED BY <2>2, <2>3, <2>4
<1>5. CASE TerminationSignal
  BY <1>5 DEF TerminationSignal, ProcessDone
<1>6. CASE UNCHANGED <<mode, signals>> /\ FrontEndForgets
  <2>1. -1 \in -1 .. MaxRuns
    OBVIOUS
  <2>2. watcher' \in [Runs -> {"none", "starting", "waiting", "gone"}]
    BY <1>6 DEF FrontEndForgets
  <2> QED BY <1>6, <2>1, <2>2 DEF FrontEndForgets
<1>7. CASE LauncherKilled /\ ProcessDone
  BY <1>7 DEF LauncherKilled, ProcessDone
<1> QED BY <1>1, <1>2, <1>3, <1>4, <1>5, <1>6, <1>7, FrontShape

\* A run at work stays at work until it returns, and keeps its context.
LEMMA RunStepKeeps ==
  ASSUME RunStep
  PROVE  rpc # "idle" /\ rpc' # "idle" /\ rpc # "returned" /\ UNCHANGED <<execCount, runCtx>>
BY DEF RunStep, ConvertFails, Converted, Register, Registered, WriteSrc, InstallDeps,
       StartBuild, AwaitBuild, Load, Return, sessionVars

LEMMA RolesNext ==
  ASSUME TypeOK, Numbered, Roles, [Next]_allVars
  PROVE  Roles'
<1> USE DEF Roles, Idle
<1>1. CASE InternalStep
  <2>1. CASE RunStep /\ UNCHANGED <<execHandlerVars, frontVars>>
    BY <2>1, RunStepKeeps DEF execHandlerVars, handlerVars, frontVars
  <2>2. CASE KernelStep
    <3>1. CASE KernelCallsRun
      BY <3>1 DEF KernelCallsRun, CallRun, RunCalled, frontVars
    <3>2. CASE KernelRunEnds
      BY <3>2 DEF KernelRunEnds, RunReturned, RunConsumed, frontVars
    <3>3. CASE HandlerStep /\ hpc # "running" /\ UNCHANGED <<runnerVars, frontVars>>
      BY <3>3 DEF HandlerStep, OpenStderr, RunReturned, CloseOut, CloseErr, AwaitReader,
                  SendReply, Reply, runnerVars, runVars, frontVars
    <3>4. CASE ReaderStep /\ UNCHANGED <<handlerVars, codeVars, runnerVars, frontVars>>
      BY <3>4 DEF handlerVars, runnerVars, runVars, frontVars
    <3> QED BY <2>2, <3>1, <3>2, <3>3, <3>4 DEF KernelStep
  <2>3. CASE FrontStep /\ UNCHANGED execHandlerVars
    BY <2>3 DEF FrontStep, LoopChecksContext, WatcherStarts, RunEnds, NextFile, FileEnds,
                RunCalled, RunConsumed, execHandlerVars, handlerVars, runnerVars, runVars
  <2> QED BY <1>1, <2>1, <2>2, <2>3 DEF InternalStep
<1>2. CASE Environment
  <2>1. CASE KernelRequest
    BY <2>1 DEF KernelRequest, HandleExecuteRequest, Reply, runVars, frontVars
  <2>2. CASE ServerCancels
    BY <2>2 DEF ServerCancels, runVars, execHandlerVars, handlerVars, frontVars
  <2>3. CASE CodeStep /\ mode = "kernel" /\ UNCHANGED <<runnerVars, frontVars>>
    BY <2>3 DEF CodeStep, WriteFile, ReadFile, LeaveGoroutine, StartChild, ChildWrites,
                ChildEnds, handlerVars, runnerVars, runVars, frontVars
  <2>4. CASE NextReturns /\ UNCHANGED execHandlerVars
    BY <2>4 DEF NextReturns, RunCalled, execHandlerVars, handlerVars, runnerVars, runVars,
                TypeOK, FrontEndTypeOK
  <2>5. CASE (Interrupt \/ TerminationSignal) /\ UNCHANGED execHandlerVars
    BY <2>5 DEF Interrupt, TerminationSignal, ProcessDone, execHandlerVars, handlerVars, runVars
  <2> QED BY <1>2, <2>1, <2>2, <2>3, <2>4, <2>5 DEF Environment
<1>3. CASE CodeReturns
  BY <1>3 DEF CodeReturns, ExecReturns, Return, handlerVars, frontVars
<1>4. CASE Builder
  BY <1>4 DEF Builder, BuilderInstalls, BuilderEnds, runVars, execHandlerVars, handlerVars, frontVars
<1>5. CASE Leave \/ LauncherCleans
  BY <1>5 DEF Leave, LauncherCleans, runnerVars, runVars, execHandlerVars, handlerVars, frontVars
<1>6. CASE LauncherKilled
  BY <1>6 DEF LauncherKilled, ProcessDone, runVars, execHandlerVars, handlerVars
<1>7. CASE \E a \in Processes : CleanSession(a)
  BY <1>7 DEF CleanSession, runVars, execHandlerVars, handlerVars, frontVars
<1>8. CASE Exit \/ Die
  BY <1>8 DEF Exit, Die, Forgets, RunnerForgets, ExecHandlerForgets, FrontEndForgets
<1>9. CASE UNCHANGED allVars
  BY <1>9 DEF allVars, runnerVars, runVars, execHandlerVars, handlerVars, frontVars
<1> QED BY <1>1, <1>2, <1>3, <1>4, <1>5, <1>6, <1>7, <1>8, <1>9 DEF Next

LEMMA WatchedNext ==
  ASSUME TypeOK, Roles, Watched, [Next]_allVars
  PROVE  Watched'
<1> DEFINE Awaits(e) == watcher[e] \in {"starting", "waiting"}
<1>1. ASSUME NEW e \in Runs, Awaits(e)
      PROVE  execCount' = execCount \/ FrontEndForgets
  <2>1. rpc # "idle"
    BY <1>1 DEF Roles, Watched
  <2> QED BY <2>1, RunnerShape, RunStepKeeps
          DEF rvars, sessionVars, RunCalled, ExecReturns, RunConsumed
<1>2. CASE FrontEndForgets
  BY <1>2 DEF Watched, FrontEndForgets
<1>3. ASSUME UNCHANGED <<fpc, mode>>, ~FrontEndForgets,
             \A e \in Runs : Awaits(e)' => Awaits(e)
      PROVE  Watched'
  BY <1>1, <1>3 DEF Watched
<1>4. CASE FrontStep
  <2>1. CASE LoopChecksContext
    BY <2>1 DEF LoopChecksContext, Watched
  <2>2. CASE \E e \in Runs : WatcherStarts(e)
    <3>1. UNCHANGED execCount
      BY <2>2 DEF WatcherStarts, runnerVars, sessionVars
    <3> QED BY <2>2, <3>1 DEF WatcherStarts, Watched, TypeOK, FrontEndTypeOK
  <2>3. CASE RunEnds
    BY <2>3 DEF RunEnds, Watched, TypeOK, FrontEndTypeOK
  <2>4. CASE NextFile \/ FileEnds
    BY <2>4 DEF NextFile, FileEnds, Watched
  <2> QED BY <1>4, <2>1, <2>2, <2>3, <2>4 DEF FrontStep
<1>5. CASE NextReturns
  BY <1>5 DEF NextReturns, Watched, TypeOK, FrontEndTypeOK
<1>6. CASE Interrupt
  <2> DEFINE first == CHOOSE e \in Waiting : \A f \in Waiting : e <= f
  <2>1. /\ watcher' = watcher \/ watcher' = [watcher EXCEPT ![first] = "gone"]
        /\ UNCHANGED <<fpc, mode>>
    BY <1>6 DEF Interrupt
  <2> HIDE DEF first
  <2>2. \A e \in Runs : Awaits(e)' => Awaits(e)
    BY <2>1 DEF TypeOK, FrontEndTypeOK
  <2> QED BY <1>2, <1>3, <2>1, <2>2
<1>7. CASE UNCHANGED <<fpc, mode, watcher>>
  BY <1>2, <1>3, <1>7
<1> QED BY <1>2, <1>4, <1>5, <1>6, <1>7, FrontShape
        DEF frontVars, TerminationSignal, LauncherKilled

\* A block that is given a context already done is not built; a context that becomes
\* done does so at the block at work.
LEMMA TerminatedNext ==
  ASSUME TypeOK, Numbered, Roles, Terminated, [Next]_allVars
  PROVE  Terminated'
<1> USE DEF TypeOK, RunnerTypeOK, FrontEndTypeOK, Roles, frontVars, runVars, sessionVars,
           Terminated
<1>1. CASE InternalStep
  <2>1. CASE RunStep /\ UNCHANGED <<execHandlerVars, frontVars>>
    <3>1. CASE ConvertFails \/ Converted \/ (\E n \in Names : Register(n)) \/ Registered
      BY <2>1, <3>1 DEF ConvertFails, Converted, Register, Registered, Return
    <3>2. CASE WriteSrc \/ InstallDeps
      BY <2>1, <3>2 DEF WriteSrc, InstallDeps, Return
    <3>3. CASE StartBuild
      BY <2>1, <3>3 DEF StartBuild, Return
    <3>4. CASE AwaitBuild \/ Load
      BY <2>1, <3>4 DEF AwaitBuild, Load, Return
    <3> QED BY <2>1, <3>1, <3>2, <3>3, <3>4 DEF RunStep
  <2>2. CASE KernelStep
    <3>1. CASE KernelCallsRun
      BY <2>2, <3>1 DEF KernelCallsRun, CallRun, RunCalled, Idle
    <3>2. CASE KernelRunEnds
      BY <3>2 DEF KernelRunEnds, RunConsumed
    <3> QED BY <2>2, <3>1, <3>2 DEF KernelStep, runnerVars
  <2>3. CASE FrontStep
    BY <2>3 DEF FrontStep, LoopChecksContext, WatcherStarts, RunEnds, NextFile, FileEnds,
                RunCalled, RunConsumed, runnerVars
  <2> QED BY <1>1, <2>1, <2>2, <2>3 DEF InternalStep
<1>2. CASE Environment
  <2>1. CASE KernelRequest \/ ServerCancels
    BY <2>1 DEF KernelRequest, ServerCancels
  <2>2. CASE CodeStep /\ mode = "kernel" /\ UNCHANGED <<runnerVars, frontVars>>
    BY <2>2 DEF runnerVars
  <2>3. CASE NextReturns
    BY <2>3 DEF NextReturns, RunCalled, runnerVars
  <2>4. CASE Interrupt
    BY <2>4 DEF Interrupt
  <2>5. CASE TerminationSignal
    BY <2>5 DEF TerminationSignal, ProcessDone
  <2> QED BY <1>2, <2>1, <2>2, <2>3, <2>4, <2>5 DEF Environment
<1>3. CASE CodeReturns
  BY <1>3 DEF CodeReturns, ExecReturns, Return
<1>4. CASE Builder
  BY <1>4 DEF Builder, BuilderInstalls, BuilderEnds
<1>5. CASE Leave \/ LauncherCleans
  BY <1>5 DEF Leave, LauncherCleans, runnerVars
<1>6. CASE LauncherKilled
  BY <1>6 DEF LauncherKilled, ProcessDone
<1>7. CASE \E a \in Processes : CleanSession(a)
  BY <1>7 DEF CleanSession
<1>8. CASE Exit \/ Die
  BY <1>8 DEF Exit, Die, Forgets, RunnerForgets, FrontEndForgets
<1>9. CASE UNCHANGED allVars
  BY <1>9 DEF allVars, runnerVars
<1> QED BY <1>1, <1>2, <1>3, <1>4, <1>5, <1>6, <1>7, <1>8, <1>9 DEF Next

LEMMA OwnContextNext ==
  ASSUME TypeOK, Roles, OwnContext, [Next]_allVars
  PROVE  OwnContext'
<1> USE DEF TypeOK, RunnerTypeOK, FrontEndTypeOK, Roles, frontVars, runVars, sessionVars,
           OwnContext, Running
<1>1. CASE InternalStep
  <2>1. CASE RunStep /\ UNCHANGED <<execHandlerVars, frontVars>>
    <3>1. CASE ConvertFails \/ Converted \/ (\E n \in Names : Register(n)) \/ Registered
      BY <2>1, <3>1 DEF ConvertFails, Converted, Register, Registered, Return
    <3>2. CASE WriteSrc \/ InstallDeps
      BY <2>1, <3>2 DEF WriteSrc, InstallDeps, Return
    <3>3. CASE StartBuild
      BY <2>1, <3>3 DEF StartBuild, Return
    <3>4. CASE AwaitBuild \/ Load
      BY <2>1, <3>4 DEF AwaitBuild, Load, Return
    <3> QED BY <2>1, <3>1, <3>2, <3>3, <3>4 DEF RunStep
  <2>2. CASE KernelStep
    <3>1. CASE KernelCallsRun
      BY <2>2, <3>1 DEF KernelCallsRun, CallRun, RunCalled, Idle
    <3>2. CASE KernelRunEnds
      BY <3>2 DEF KernelRunEnds, RunConsumed
    <3> QED BY <2>2, <3>1, <3>2 DEF KernelStep, runnerVars
  <2>3. CASE FrontStep
    BY <2>3 DEF FrontStep, LoopChecksContext, WatcherStarts, RunEnds, NextFile, FileEnds,
                RunCalled, RunConsumed, runnerVars
  <2> QED BY <1>1, <2>1, <2>2, <2>3 DEF InternalStep
<1>2. CASE Environment
  <2>1. CASE KernelRequest \/ ServerCancels
    BY <2>1 DEF KernelRequest, ServerCancels
  <2>2. CASE CodeStep /\ mode = "kernel" /\ UNCHANGED <<runnerVars, frontVars>>
    BY <2>2 DEF runnerVars
  <2>3. CASE NextReturns
    BY <2>3 DEF NextReturns, RunCalled, runnerVars
  <2>4. CASE Interrupt
    BY <2>4 DEF Interrupt
  <2>5. CASE TerminationSignal
    BY <2>5 DEF TerminationSignal, ProcessDone
  <2> QED BY <1>2, <2>1, <2>2, <2>3, <2>4, <2>5 DEF Environment
<1>3. CASE CodeReturns
  BY <1>3 DEF CodeReturns, ExecReturns, Return
<1>4. CASE Builder
  BY <1>4 DEF Builder, BuilderInstalls, BuilderEnds
<1>5. CASE Leave \/ LauncherCleans
  BY <1>5 DEF Leave, LauncherCleans, runnerVars
<1>6. CASE LauncherKilled
  BY <1>6 DEF LauncherKilled, ProcessDone
<1>7. CASE \E a \in Processes : CleanSession(a)
  BY <1>7 DEF CleanSession
<1>8. CASE Exit \/ Die
  BY <1>8 DEF Exit, Die, Forgets, RunnerForgets, FrontEndForgets
<1>9. CASE UNCHANGED allVars
  BY <1>9 DEF allVars, runnerVars
<1> QED BY <1>1, <1>2, <1>3, <1>4, <1>5, <1>6, <1>7, <1>8, <1>9 DEF Next

LEMMA TerminationStopsNext ==
  ASSUME TypeOK, Numbered, Terminated, TerminationStops, [Next]_allVars
  PROVE  TerminationStops'
<1> USE DEF TypeOK, RunnerTypeOK, FrontEndTypeOK, TerminationStops, Runs
<1>1. loaded' \subseteq loaded \/ (Load /\ loaded' \subseteq loaded \cup {execCount})
  <2>1. CASE RunStep
    BY <2>1 DEF RunStep, ConvertFails, Converted, Register, Registered, WriteSrc, InstallDeps,
                StartBuild, AwaitBuild, Load
  <2> QED BY <2>1, RunnerShape
          DEF rvars, RunCalled, ExecReturns, RunConsumed, RunnerForgets
<1>2. \/ termAt' = termAt \/ termAt' = -1
      \/ ProcessDone /\ UNCHANGED loaded
  BY FrontShape DEF frontVars, FrontStep, LoopChecksContext, WatcherStarts, RunEnds, NextFile,
     FileEnds, NextReturns, Interrupt, TerminationSignal, FrontEndForgets, LauncherKilled
<1>3. CASE termAt' = termAt
  <2>1. Load /\ termAt # -1 => execCount <= termAt
    BY RunsAssumption DEF Terminated, Load
  <2> QED BY <1>1, <1>3, <2>1
<1>4. CASE ProcessDone /\ UNCHANGED loaded
  BY <1>4 DEF ProcessDone, Terminated, Numbered
<1> QED BY <1>2, <1>3, <1>4
-----------------------------------------------------------------------------
(***************************************************************************)
(* The processes and the files.                                            *)
(***************************************************************************)
LifeTypeOK ==
  /\ life \in {"up", "leaving", "gone"}
  /\ cpc \in [Processes -> {"idle", "src", "libs", "archives", "done", "killed"}]
  /\ failed \subseteq Processes \X {"src", "archive", "lib"} /\ orphans \subseteq Runs

LEMMA LifeShape ==
  ASSUME [Next]_allVars
  PROVE  UNCHANGED lifeVars \/ Leave \/ Exit \/ Die \/ LauncherCleans \/ LauncherKilled
         \/ \E a \in Processes : CleanSession(a)
BY DEF Next, InternalStep, Builder, allVars

LEMMA LifeTypeNext ==
  ASSUME TypeOK, [Next]_allVars
  PROVE  LifeTypeOK'
<1> USE DEF TypeOK, LifeTypeOK, Processes
<1>1. CASE UNCHANGED lifeVars
  BY <1>1 DEF lifeVars
<1>2. CASE Leave \/ Exit \/ LauncherCleans \/ LauncherKilled
  BY <1>2 DEF Leave, Exit, LauncherCleans, LauncherKilled
<1>3. CASE Die
  BY <1>3 DEF Die, RunnerTypeOK
<1>4. CASE \E a \in Processes : CleanSession(a)
  BY <1>4 DEF CleanSession, CleanSrc, CleanSharedLibs, CleanArchives, Remove
<1> QED BY <1>1, <1>2, <1>3, <1>4, LifeShape

LEMMA LivesNext ==
  ASSUME TypeOK, Roles, Lives, [Next]_allVars
  PROVE  Lives'
<1> USE DEF TypeOK, Lives, Processes, lifeVars
<1>1. CASE InternalStep
  <2>1. CASE RunStep /\ UNCHANGED <<execHandlerVars, frontVars>>
    <3>1. CASE ConvertFails \/ Converted \/ (\E n \in Names : Register(n)) \/ Registered
               \/ WriteSrc \/ InstallDeps \/ Load
      BY <1>1, <3>1 DEF InternalStep, ConvertFails, Converted, Register, Registered, WriteSrc,
                        InstallDeps, Load, Return, fileVars, sessionVars
    <3>2. CASE StartBuild \/ AwaitBuild
      BY <1>1, <3>2 DEF InternalStep, StartBuild, AwaitBuild, Return, sessionVars
    <3> QED BY <2>1, <3>1, <3>2 DEF RunStep
  <2>2. CASE KernelStep
    BY <1>1, <2>2 DEF InternalStep, KernelStep, KernelCallsRun, KernelRunEnds, RunCalled,
                      RunConsumed, runnerVars, sessionVars, runVars, fileVars
  <2>3. CASE FrontStep
    BY <1>1, <2>3 DEF InternalStep, FrontStep, LoopChecksContext, WatcherStarts, RunEnds,
                      NextFile, FileEnds, RunCalled, RunConsumed, runnerVars, sessionVars,
                      runVars, fileVars
  <2> QED BY <1>1, <2>1, <2>2, <2>3 DEF InternalStep
<1>2. CASE life = "up" /\ (Environment \/ CodeReturns) /\ UNCHANGED lifeVars
  BY <1>2 DEF Environment, KernelRequest, ServerCancels, NextReturns, Interrupt,
              TerminationSignal, RunCalled, runnerVars, sessionVars, runVars, fileVars,
              CodeReturns, ExecReturns, Return
<1>3. CASE Builder
  BY <1>3 DEF Builder, BuilderInstalls, BuilderEnds, sessionVars, runVars
<1>4. CASE Leave
  BY <1>4 DEF Leave, runnerVars, fileVars, Roles, Idle
<1>5. CASE LauncherCleans
  BY <1>5 DEF LauncherCleans, runnerVars, fileVars, sessionVars, runVars
<1>6. CASE LauncherKilled
  BY <1>6 DEF LauncherKilled, fileVars, sessionVars, runVars
<1>7. CASE \E a \in Processes : CleanSession(a)
  BY <1>7 DEF CleanSession, CleanSrc, CleanSharedLibs, CleanArchives, sessionVars, runVars
<1>8. CASE Exit \/ Die
  BY <1>8 DEF Exit, Die, fileVars
<1>9. CASE UNCHANGED allVars
  BY <1>9 DEF allVars, runnerVars, sessionVars, runVars, fileVars
<1> QED BY <1>1, <1>2, <1>3, <1>4, <1>5, <1>6, <1>7, <1>8, <1>9 DEF Next

LEMMA RemoveRemoves ==
  ASSUME NEW a, NEW kind, Remove(a, kind), orphans' = orphans
  PROVE  Removed(a, kind)'
BY DEF Remove, Removed

\* Nobody writes files while lgo-internal cleans, and afterwards only what outlived it.
LEMMA CleanedNext ==
  ASSUME TypeOK, Lives, Cleaned, [Next]_allVars
  PROVE  Cleaned'
<1> USE DEF TypeOK, Lives, Cleaned, Removed, Processes
<1>1. CASE InternalStep \/ (life = "up" /\ (Environment \/ CodeReturns) /\ UNCHANGED lifeVars)
  BY <1>1 DEF InternalStep, lifeVars
<1>2. CASE Builder
  <2>1. PICK e \in Runs : BuilderInstalls(e) \/ BuilderEnds(e)
    BY <1>2 DEF Builder
  <2>2. files' = files \/ \E k \in {"archive", "lib"} : files' = files \cup {<<k, e>>}
    BY <2>1 DEF BuilderInstalls, BuilderEnds
  <2>3. files' # files => e \in builders
    BY <2>1 DEF BuilderInstalls, BuilderEnds
  <2>4. CASE life \in {"up", "leaving"}
    BY <1>2, <2>3, <2>4 DEF Builder, lifeVars
  <2>5. CASE life = "gone"
    BY <1>2, <2>2, <2>3, <2>5 DEF Builder, lifeVars
  <2> QED BY <2>4, <2>5
<1>3. CASE Leave
  BY <1>3 DEF Leave, runnerVars, fileVars
<1>4. CASE LauncherCleans
  BY <1>4 DEF LauncherCleans, runnerVars, fileVars
<1>5. CASE LauncherKilled
  BY <1>5 DEF LauncherKilled, fileVars
<1>6. CASE \E a \in Processes : CleanSession(a)
  <2>1. PICK a \in Processes : CleanSession(a)
    BY <1>6
  <2>2. files' \subseteq files /\ failed \subseteq failed' /\ orphans' = orphans
    BY <2>1 DEF CleanSession, CleanSrc, CleanSharedLibs, CleanArchives, Remove
  <2>3. ASSUME NEW b \in Processes, NEW kind, Removed(b, kind) PROVE Removed(b, kind)'
    BY <2>2, <2>3
  <2>4. CASE CleanSrc(a)
    <3>1. Removed(a, "src")' /\ cpc' = [cpc EXCEPT ![a] = "libs"]
      BY <2>2, <2>4, RemoveRemoves DEF CleanSrc
    <3> QED BY <2>3, <3>1
  <2>5. CASE CleanSharedLibs(a)
    <3>1. /\ Removed(a, "lib")'
          /\ \/ cpc' = [cpc EXCEPT ![a] = "archives"]
             \/ cpc' = [cpc EXCEPT ![a] = "done"] /\ Removed(a, "archive")'
      <4>1. CASE Remove(a, "lib") /\ cpc' = [cpc EXCEPT ![a] = "archives"]
        BY <2>2, <4>1, RemoveRemoves
      <4>2. CASE /\ failed' = failed \cup {<<a, "lib">>, <<a, "archive">>}
                 /\ cpc' = [cpc EXCEPT ![a] = "done"]
        BY <2>2, <4>2
      <4> QED BY <2>5, <4>1, <4>2 DEF CleanSharedLibs
    <3>2. cpc[a] = "libs"
      BY <2>5 DEF CleanSharedLibs
    <3> QED BY <2>3, <3>1, <3>2
  <2>6. CASE CleanArchives(a)
    <3>1. Removed(a, "archive")' /\ cpc' = [cpc EXCEPT ![a] = "done"]
      BY <2>2, <2>6, RemoveRemoves DEF CleanArchives
    <3>2. cpc[a] = "archives"
      BY <2>6 DEF CleanArchives
    <3> QED BY <2>3, <3>1, <3>2
  <2> QED BY <2>1, <2>4, <2>5, <2>6 DEF CleanSession
<1>7. CASE Exit
  BY <1>7 DEF Exit, fileVars
<1>8. CASE Die
  BY <1>8 DEF Die, fileVars
<1>9. CASE UNCHANGED allVars
  BY <1>9 DEF allVars, runnerVars, fileVars, lifeVars
<1> QED BY <1>1, <1>2, <1>3, <1>4, <1>5, <1>6, <1>7, <1>8, <1>9 DEF Next

-----------------------------------------------------------------------------
ReaderStates == {"none", "read", "send", "ended", "gone"}

\* The functions of the handler, with what is in a pipe: no chunk or one.
PipesTyped ==
  /\ std \in [Streams -> 0 .. MaxRuns] /\ origs \in [Streams -> 0 .. MaxRuns]
  /\ writeEnd \in [Requests -> [Streams -> {"none", "open", "closed"}]]
  /\ inPipe \in [Requests -> [Streams -> {<<>>} \cup {<<c>> : c \in Chunks}]]
  /\ reader \in [Requests -> [Streams -> ReaderStates]]
  /\ buf \in [Requests -> [Streams -> Chunks]]
  /\ streamed \in [Requests -> SUBSET Chunks] /\ accepted \in [Requests -> SUBSET Chunks]
HandlerTyped ==
  /\ hcount \in 0 .. MaxRuns /\ awaited \in 0 .. 2
  /\ hpc \in {Idle, "stderr", "run", "running", "closeOut", "closeErr", "wait"}
  /\ replied \in [Requests -> {"none", "ok", "error"}]
CodeTyped ==
  /\ children \subseteq Requests /\ late \subseteq Runs
  /\ writing \in [Runs -> {NoFile} \cup [s : Streams, r : 0 .. MaxRuns]]
  /\ written \in [Runs -> 0 .. MaxWrites]

LEMMA Typed ==
  ASSUME TypeOK, Shapes
  PROVE  PipesTyped /\ HandlerTyped /\ CodeTyped
BY DEF TypeOK, ExecHandlerTypeOK, Shapes, ReaderStates, PipesTyped, HandlerTyped, CodeTyped

LEMMA TypedBack ==
  ASSUME PipesTyped, HandlerTyped, CodeTyped
  PROVE  ExecHandlerTypeOK /\ Shapes
BY DEF PipesTyped, HandlerTyped, CodeTyped, ExecHandlerTypeOK, Shapes, ReaderStates

LEMMA OneChunk ==
  ASSUME NEW q \in {<<>>} \cup {<<c>> : c \in Chunks}, q # <<>>
  PROVE  Head(q) \in Chunks /\ Tail(q) = <<>>
<1>1. PICK c \in Chunks : q = <<c>>
  OBVIOUS
<1> QED BY <1>1

LEMMA PipeTypes ==
  ASSUME PipesTyped, NEW r \in Requests, NEW s \in Streams, NEW chunk \in Chunks,
         \/ OpenPipe(r, s)
         \/ ClosePipe(r, s) /\ UNCHANGED origs
         \/ (ReaderReads(r, s) \/ ReaderSends(r, s) \/ ReaderEnds(r, s) \/ WriteInto(r, s, chunk))
            /\ UNCHANGED <<std, origs>>
  PROVE  PipesTyped'
<1> USE RunsAssumption DEF PipesTyped, ReaderStates, Requests
<1>1. CASE OpenPipe(r, s)
  BY <1>1 DEF OpenPipe
<1>2. CASE ClosePipe(r, s) /\ UNCHANGED origs
  BY <1>2 DEF ClosePipe
<1>3. CASE ReaderReads(r, s) /\ UNCHANGED <<std, origs>>
  BY <1>3, OneChunk DEF ReaderReads
<1>4. CASE ReaderSends(r, s) /\ UNCHANGED <<std, origs>>
  <2>1. buf[r][s] \in Chunks /\ Failure \in Chunks
    BY DEF Chunks, Failure
  <2> QED BY <1>4, <2>1 DEF ReaderSends
<1>6. CASE ReaderEnds(r, s) /\ UNCHANGED <<std, origs>>
  BY <1>6 DEF ReaderEnds
<1>5. CASE WriteInto(r, s, chunk) /\ UNCHANGED <<std, origs>>
  BY <1>5 DEF WriteInto
<1> QED BY <1>1, <1>2, <1>3, <1>4, <1>5, <1>6
-----------------------------------------------------------------------------
(***************************************************************************)
(* What a step does to the pipes.                                          *)
(***************************************************************************)
Writes ==
  \E r \in Requests, s \in Streams, c \in Chunks :
    WriteInto(r, s, c) /\ (writeEnd[r][s] = "open" \/ r \in children)

ChildrenMove ==
  \/ children' \subseteq children
  \/ hpc = "running" /\ children' = children \cup {hcount}

HandlerMoves ==
  \/ HandleExecuteRequest \/ OpenStderr \/ CallRun \/ CloseOut \/ CloseErr
  \/ (\E s \in Streams : AwaitReader(s)) \/ SendReply \/ RunReturned

LEMMA CodeMoves ==
  ASSUME TypeOK, Shapes, CodeStep
  PROVE  /\ UNCHANGED handlerVars
         /\ \/ UNCHANGED pipeVars /\ ChildrenMove
            \/ UNCHANGED children /\ Writes
<1>1. ASSUME NEW e \in Runs, WriteFile(e)
      PROVE  UNCHANGED handlerVars /\ UNCHANGED children /\ (UNCHANGED pipeVars \/ Writes)
  <2> DEFINE f == writing[e]
  <2>1. CASE f.r # 0 /\ writeEnd[f.r][f.s] = "open"
    <3>1. f.r \in Requests /\ f.s \in Streams /\ e \in Chunks
      BY <1>1, <2>1 DEF WriteFile, Shapes, Requests, Chunks
    <3>2. WriteInto(f.r, f.s, e)
      BY <1>1, <2>1 DEF WriteFile
    <3> QED BY <1>1, <2>1, <3>1, <3>2 DEF Writes, WriteFile
  <2>2. CASE ~(f.r # 0 /\ writeEnd[f.r][f.s] = "open")
    BY <1>1, <2>2 DEF WriteFile
  <2> QED BY <2>1, <2>2
<1>2. ASSUME NEW e \in Runs, NEW s \in CodeStreams, ReadFile(e, s)
      PROVE  UNCHANGED <<handlerVars, pipeVars, children>>
  BY <1>2 DEF ReadFile
<1>3. CASE LeaveGoroutine \/ StartChild
  BY <1>3 DEF LeaveGoroutine, StartChild, ChildrenMove
<1>4. CASE ChildWrites
  <2>1. PICK r \in children : \E s \in CodeStreams : WriteInto(r, s, Child)
    BY <1>4 DEF ChildWrites
  <2>2. PICK s \in CodeStreams : WriteInto(r, s, Child)
    BY <2>1
  <2>3. r \in Requests /\ s \in Streams /\ Child \in Chunks
    BY WritesAssumption DEF TypeOK, ExecHandlerTypeOK, Chunks
  <2> QED BY <1>4, <2>2, <2>3 DEF Writes, ChildWrites, codeVars
<1>5. CASE ChildEnds
  BY <1>5 DEF ChildEnds, ChildrenMove
<1> QED BY <1>1, <1>2, <1>3, <1>4, <1>5 DEF CodeStep, ChildrenMove

LEMMA Moves ==
  ASSUME TypeOK, Shapes, [Next]_allVars
  PROVE  \/ UNCHANGED <<handlerVars, pipeVars>> /\ ChildrenMove
         \/ UNCHANGED <<handlerVars, children>> /\ Writes
         \/ UNCHANGED <<handlerVars, children>> /\ ReaderStep
         \/ UNCHANGED children /\ HandlerMoves
         \/ ExecHandlerForgets
<1>1. CASE UNCHANGED hvars
  BY <1>1 DEF hvars, ChildrenMove
<1>2. CASE HandlerStep \/ HandleExecuteRequest \/ CallRun \/ RunReturned
  BY <1>2 DEF HandlerStep, HandlerMoves, HandleExecuteRequest, OpenStderr, CallRun, RunReturned,
              CloseOut, CloseErr, AwaitReader, SendReply, codeVars
<1>3. CASE ReaderStep /\ UNCHANGED <<handlerVars, codeVars>>
  BY <1>3 DEF codeVars
<1>4. CASE CodeStep
  BY <1>4, CodeMoves
<1> QED BY <1>1, <1>2, <1>3, <1>4, HandlerShape
-----------------------------------------------------------------------------
(***************************************************************************)
(* Where the handler is.                                                   *)
(***************************************************************************)
\* Run returns to the handler at work, which writes about a failure into its own pipe.
LEMMA RunReturnedHere ==
  ASSUME PipesTyped, AtWork, Redirected, RunReturned
  PROVE  /\ hcount \in Requests /\ hcount' = hcount /\ Ends("open", "open")
         /\ UNCHANGED pipeVars \/ WriteInto(hcount, "err", Failure)
         /\ outcome[execCount] # "nil" => WriteInto(hcount, "err", Failure)
BY DEF RunReturned, AtWork, Redirected, Idle

LEMMA PipesTypedNext ==
  ASSUME PipesTyped, HandlerTyped, AtWork, Redirected, TypeOK, Shapes, [Next]_allVars
  PROVE  PipesTyped'
<1>0. Failure \in Chunks
  BY DEF Chunks, Failure
<1>1. CASE UNCHANGED <<pipeVars, std, origs>>
  BY <1>1 DEF PipesTyped, pipeVars
<1>2. CASE UNCHANGED handlerVars /\ Writes
  BY <1>2, PipeTypes DEF Writes, handlerVars
<1>3. CASE UNCHANGED handlerVars /\ ReaderStep
  BY <1>0, <1>3, PipeTypes DEF ReaderStep, handlerVars
<1>4. CASE HandlerMoves
  <2>1. CASE HandleExecuteRequest
    <3> DEFINE r == hcount'
    <3>1. r \in Requests
      BY <2>1, RunsAssumption DEF HandleExecuteRequest, HandlerTyped, Requests
    <3> HIDE DEF r
    <3>2. CASE OpenPipe(r, "out")
      BY <1>0, <3>1, <3>2, PipeTypes DEF Streams
    <3> QED BY <1>1, <2>1, <3>2 DEF HandleExecuteRequest, r
  <2>2. CASE OpenStderr
    <3>1. hcount \in Requests
      BY <2>2 DEF OpenStderr, AtWork, Idle
    <3>2. CASE OpenPipe(hcount, "err")
      BY <1>0, <3>1, <3>2, PipeTypes DEF Streams
    <3> QED BY <1>1, <2>2, <3>2 DEF OpenStderr
  <2>3. CASE CallRun \/ SendReply
    BY <1>1, <2>3 DEF CallRun, SendReply, pipeVars
  <2>4. CASE CloseOut \/ CloseErr
    <3>1. hcount \in Requests
      BY <2>4 DEF CloseOut, CloseErr, AtWork, Idle
    <3> QED BY <1>0, <2>4, <3>1, PipeTypes DEF CloseOut, CloseErr, Streams
  <2>5. CASE \E s \in Streams : AwaitReader(s)
    <3>1. PICK s \in Streams : AwaitReader(s)
      BY <2>5
    <3>2. hcount \in Requests /\ "gone" \in ReaderStates
      BY <3>1 DEF AwaitReader, AtWork, Idle, ReaderStates
    <3>3. reader' \in [Requests -> [Streams -> ReaderStates]]
      BY <3>1, <3>2 DEF AwaitReader, PipesTyped
    <3> QED BY <3>1, <3>3 DEF AwaitReader, PipesTyped
  <2>7. CASE RunReturned
    <3>1. UNCHANGED <<std, origs>>
      BY <2>7 DEF RunReturned
    <3>2. CASE WriteInto(hcount, "err", Failure)
      BY <1>0, <2>7, <3>1, <3>2, RunReturnedHere, PipeTypes DEF Streams
    <3> QED BY <1>1, <2>7, <3>1, <3>2, RunReturnedHere
  <2> QED BY <1>4, <2>1, <2>2, <2>3, <2>4, <2>5, <2>7 DEF HandlerMoves
<1>5. CASE ExecHandlerForgets
  BY <1>0, <1>5, RunsAssumption DEF ExecHandlerForgets, PipesTyped, ReaderStates
<1> QED BY <1>1, <1>2, <1>3, <1>4, <1>5, Moves DEF handlerVars

LEMMA HandlerTypedNext ==
  ASSUME HandlerTyped, TypeOK, Shapes, [Next]_allVars
  PROVE  HandlerTyped'
<1> USE RunsAssumption DEF HandlerTyped
<1>1. CASE UNCHANGED handlerVars
  BY <1>1 DEF handlerVars
<1>2. CASE HandleExecuteRequest
  BY <1>2 DEF HandleExecuteRequest, Reply
<1>3. CASE OpenStderr \/ SendReply
  BY <1>3 DEF OpenStderr, SendReply, Reply
<1>4. CASE CallRun \/ CloseOut \/ CloseErr \/ RunReturned
  BY <1>4 DEF CallRun, CloseOut, CloseErr, RunReturned
<1>5. CASE \E s \in Streams : AwaitReader(s)
  BY <1>5 DEF AwaitReader
<1>6. CASE ExecHandlerForgets
  BY <1>6 DEF ExecHandlerForgets
<1> QED BY <1>1, <1>2, <1>3, <1>4, <1>5, <1>6, Moves DEF HandlerMoves

LEMMA CodeTypedNext ==
  ASSUME PipesTyped, CodeTyped, AtWork, TypeOK, Numbered, [Next]_allVars
  PROVE  CodeTyped'
<1> USE RunsAssumption DEF CodeTyped
<1>1. CASE UNCHANGED codeVars
  BY <1>1 DEF codeVars
<1>2. CASE CodeStep
  <2>1. CASE \E e \in Runs : WriteFile(e)
    BY <2>1 DEF WriteFile
  <2>2. CASE \E e \in Runs : \E s \in CodeStreams : ReadFile(e, s)
    BY <2>2, WritesAssumption DEF ReadFile, PipesTyped
  <2>3. CASE LeaveGoroutine
    BY <2>3 DEF LeaveGoroutine, Numbered
  <2>4. CASE StartChild
    BY <2>4 DEF StartChild, AtWork, Idle
  <2>5. CASE ChildWrites \/ ChildEnds
    BY <2>5 DEF ChildWrites, ChildEnds, codeVars
  <2> QED BY <1>2, <2>1, <2>2, <2>3, <2>4, <2>5 DEF CodeStep
<1>3. CASE CodeReturns
  BY <1>3 DEF CodeReturns, ExecReturns, Numbered
<1>4. CASE ExecHandlerForgets
  BY <1>4, WritesAssumption DEF ExecHandlerForgets
<1>5. UNCHANGED codeVars \/ CodeStep \/ CodeReturns \/ ExecHandlerForgets
  <2> USE DEF execHandlerVars
  <2>1. CASE InternalStep
    <3>1. CASE KernelStep
      BY <3>1 DEF KernelStep, KernelCallsRun, KernelRunEnds, HandlerStep, CallRun, RunReturned,
                  OpenStderr, CloseOut, CloseErr, AwaitReader, SendReply
    <3> QED BY <2>1, <3>1 DEF InternalStep
  <2>2. CASE Environment
    BY <2>2 DEF Environment, KernelRequest, HandleExecuteRequest, ServerCancels
  <2>3. CASE Leave \/ LauncherCleans \/ LauncherKilled \/ \E a \in Processes : CleanSession(a)
    BY <2>3 DEF Leave, LauncherCleans, LauncherKilled, CleanSession
  <2>4. CASE Exit \/ Die
    BY <2>4 DEF Exit, Die, Forgets
  <2> QED BY <2>1, <2>2, <2>3, <2>4 DEF Next, Builder, allVars
<1> QED BY <1>1, <1>2, <1>3, <1>4, <1>5
-----------------------------------------------------------------------------
(***************************************************************************)
(* The request at work and the two redirected variables.                   *)
(***************************************************************************)
\* Readers, writers and children move chunks only.
LEMMA ChunkMoves ==
  ASSUME UNCHANGED handlerVars, Writes \/ ReaderStep
  PROVE  UNCHANGED writeEnd
BY DEF Writes, ReaderStep, WriteInto, ReaderReads, ReaderSends, ReaderEnds

LEMMA OneEndMoves ==
  ASSUME PipesTyped, NEW r \in Requests, NEW s \in Streams, NEW end,
         writeEnd' = [writeEnd EXCEPT ![r][s] = end]
  PROVE  /\ writeEnd'[r][s] = end
         /\ \A t \in Streams : t # s => writeEnd'[r][t] = writeEnd[r][t]
         /\ \A q \in Requests : q # r => writeEnd'[q] = writeEnd[q]
BY DEF PipesTyped

LEMMA AtWorkNext ==
  ASSUME PipesTyped, HandlerTyped, AtWork, Redirected, TypeOK, Shapes, [Next]_allVars
  PROVE  AtWork'
<1> USE RunsAssumption DEF AtWork, Idle, Ends, Requests, Streams
<1>1. CASE UNCHANGED <<handlerVars, writeEnd>>
  BY <1>1 DEF handlerVars
<1>2. CASE HandlerMoves
  <2> USE DEF PipesTyped, HandlerTyped
  <2>1. CASE HandleExecuteRequest
    <3>1. hcount \in 0 .. MaxRuns /\ hcount' = hcount + 1 /\ hcount' \in 1 .. MaxRuns
      BY <2>1 DEF HandleExecuteRequest
    <3>2. CASE OpenPipe(hcount', "out") /\ hpc' = "stderr" /\ UNCHANGED replied
      <4> DEFINE r == hcount'
      <4>1. r \in 1 .. MaxRuns /\ writeEnd' = [writeEnd EXCEPT ![r]["out"] = "open"]
        BY <3>1, <3>2 DEF OpenPipe
      <4>2. /\ writeEnd'[r]["out"] = "open" /\ writeEnd'[r]["err"] = writeEnd[r]["err"]
            /\ \A q \in 1 .. MaxRuns : q # r => writeEnd'[q] = writeEnd[q]
        <5> HIDE DEF r
        <5> QED BY <4>1, OneEndMoves
      <4>3. writeEnd[r]["out"] = "none" /\ writeEnd[r]["err"] = "none" /\ replied[r] = "none"
        BY <3>1
      <4>4. \A q \in 1 .. MaxRuns : q > r =>
              /\ replied'[q] = "none"
              /\ \A s \in {"out", "err"} : writeEnd'[q][s] = "none"
        <5> HIDE DEF PipesTyped, HandlerTyped
        <5> TAKE q \in 1 .. MaxRuns
        <5> HAVE q > r
        <5>1. q > hcount /\ q # r
          BY <3>1
        <5>2. replied[q] = "none" /\ \A s \in {"out", "err"} : writeEnd[q][s] = "none"
          BY <5>1
        <5> QED BY <3>2, <4>2, <5>1, <5>2
      <4>5. writeEnd'[r]["out"] = "open" /\ writeEnd'[r]["err"] = "none" /\ replied'[r] = "none"
        BY <3>2, <4>2, <4>3
      <4> QED BY <3>1, <3>2, <4>4, <4>5
    <3>3. CASE Reply("error") /\ UNCHANGED <<pipeVars, std, origs>>
      BY <2>1, <3>1, <3>3 DEF Reply, pipeVars
    <3> QED BY <2>1, <3>2, <3>3 DEF HandleExecuteRequest
  <2>2. CASE OpenStderr
    <3>1. CASE OpenPipe(hcount, "err") /\ hpc' = "run" /\ UNCHANGED <<hcount, replied>>
      <4>1. /\ writeEnd'[hcount]["err"] = "open"
            /\ writeEnd'[hcount]["out"] = writeEnd[hcount]["out"]
            /\ \A q \in 1 .. MaxRuns : q # hcount => writeEnd'[q] = writeEnd[q]
        BY <2>2, <3>1, OneEndMoves DEF OpenStderr, OpenPipe
      <4>2. \A q \in 1 .. MaxRuns : q > hcount =>
              /\ replied'[q] = "none"
              /\ \A s \in {"out", "err"} : writeEnd'[q][s] = "none"
        <5> HIDE DEF PipesTyped, HandlerTyped
        <5> TAKE q \in 1 .. MaxRuns
        <5> HAVE q > hcount
        <5>1. q # hcount
          BY <2>2 DEF OpenStderr
        <5>2. replied[q] = "none" /\ \A s \in {"out", "err"} : writeEnd[q][s] = "none"
          OBVIOUS
        <5> QED BY <3>1, <4>1, <5>1, <5>2
      <4>3. writeEnd'[hcount]["out"] = "open" /\ replied'[hcount] = "none"
        BY <2>2, <3>1, <4>1 DEF OpenStderr
      <4>4. hcount \in 1 .. MaxRuns
        BY <2>2 DEF OpenStderr
      <4> QED BY <3>1, <4>1, <4>2, <4>3, <4>4
    <3>2. CASE hcount' = hcount /\ Reply("error") /\ UNCHANGED <<pipeVars, std, origs>>
      BY <2>2, <3>2 DEF OpenStderr, Reply, pipeVars
    <3> QED BY <2>2, <3>1, <3>2 DEF OpenStderr
  <2>3. CASE CallRun
    BY <2>3 DEF CallRun, pipeVars
  <2>4. CASE CloseOut
    <3>1. /\ writeEnd'[hcount]["out"] = "closed"
          /\ writeEnd'[hcount]["err"] = writeEnd[hcount]["err"]
          /\ \A q \in 1 .. MaxRuns : q # hcount => writeEnd'[q] = writeEnd[q]
      BY <2>4, OneEndMoves DEF CloseOut, ClosePipe
    <3> QED BY <2>4, <3>1 DEF CloseOut
  <2>5. CASE CloseErr
    BY <2>5 DEF CloseErr, ClosePipe
  <2>6. CASE \E s \in Streams : AwaitReader(s)
    BY <2>6 DEF AwaitReader
  <2>7. CASE SendReply
    BY <2>7 DEF SendReply, Reply, pipeVars
  <2>8. CASE RunReturned
    BY <2>8 DEF RunReturned, pipeVars, WriteInto
  <2> QED BY <1>2, <2>1, <2>2, <2>3, <2>4, <2>5, <2>6, <2>7, <2>8 DEF HandlerMoves
<1>3. CASE ExecHandlerForgets
  BY <1>3 DEF ExecHandlerForgets
<1> QED BY <1>1, <1>2, <1>3, Moves, ChunkMoves DEF pipeVars

\* A request whose second pipe failed stays as it is.
LEMMA BrokenStays ==
  ASSUME PipesTyped, HandlerTyped, AtWork, HandlerMoves
  PROVE  Broken \subseteq Broken'
<1> USE RunsAssumption DEF AtWork, Idle, Ends, Requests, Streams, PipesTyped, HandlerTyped
<1> SUFFICES ASSUME NEW r \in Broken PROVE r \in Broken'
  OBVIOUS
<1>1. r \in Requests /\ writeEnd[r]["out"] = "open" /\ writeEnd[r]["err"] = "none"
      /\ replied[r] = "error"
  BY DEF Broken
<1>2. r <= hcount /\ (hpc # Idle => r # hcount)
  BY <1>1
<1>3. writeEnd'[r] = writeEnd[r] /\ replied'[r] = replied[r]
  <2>1. CASE HandleExecuteRequest
    BY <1>1, <1>2, <2>1 DEF HandleExecuteRequest, OpenPipe, Reply, pipeVars
  <2>2. CASE OpenStderr
    BY <1>1, <1>2, <2>2 DEF OpenStderr, OpenPipe, Reply, pipeVars
  <2>3. CASE CloseOut \/ CloseErr
    BY <1>1, <1>2, <2>3 DEF CloseOut, CloseErr, ClosePipe
  <2>4. CASE CallRun \/ SendReply
    BY <1>1, <1>2, <2>4 DEF CallRun, SendReply, Reply, pipeVars
  <2>5. CASE RunReturned
    BY <2>5 DEF RunReturned, WriteInto, pipeVars
  <2>6. CASE \E s \in Streams : AwaitReader(s)
    BY <2>6 DEF AwaitReader
  <2> QED BY <2>1, <2>2, <2>3, <2>4, <2>5, <2>6 DEF HandlerMoves
<1> QED BY <1>1, <1>3 DEF Broken

LEMMA RedirectedNext ==
  ASSUME PipesTyped, HandlerTyped, AtWork, Redirected, TypeOK, Shapes, [Next]_allVars
  PROVE  Redirected'
<1> USE DEF Redirected, Idle, Streams
<1>1. CASE UNCHANGED <<handlerVars, writeEnd>>
  BY <1>1 DEF handlerVars, Broken
<1>2. CASE HandlerMoves
  <2>0. Broken \subseteq Broken'
    BY <1>2, BrokenStays
  <2> USE DEF PipesTyped
  <2>1. CASE HandleExecuteRequest
    BY <2>0, <2>1 DEF HandleExecuteRequest, OpenPipe, Reply
  <2>2. CASE OpenStderr
    <3>1. CASE OpenPipe(hcount, "err") /\ hpc' = "run" /\ UNCHANGED <<hcount, replied>>
      BY <2>0, <2>2, <3>1 DEF OpenStderr, OpenPipe
    <3>2. CASE hcount' = hcount /\ Reply("error") /\ UNCHANGED <<pipeVars, std, origs>>
      <4>1. hcount \in Broken'
        BY <2>2, <3>2 DEF OpenStderr, Reply, Broken, AtWork, Ends, pipeVars, HandlerTyped
      <4> QED BY <2>0, <2>2, <3>2, <4>1 DEF OpenStderr, Reply
    <3> QED BY <2>2, <3>1, <3>2 DEF OpenStderr
  <2>3. CASE CallRun
    BY <2>0, <2>3 DEF CallRun
  <2>4. CASE CloseOut
    BY <2>0, <2>4 DEF CloseOut, ClosePipe
  <2>5. CASE CloseErr
    BY <2>0, <2>5 DEF CloseErr, ClosePipe
  <2>6. CASE \E s \in Streams : AwaitReader(s)
    BY <2>0, <2>6 DEF AwaitReader
  <2>7. CASE SendReply
    BY <2>0, <2>7 DEF SendReply, Reply
  <2>8. CASE RunReturned
    BY <2>0, <2>8 DEF RunReturned
  <2> QED BY <1>2, <2>1, <2>2, <2>3, <2>4, <2>5, <2>6, <2>7, <2>8 DEF HandlerMoves
<1>3. CASE ExecHandlerForgets
  BY <1>3 DEF ExecHandlerForgets
<1> QED BY <1>1, <1>2, <1>3, Moves, ChunkMoves DEF pipeVars
-----------------------------------------------------------------------------
(***************************************************************************)
(* Chunks on their way.                                                    *)
(***************************************************************************)
\* A step on one pipe, which brings new chunks and delivers others.
LEMMA CarriedAtOne ==
  ASSUME Carried, NEW r \in Requests, NEW s \in Streams, NEW brought, NEW delivered,
         \A q \in Requests : \A t \in Streams :
           q # r \/ t # s => InTransit(q, t)' = InTransit(q, t),
         InTransit(r, s)' \cup delivered = InTransit(r, s) \cup brought,
         accepted'[r] = accepted[r] \cup brought, streamed'[r] = streamed[r] \cup delivered,
         \A q \in Requests : q # r => accepted'[q] = accepted[q] /\ streamed'[q] = streamed[q]
  PROVE  Carried'
<1> SUFFICES ASSUME NEW q \in Requests
             PROVE  accepted'[q] = streamed'[q] \cup InTransit(q, "out")' \cup InTransit(q, "err")'
  BY DEF Carried
<1>1. accepted[q] = streamed[q] \cup InTransit(q, "out") \cup InTransit(q, "err")
  BY DEF Carried
<1>2. CASE q # r
  BY <1>1, <1>2 DEF Streams
<1>3. CASE q = r /\ s = "out"
  <2>1. InTransit(q, "err")' = InTransit(q, "err")
    BY <1>3 DEF Streams
  <2> QED BY <1>1, <1>3, <2>1
<1>4. CASE q = r /\ s = "err"
  <2>1. InTransit(q, "out")' = InTransit(q, "out")
    BY <1>4 DEF Streams
  <2> QED BY <1>1, <1>4, <2>1
<1> QED BY <1>2, <1>3, <1>4 DEF Streams

LEMMA CarriedByWrite ==
  ASSUME PipesTyped, Carried, NEW r \in Requests, NEW s \in Streams, NEW c \in Chunks,
         WriteInto(r, s, c)
  PROVE  Carried'
<1>1. /\ inPipe[r][s] = <<>> /\ inPipe'[r][s] = <<c>>
      /\ \A q \in Requests : \A t \in Streams :
           q # r \/ t # s => inPipe'[q][t] = inPipe[q][t]
      /\ accepted'[r] = accepted[r] \cup {c}
      /\ \A q \in Requests : q # r => accepted'[q] = accepted[q]
      /\ UNCHANGED <<reader, buf, streamed>>
  BY DEF WriteInto, PipesTyped
<1>2. InTransit(r, s)' \cup {} = InTransit(r, s) \cup {c}
  BY <1>1 DEF InTransit
<1>3. \A q \in Requests : \A t \in Streams :
        q # r \/ t # s => InTransit(q, t)' = InTransit(q, t)
  BY <1>1 DEF InTransit
<1>4. streamed'[r] = streamed[r] \cup {}
  BY <1>1
<1>5. accepted'[r] = accepted[r] \cup {c}
  BY <1>1
<1>6. \A q \in Requests : q # r => accepted'[q] = accepted[q] /\ streamed'[q] = streamed[q]
  BY <1>1
<1>7. ASSUME NEW b, NEW d, InTransit(r, s)' \cup d = InTransit(r, s) \cup b,
             accepted'[r] = accepted[r] \cup b, streamed'[r] = streamed[r] \cup d
      PROVE  Carried'
  BY <1>3, <1>6, <1>7, CarriedAtOne
<1> QED BY <1>2, <1>4, <1>5, <1>7

LEMMA CarriedByReader ==
  ASSUME PipesTyped, Carried, NEW r \in Requests, NEW s \in Streams,
         ReaderReads(r, s) \/ ReaderSends(r, s) \/ ReaderEnds(r, s)
  PROVE  Carried'
<1>0. accepted'[r] = accepted[r] \cup {} /\ UNCHANGED accepted
  BY DEF ReaderReads, ReaderSends, ReaderEnds
<1>1. CASE ReaderReads(r, s)
  <2>1. /\ inPipe[r][s] # <<>> /\ inPipe'[r][s] = Tail(inPipe[r][s])
        /\ reader[r][s] = "read" /\ reader'[r][s] = "send" /\ buf'[r][s] = Head(inPipe[r][s])
        /\ \A q \in Requests : \A t \in Streams :
             q # r \/ t # s => /\ inPipe'[q][t] = inPipe[q][t] /\ reader'[q][t] = reader[q][t]
                               /\ buf'[q][t] = buf[q][t]
        /\ UNCHANGED streamed
    BY <1>1 DEF ReaderReads, PipesTyped
  <2>2. inPipe'[r][s] = <<>>
    BY <2>1, OneChunk DEF PipesTyped
  <2>3. InTransit(r, s)' \cup {} = InTransit(r, s) \cup {}
    BY <2>1, <2>2 DEF InTransit
  <2>4. \A q \in Requests : \A t \in Streams :
          q # r \/ t # s => InTransit(q, t)' = InTransit(q, t)
    BY <2>1 DEF InTransit
  <2>5. streamed'[r] = streamed[r] \cup {}
    BY <2>1
  <2>6. \A q \in Requests : q # r => accepted'[q] = accepted[q] /\ streamed'[q] = streamed[q]
    BY <1>0, <2>1
  <2>7. accepted'[r] = accepted[r] \cup {}
    BY <1>0
  <2> QED BY <2>3, <2>4, <2>5, <2>6, <2>7, CarriedAtOne
<1>2. CASE ReaderSends(r, s)
  <2>1. /\ reader[r][s] = "send" /\ reader'[r][s] = "read"
        /\ \A q \in Requests : \A t \in Streams :
             q # r \/ t # s => reader'[q][t] = reader[q][t] /\ buf'[q][t] = buf[q][t]
        /\ streamed'[r] = streamed[r] \cup {buf[r][s]}
        /\ \A q \in Requests : q # r => streamed'[q] = streamed[q]
        /\ UNCHANGED inPipe
    BY <1>2 DEF ReaderSends, PipesTyped
  <2>2. InTransit(r, s)' \cup {buf[r][s]} = InTransit(r, s) \cup {}
    BY <2>1 DEF InTransit
  <2>3. \A q \in Requests : \A t \in Streams :
          q # r \/ t # s => InTransit(q, t)' = InTransit(q, t)
    BY <2>1 DEF InTransit
  <2>4. accepted'[r] = accepted[r] \cup {} /\ streamed'[r] = streamed[r] \cup {buf[r][s]}
    BY <1>0, <2>1
  <2>5. \A q \in Requests : q # r => accepted'[q] = accepted[q] /\ streamed'[q] = streamed[q]
    BY <1>0, <2>1
  <2>6. ASSUME NEW b, NEW d, InTransit(r, s)' \cup d = InTransit(r, s) \cup b,
               accepted'[r] = accepted[r] \cup b, streamed'[r] = streamed[r] \cup d
        PROVE  Carried'
    BY <2>3, <2>5, <2>6, CarriedAtOne
  <2> QED BY <2>2, <2>4, <2>6
<1>3. CASE ReaderEnds(r, s)
  <2>1. \A q \in Requests : \A t \in Streams :
          (reader'[q][t] = "send") = (reader[q][t] = "send")
    BY <1>3 DEF ReaderEnds, PipesTyped
  <2> QED BY <1>3, <2>1 DEF ReaderEnds, Carried, InTransit, Streams
<1> QED BY <1>1, <1>2, <1>3

LEMMA CarriedNext ==
  ASSUME PipesTyped, HandlerTyped, AtWork, Redirected, Carried, Readers,
         TypeOK, Shapes, [Next]_allVars
  PROVE  Carried'
<1>0. ASSUME UNCHANGED <<inPipe, buf, accepted, streamed>>,
             \A q \in Requests : \A t \in Streams :
               (reader'[q][t] = "send") = (reader[q][t] = "send")
      PROVE  Carried'
  BY <1>0 DEF Carried, InTransit, Streams
<1>1. CASE UNCHANGED pipeVars
  BY <1>1 DEF pipeVars, Carried, InTransit
<1>2. CASE Writes
  BY <1>2, CarriedByWrite DEF Writes
<1>3. CASE ReaderStep
  BY <1>3, CarriedByReader DEF ReaderStep
<1>4. CASE HandlerMoves
  <2>1. ASSUME NEW r \in Requests, NEW s \in Streams, OpenPipe(r, s), writeEnd[r][s] = "none"
        PROVE  Carried'
    <3>1. reader[r][s] = "none"
      BY <2>1 DEF Readers
    <3>2. \A q \in Requests : \A t \in Streams :
            (reader'[q][t] = "send") = (reader[q][t] = "send")
      BY <2>1, <3>1 DEF OpenPipe, PipesTyped
    <3> QED BY <1>0, <2>1, <3>2 DEF OpenPipe
  <2>2. CASE HandleExecuteRequest
    <3> DEFINE r == hcount'
    <3>1. r \in Requests /\ r > hcount
      BY <2>2, RunsAssumption DEF HandleExecuteRequest, HandlerTyped, Requests
    <3>2. writeEnd[r]["out"] = "none"
      BY <3>1 DEF AtWork, Streams
    <3> HIDE DEF r
    <3> QED BY <1>1, <2>1, <2>2, <3>1, <3>2 DEF HandleExecuteRequest, Streams, r
  <2>3. CASE OpenStderr
    <3>1. hcount \in Requests /\ writeEnd[hcount]["err"] = "none"
      BY <2>3 DEF OpenStderr, AtWork, Ends, Idle
    <3> QED BY <1>1, <2>1, <2>3, <3>1 DEF OpenStderr, Streams
  <2>4. CASE CallRun \/ SendReply
    BY <1>1, <2>4 DEF CallRun, SendReply
  <2>5. CASE CloseOut \/ CloseErr
    BY <1>0, <2>5 DEF CloseOut, CloseErr, ClosePipe
  <2>6. CASE \E s \in Streams : AwaitReader(s)
    <3>1. \A q \in Requests : \A t \in Streams :
            (reader'[q][t] = "send") = (reader[q][t] = "send")
      BY <2>6 DEF AwaitReader, PipesTyped
    <3> QED BY <1>0, <2>6, <3>1 DEF AwaitReader
  <2>7. CASE RunReturned
    <3>1. Failure \in Chunks
      BY DEF Chunks, Failure
    <3> QED BY <1>1, <2>7, <3>1, RunReturnedHere, CarriedByWrite DEF Streams
  <2> QED BY <1>4, <2>2, <2>3, <2>4, <2>5, <2>6, <2>7 DEF HandlerMoves
<1>5. CASE ExecHandlerForgets
  BY <1>5 DEF ExecHandlerForgets, Carried, InTransit, Streams
<1> QED BY <1>1, <1>2, <1>3, <1>4, <1>5, Moves
-----------------------------------------------------------------------------
(***************************************************************************)
(* Readers and replies.                                                    *)
(***************************************************************************)
LEMMA ReadersByChunk ==
  ASSUME PipesTyped, Readers, UNCHANGED <<handlerVars, children>>, Writes \/ ReaderStep
  PROVE  Readers'
<1> USE DEF PipesTyped, ReaderStates
<1>1. ASSUME NEW r \in Requests, NEW s \in Streams, NEW c \in Chunks, WriteInto(r, s, c),
             writeEnd[r][s] = "open" \/ r \in children
      PROVE  Readers'
  <2>1. reader[r][s] \notin {"none", "ended", "gone"}
    BY <1>1 DEF Readers
  <2>2. \A q \in Requests : \A t \in Streams :
          q # r \/ t # s => inPipe'[q][t] = inPipe[q][t]
    BY <1>1 DEF WriteInto
  <2> QED BY <1>1, <2>1, <2>2 DEF WriteInto, Readers, handlerVars
<1>2. ASSUME NEW r \in Requests, NEW s \in Streams, ReaderReads(r, s)
      PROVE  Readers'
  <2>1. /\ reader[r][s] = "read" /\ reader'[r][s] = "send"
        /\ \A q \in Requests : \A t \in Streams :
             q # r \/ t # s => inPipe'[q][t] = inPipe[q][t] /\ reader'[q][t] = reader[q][t]
        /\ UNCHANGED writeEnd
    BY <1>2 DEF ReaderReads
  <2> HIDE DEF PipesTyped
  <2> QED BY <2>1 DEF Readers, handlerVars
<1>3. ASSUME NEW r \in Requests, NEW s \in Streams, ReaderSends(r, s)
      PROVE  Readers'
  <2>1. /\ reader[r][s] = "send" /\ reader'[r][s] = "read"
        /\ \A q \in Requests : \A t \in Streams :
             q # r \/ t # s => reader'[q][t] = reader[q][t]
        /\ UNCHANGED <<writeEnd, inPipe>>
    BY <1>3 DEF ReaderSends
  <2> HIDE DEF PipesTyped
  <2> QED BY <2>1 DEF Readers, handlerVars
<1>4. ASSUME NEW r \in Requests, NEW s \in Streams, ReaderEnds(r, s)
      PROVE  Readers'
  <2>1. /\ reader[r][s] = "read" /\ reader'[r][s] = "ended"
        /\ \A q \in Requests : \A t \in Streams :
             q # r \/ t # s => reader'[q][t] = reader[q][t]
        /\ UNCHANGED <<writeEnd, inPipe>>
        /\ inPipe[r][s] = <<>> /\ writeEnd[r][s] = "closed" /\ r \notin children
    BY <1>4 DEF ReaderEnds
  <2> HIDE DEF PipesTyped
  <2> QED BY <2>1 DEF Readers, handlerVars
<1> QED BY <1>1, <1>2, <1>3, <1>4 DEF Writes, ReaderStep

LEMMA ReadersByHandler ==
  ASSUME PipesTyped, HandlerTyped, AtWork, Redirected, Readers, UNCHANGED children, HandlerMoves
  PROVE  Readers'
<1>1. ASSUME NEW r \in Requests, NEW s \in Streams, OpenPipe(r, s), writeEnd[r][s] = "none",
             \A q \in Requests : replied'[q] = replied[q],
             hpc' # Idle, hpc # Idle => hcount' = hcount
      PROVE  Readers'
  <2>1. /\ reader'[r][s] = "read" /\ writeEnd'[r][s] = "open"
        /\ \A q \in Requests : \A t \in Streams :
             q # r \/ t # s => reader'[q][t] = reader[q][t] /\ writeEnd'[q][t] = writeEnd[q][t]
        /\ UNCHANGED inPipe
    BY <1>1 DEF OpenPipe, PipesTyped
  <2> QED BY <1>1, <2>1 DEF Readers
<1>2. ASSUME NEW r \in Requests, UNCHANGED pipeVars, hcount' = r, hpc' = Idle,
             hpc # Idle => hcount = r, Reply("error") \/ Reply("ok")
      PROVE  Readers'
  <2>1. replied'[r] # "none" /\ \A q \in Requests : q # r => replied'[q] = replied[q]
    BY <1>2 DEF Reply, HandlerTyped
  <2> QED BY <1>2, <2>1 DEF Readers, pipeVars
<1>3. CASE HandleExecuteRequest
  <2> DEFINE r == hcount'
  <2>1. r \in Requests /\ r > hcount /\ hpc = Idle
    BY <1>3, RunsAssumption DEF HandleExecuteRequest, HandlerTyped, Requests
  <2>2. writeEnd[r]["out"] = "none"
    BY <2>1 DEF AtWork, Streams
  <2>3. CASE OpenPipe(r, "out") /\ hpc' = "stderr" /\ UNCHANGED replied
    <3> HIDE DEF r
    <3> QED BY <1>1, <2>1, <2>2, <2>3 DEF Streams, Idle
  <2>4. CASE Reply("error") /\ UNCHANGED pipeVars
    BY <1>2, <2>1, <2>4 DEF Reply
  <2> QED BY <1>3, <2>3, <2>4 DEF HandleExecuteRequest
<1>4. CASE OpenStderr
  <2>1. hcount \in Requests /\ writeEnd[hcount]["err"] = "none" /\ hpc # Idle
    BY <1>4 DEF OpenStderr, AtWork, Ends, Idle
  <2>2. CASE OpenPipe(hcount, "err") /\ hpc' = "run" /\ UNCHANGED <<hcount, replied>>
    BY <1>1, <2>1, <2>2 DEF Streams, Idle
  <2>3. CASE hcount' = hcount /\ Reply("error") /\ UNCHANGED pipeVars
    BY <1>2, <2>1, <2>3 DEF Reply
  <2> QED BY <1>4, <2>2, <2>3 DEF OpenStderr
<1>5. CASE CallRun
  BY <1>5 DEF CallRun, Readers, pipeVars, Idle
<1>6. CASE CloseOut \/ CloseErr
  <2>1. PICK s \in Streams : ClosePipe(hcount, s) /\ writeEnd[hcount][s] = "open"
    BY <1>6 DEF CloseOut, CloseErr, Streams, AtWork, Ends
  <2>2. hcount \in Requests /\ hcount' = hcount /\ hpc' # Idle /\ UNCHANGED replied
    BY <1>6 DEF CloseOut, CloseErr, AtWork, Idle
  <2>4. /\ writeEnd'[hcount][s] = "closed"
        /\ \A q \in Requests : \A t \in Streams :
             q # hcount \/ t # s => writeEnd'[q][t] = writeEnd[q][t]
        /\ UNCHANGED <<reader, inPipe>>
    BY <2>1, <2>2 DEF ClosePipe, PipesTyped
  <2> QED BY <2>1, <2>2, <2>4 DEF Readers
<1>7. CASE \E s \in Streams : AwaitReader(s)
  <2>1. PICK s \in Streams : AwaitReader(s)
    BY <1>7
  <2>2. hcount \in Requests /\ hcount' = hcount /\ hpc' # Idle
        /\ UNCHANGED <<replied, writeEnd, inPipe>> /\ reader[hcount][s] = "ended"
    BY <2>1 DEF AwaitReader, AtWork, Idle
  <2>3. /\ reader'[hcount][s] = "gone"
        /\ \A q \in Requests : \A t \in Streams :
             q # hcount \/ t # s => reader'[q][t] = reader[q][t]
    BY <2>1, <2>2 DEF AwaitReader, PipesTyped
  <2> QED BY <2>2, <2>3 DEF Readers
<1>8. CASE SendReply
  <2>1. hcount \in Requests
    BY <1>8 DEF SendReply, AtWork, Idle
  <2> QED BY <1>2, <1>8, <2>1 DEF SendReply, Reply
<1>9. CASE RunReturned
  <2>1. hcount' = hcount /\ hpc' # Idle /\ UNCHANGED replied /\ hpc # Idle /\ hcount \in Requests
    BY <1>9, RunReturnedHere DEF RunReturned, Idle
  <2>2. CASE UNCHANGED pipeVars
    BY <2>1, <2>2 DEF Readers, pipeVars
  <2>3. CASE WriteInto(hcount, "err", Failure)
    <3>1. writeEnd[hcount]["err"] = "open"
      BY <1>9, RunReturnedHere DEF Ends
    <3>2. reader[hcount]["err"] \notin {"none", "ended", "gone"}
      BY <2>1, <3>1 DEF Readers, Streams
    <3>3. /\ \A q \in Requests : \A t \in Streams :
               q # hcount \/ t # "err" => inPipe'[q][t] = inPipe[q][t]
          /\ UNCHANGED <<writeEnd, reader>>
      BY <2>3 DEF WriteInto, PipesTyped
    <3> QED BY <2>1, <3>1, <3>2, <3>3 DEF Readers
  <2> QED BY <1>9, <2>2, <2>3, RunReturnedHere
<1> QED BY <1>3, <1>4, <1>5, <1>6, <1>7, <1>8, <1>9 DEF HandlerMoves

LEMMA ReadersNext ==
  ASSUME PipesTyped, HandlerTyped, AtWork, Redirected, Readers, TypeOK, Shapes, [Next]_allVars
  PROVE  Readers'
<1>1. CASE UNCHANGED <<handlerVars, pipeVars>> /\ ChildrenMove
  BY <1>1 DEF ChildrenMove, Readers, AtWork, Ends, Streams, Idle, handlerVars, pipeVars
<1>2. CASE UNCHANGED <<handlerVars, children>> /\ (Writes \/ ReaderStep)
  BY <1>2, ReadersByChunk
<1>3. CASE UNCHANGED children /\ HandlerMoves
  BY <1>3, ReadersByHandler
<1>4. CASE ExecHandlerForgets
  BY <1>4 DEF ExecHandlerForgets, Readers
<1> QED BY <1>1, <1>2, <1>3, <1>4, Moves

\* Whoever is gone, is gone for good.
LEMMA GoneStays ==
  ASSUME PipesTyped, Readers, Writes \/ ReaderStep
  PROVE  \A r \in Requests : \A s \in Streams : (reader'[r][s] = "gone") = (reader[r][s] = "gone")
<1>1. CASE Writes
  BY <1>1 DEF Writes, WriteInto
<1>2. ASSUME NEW r \in Requests, NEW s \in Streams,
             ReaderReads(r, s) \/ ReaderSends(r, s) \/ ReaderEnds(r, s)
      PROVE  \A q \in Requests : \A t \in Streams : (reader'[q][t] = "gone") = (reader[q][t] = "gone")
  <2>1. /\ reader[r][s] # "gone" /\ reader'[r][s] # "gone"
        /\ \A q \in Requests : \A t \in Streams :
             q # r \/ t # s => reader'[q][t] = reader[q][t]
    BY <1>2 DEF ReaderReads, ReaderSends, ReaderEnds, PipesTyped
  <2> QED BY <2>1
<1> QED BY <1>1, <1>2 DEF ReaderStep

\* How a request ended: after both readers, or without its second pipe.
Ended(r) ==
  \/ \A s \in Streams : reader[r][s] = "gone"
  \/ /\ writeEnd[r]["out"] # "closed" /\ writeEnd[r]["err"] = "none"
     /\ replied[r] = "error"

LEMMA RepliesByHandler ==
  ASSUME PipesTyped, HandlerTyped, AtWork, Redirected, Readers, Replies, HandlerMoves
  PROVE  Replies'
<1>0. \A r \in Requests : replied[r] # "none" => Ended(r)
  BY DEF Replies, Ended
<1>1. ASSUME NEW r \in Requests, replied[r] = "none",
             \A q \in Requests : q # r => /\ reader'[q] = reader[q] /\ writeEnd'[q] = writeEnd[q]
                                          /\ replied'[q] = replied[q],
             replied'[r] = "none" \/ Ended(r)'
      PROVE  \A q \in Requests : replied'[q] # "none" => Ended(q)'
  <2> SUFFICES ASSUME NEW q \in Requests, replied'[q] # "none" PROVE Ended(q)'
    OBVIOUS
  <2>1. CASE q = r
    BY <1>1, <2>1
  <2>2. CASE q # r
    BY <1>0, <1>1, <2>2 DEF Ended
  <2> QED BY <2>1, <2>2
<1>2. ASSUME hpc' \in {"closeOut", "closeErr", "wait"} => awaited' = Left("out")' + Left("err")',
             \A q \in Requests : replied'[q] # "none" => Ended(q)'
      PROVE  Replies'
  BY <1>2 DEF Replies, Ended
<1>3. CASE HandleExecuteRequest
  <2>1. PICK r \in Requests : r = hcount' /\ r > hcount /\ hpc = Idle
    BY <1>3, RunsAssumption DEF HandleExecuteRequest, HandlerTyped, Requests
  <2>2. writeEnd[r]["out"] = "none" /\ writeEnd[r]["err"] = "none" /\ replied[r] = "none"
    BY <2>1 DEF AtWork, Streams
  <2>3. hpc' \notin {"closeOut", "closeErr", "wait"}
    BY <1>3 DEF HandleExecuteRequest, Reply, Idle
  <2>4. CASE OpenPipe(r, "out") /\ hpc' = "stderr" /\ UNCHANGED replied
    BY <1>1, <1>2, <2>1, <2>2, <2>3, <2>4 DEF OpenPipe, PipesTyped
  <2>5. CASE replied' = [replied EXCEPT ![r] = "error"] /\ UNCHANGED pipeVars
    <3>1. Ended(r)'
      <4>1. replied'[r] = "error"
        BY <2>5 DEF HandlerTyped
      <4> QED BY <2>2, <2>5, <4>1 DEF Ended, pipeVars
    <3> QED BY <1>1, <1>2, <2>1, <2>2, <2>3, <2>5, <3>1 DEF pipeVars, HandlerTyped
  <2> QED BY <1>3, <2>1, <2>4, <2>5 DEF HandleExecuteRequest, Reply
<1>4. CASE OpenStderr
  <2>1. /\ hcount \in Requests /\ writeEnd[hcount]["err"] = "none"
        /\ writeEnd[hcount]["out"] = "open" /\ replied[hcount] = "none"
    BY <1>4 DEF OpenStderr, AtWork, Ends, Idle
  <2>2. hpc' \notin {"closeOut", "closeErr", "wait"}
    BY <1>4 DEF OpenStderr, Reply, Idle
  <2>3. CASE OpenPipe(hcount, "err") /\ hpc' = "run" /\ UNCHANGED <<hcount, replied>>
    BY <1>1, <1>2, <2>1, <2>2, <2>3 DEF OpenPipe, PipesTyped
  <2>4. CASE hcount' = hcount /\ Reply("error") /\ UNCHANGED pipeVars
    <3>1. Ended(hcount)'
      BY <2>1, <2>4 DEF Ended, pipeVars, HandlerTyped, Reply
    <3> QED BY <1>1, <1>2, <2>1, <2>2, <2>4, <3>1 DEF pipeVars, HandlerTyped, Reply
  <2> QED BY <1>4, <2>3, <2>4 DEF OpenStderr
<1>5. CASE CallRun
  BY <1>5 DEF CallRun, Replies, pipeVars
<1>6. CASE CloseOut \/ CloseErr
  <2>1. hcount \in Requests /\ replied[hcount] = "none" /\ UNCHANGED <<hcount, replied, reader, awaited>>
    BY <1>6 DEF CloseOut, CloseErr, AtWork, Idle, ClosePipe
  <2>2. \A q \in Requests : q # hcount => writeEnd'[q] = writeEnd[q]
    BY <1>6 DEF CloseOut, CloseErr, ClosePipe, PipesTyped
  <2>3. hpc' \in {"closeOut", "closeErr", "wait"} => awaited' = Left("out")' + Left("err")'
    BY <1>6, <2>1 DEF CloseOut, CloseErr, Replies, Left
  <2> QED BY <1>1, <1>2, <2>1, <2>2, <2>3
<1>7. CASE \E s \in Streams : AwaitReader(s)
  <2>1. PICK s \in Streams : AwaitReader(s)
    BY <1>7
  <2>2. /\ hcount \in Requests /\ UNCHANGED <<hcount, replied, writeEnd, hpc>>
        /\ hpc = "wait" /\ replied[hcount] = "none"
        /\ reader[hcount][s] = "ended" /\ awaited' = awaited - 1
    BY <2>1 DEF AwaitReader, AtWork, Idle
  <2>3. /\ reader'[hcount][s] = "gone"
        /\ \A t \in Streams : t # s => reader'[hcount][t] = reader[hcount][t]
        /\ \A q \in Requests : q # hcount => reader'[q] = reader[q]
    BY <2>1, <2>2 DEF AwaitReader, PipesTyped
  <2>4. awaited' = Left("out")' + Left("err")'
    <3>1. awaited = Left("out") + Left("err")
      BY <2>2 DEF Replies
    <3>2. CASE s = "out"
      BY <2>2, <2>3, <3>1, <3>2 DEF Left, Streams
    <3>3. CASE s = "err"
      BY <2>2, <2>3, <3>1, <3>3 DEF Left, Streams
    <3> QED BY <3>2, <3>3 DEF Streams
  <2> QED BY <1>1, <1>2, <2>2, <2>3, <2>4
<1>8. CASE SendReply
  <2>1. /\ hcount \in Requests /\ replied[hcount] = "none" /\ awaited = 0 /\ hpc = "wait"
        /\ UNCHANGED <<pipeVars, hcount>> /\ hpc' = Idle
    BY <1>8 DEF SendReply, AtWork, Idle, Reply
  <2>2. \A q \in Requests : q # hcount => replied'[q] = replied[q]
    BY <1>8 DEF SendReply, Reply, HandlerTyped
  <2>3. \A s \in Streams : reader[hcount][s] = "gone"
    <3>1. Left("out") + Left("err") = 0
      BY <2>1 DEF Replies
    <3> QED BY <3>1 DEF Left, Streams
  <2>4. Ended(hcount)'
    BY <2>1, <2>3 DEF Ended, pipeVars
  <2> QED BY <1>1, <1>2, <2>1, <2>2, <2>4 DEF pipeVars, Idle
<1>9. CASE RunReturned
  <2>1. hcount \in Requests /\ UNCHANGED <<hcount, replied, reader, writeEnd>> /\ awaited' = 2
    BY <1>9, RunReturnedHere DEF RunReturned, WriteInto, pipeVars
  <2>2. writeEnd[hcount]["out"] = "open" /\ writeEnd[hcount]["err"] = "open"
    BY <1>9, RunReturnedHere DEF Ends
  <2>3. Left("out")' + Left("err")' = 2
    BY <2>1, <2>2 DEF Left, Readers, Streams
  <2> QED BY <2>1, <2>3 DEF Replies
<1> QED BY <1>3, <1>4, <1>5, <1>6, <1>7, <1>8, <1>9 DEF HandlerMoves

LEMMA RepliesNext ==
  ASSUME PipesTyped, HandlerTyped, AtWork, Redirected, Readers, Replies,
         TypeOK, Shapes, [Next]_allVars
  PROVE  Replies'
<1>1. CASE UNCHANGED <<handlerVars, pipeVars>>
  BY <1>1 DEF handlerVars, pipeVars, Replies, Left
<1>2. CASE UNCHANGED handlerVars /\ (Writes \/ ReaderStep)
  <2>1. hpc # Idle => hcount \in Requests
    BY DEF AtWork
  <2> QED BY <1>2, <2>1, GoneStays, ChunkMoves DEF handlerVars, Replies, Left, Streams, Idle
<1>3. CASE HandlerMoves
  BY <1>3, RepliesByHandler
<1>4. CASE ExecHandlerForgets
  BY <1>4 DEF ExecHandlerForgets, Replies, Idle
<1> QED BY <1>1, <1>2, <1>3, <1>4, Moves

\* The handler has seen the end of the last run, and nobody runs another block.
Seen ==
  \/ hpc \in {"closeOut", "closeErr", "wait"}
  \/ hpc = Idle /\ hcount \in Requests /\ writeEnd[hcount]["err"] = "closed"

LEMMA OutcomeStays ==
  ASSUME Roles', Seen', [Next]_allVars
  PROVE  UNCHANGED <<execCount, outcome>>
<1>1. rpc' = "idle"
  BY DEF Roles, Seen, Idle, Requests
<1>2. ~ExecHandlerForgets
  BY DEF ExecHandlerForgets, Seen, Requests, Idle
<1>3. CASE RunStep \/ ExecReturns \/ \E b \in Blocks \cup {NoBlock} : RunCalled(b)
  BY <1>1, <1>3, RunStepKeeps DEF ExecReturns, Return, RunCalled
<1> QED BY <1>2, <1>3, RunnerShape DEF rvars, sessionVars, runVars, RunConsumed

LEMMA ToldNext ==
  ASSUME PipesTyped, HandlerTyped, AtWork, Redirected, Told, Roles',
         TypeOK, Shapes, [Next]_allVars
  PROVE  Told'
<1> SUFFICES ASSUME Seen' PROVE outcome'[execCount'] = "nil" \/ Failure \in accepted'[hcount']
  BY DEF Told, Seen
<1>0. UNCHANGED <<execCount, outcome>>
  BY OutcomeStays
<1>1. ASSUME Seen, hcount' = hcount, accepted[hcount] \subseteq accepted'[hcount]
      PROVE  outcome'[execCount'] = "nil" \/ Failure \in accepted'[hcount']
  BY <1>0, <1>1 DEF Told, Seen
<1>2. CASE UNCHANGED <<handlerVars, pipeVars>>
  BY <1>1, <1>2 DEF handlerVars, pipeVars, Seen
<1>3. CASE UNCHANGED handlerVars /\ (Writes \/ ReaderStep)
  <2>1. Seen /\ hcount' = hcount
    BY <1>3, ChunkMoves DEF handlerVars, Seen
  <2>2. hcount \in Requests
    BY <2>1 DEF Seen, AtWork, Idle
  <2>3. accepted[hcount] \subseteq accepted'[hcount]
    <3>1. CASE Writes
      BY <2>2, <3>1 DEF Writes, WriteInto, PipesTyped
    <3>2. CASE ReaderStep
      BY <3>2 DEF ReaderStep, ReaderReads, ReaderSends, ReaderEnds
    <3> QED BY <1>3, <3>1, <3>2
  <2> QED BY <1>1, <2>1, <2>3
<1>4. CASE HandlerMoves
  <2>1. CASE HandleExecuteRequest
    <3>1. PICK r \in Requests : r = hcount' /\ r > hcount
      BY <2>1, RunsAssumption DEF HandleExecuteRequest, HandlerTyped, Requests
    <3>2. writeEnd[r]["err"] = "none"
      BY <3>1 DEF AtWork, Streams
    <3>3. writeEnd'[r]["err"] = "none"
      BY <2>1, <3>1, <3>2 DEF HandleExecuteRequest, OpenPipe, pipeVars, PipesTyped, Streams
    <3> QED BY <2>1, <3>1, <3>3 DEF HandleExecuteRequest, Seen, Reply, Idle
  <2>2. CASE OpenStderr
    <3>1. writeEnd[hcount]["err"] = "none"
      BY <2>2 DEF OpenStderr, AtWork, Ends, Idle
    <3> QED BY <2>2, <3>1 DEF OpenStderr, Seen, Reply, Idle, pipeVars
  <2>3. CASE CallRun
    BY <2>3 DEF CallRun, Seen, Idle
  <2>4. CASE CloseOut \/ CloseErr
    BY <1>1, <2>4 DEF CloseOut, CloseErr, ClosePipe, Seen
  <2>5. CASE (\E s \in Streams : AwaitReader(s)) \/ SendReply
    BY <1>1, <2>5 DEF AwaitReader, SendReply, pipeVars, Seen
  <2>6. CASE RunReturned
    <3>1. CASE outcome[execCount] = "nil"
      BY <1>0, <3>1
    <3>2. CASE WriteInto(hcount, "err", Failure)
      BY <2>6, <3>2, RunReturnedHere DEF WriteInto, PipesTyped
    <3> QED BY <2>6, <3>1, <3>2, RunReturnedHere
  <2> QED BY <1>4, <2>1, <2>2, <2>3, <2>4, <2>5, <2>6 DEF HandlerMoves
<1>5. CASE ExecHandlerForgets
  BY <1>5 DEF ExecHandlerForgets, Seen, Requests, Idle
<1> QED BY <1>2, <1>3, <1>4, <1>5, Moves
-----------------------------------------------------------------------------
(***************************************************************************)
(* The invariant.                                                          *)
(***************************************************************************)
LEMMA InitInv == Init => Inv
<1> SUFFICES ASSUME Init PROVE Inv
  OBVIOUS
<1> USE RunsAssumption, SignalsAssumption, WritesAssumption
    DEF Init, RunnerMemory, ExecHandlerMemory, FrontEndMemory
<1>1. RunnerTypeOK
  <2>1. execCount \in 0 .. MaxRuns /\ vars \in [Names -> 0 .. MaxRuns]
    OBVIOUS
  <2>2. outcome \in [Runs -> Results]
    BY DEF Results
  <2> QED BY <2>1, <2>2 DEF RunnerTypeOK
<1>2. PipesTyped /\ HandlerTyped
  <2>1. Failure \in Chunks
    BY DEF Chunks, Failure
  <2> QED BY <2>1 DEF PipesTyped, HandlerTyped, ReaderStates
<1>3. CodeTyped
  BY DEF CodeTyped
<1>4. FrontEndTypeOK
  <2>1. -1 \in -1 .. MaxRuns
    OBVIOUS
  <2>2. watcher \in [Runs -> {"none", "starting", "waiting", "gone"}]
    OBVIOUS
  <2>3. signals \in 0 .. MaxSignals /\ termAt \in -1 .. MaxRuns
    BY <2>1
  <2> QED BY <2>2, <2>3 DEF FrontEndTypeOK
<1>5. TypeOK /\ Shapes
  BY <1>1, <1>2, <1>3, <1>4, TypedBack DEF TypeOK, Processes
<1>6. RunnerInv
  BY DEF RunnerInv, Numbered, Named, NamesBacked, OldsBacked, NoBlock, Before, Runs
<1>7. ContextInv
  BY DEF ContextInv, Roles, Watched, Terminated, OwnContext, TerminationStops, Running, Idle
<1>8. FilesInv
  BY DEF FilesInv, Lives, Cleaned, Processes
<1>9. PipesInv
  <2>1. AtWork /\ Redirected
    BY DEF AtWork, Redirected, Requests, Streams, Idle
  <2>2. Carried
    BY DEF Carried, InTransit, Streams
  <2>3. Readers /\ Replies
    BY DEF Readers, Replies, Idle
  <2>4. Told
    BY DEF Told, Idle, Requests
  <2> QED BY <2>1, <2>2, <2>3, <2>4 DEF PipesInv
<1> QED BY <1>5, <1>6, <1>7, <1>8, <1>9 DEF Inv

LEMMA InvNext == Inv /\ [Next]_allVars => Inv'
<1> SUFFICES ASSUME Inv, [Next]_allVars PROVE Inv'
  OBVIOUS
<1>0. /\ TypeOK /\ Shapes /\ PipesTyped /\ HandlerTyped /\ CodeTyped
      /\ Numbered /\ Named /\ NamesBacked /\ OldsBacked
      /\ Roles /\ Watched /\ Terminated /\ OwnContext /\ TerminationStops /\ Lives /\ Cleaned
      /\ AtWork /\ Redirected /\ Carried /\ Readers /\ Replies /\ Told
  BY Typed DEF Inv, RunnerInv, ContextInv, FilesInv, PipesInv
<1>1. PipesTyped' /\ HandlerTyped' /\ CodeTyped'
  BY <1>0, PipesTypedNext, HandlerTypedNext, CodeTypedNext
<1>2. ExecHandlerTypeOK' /\ Shapes'
  BY <1>1 DEF PipesTyped, HandlerTyped, CodeTyped, ExecHandlerTypeOK, Shapes, ReaderStates
<1>3. TypeOK'
  BY <1>0, <1>2, RunnerTypeNext, FrontTypeNext, LifeTypeNext DEF TypeOK, LifeTypeOK
<1>4. RunnerInv'
  BY <1>0, NumberedNext, NamedNext, NamesBackedNext, OldsBackedNext DEF RunnerInv
<1>5. ContextInv'
  BY <1>0, RolesNext, WatchedNext, TerminatedNext, OwnContextNext, TerminationStopsNext
     DEF ContextInv
<1>6. FilesInv'
  BY <1>0, LivesNext, CleanedNext DEF FilesInv
<1>7. PipesInv'
  <2>1. AtWork' /\ Redirected' /\ Carried'
    BY <1>0, AtWorkNext, RedirectedNext, CarriedNext
  <2>2. Readers' /\ Replies'
    BY <1>0, ReadersNext, RepliesNext
  <2>3. Told'
    BY <1>0, RolesNext, ToldNext
  <2> QED BY <2>1, <2>2, <2>3 DEF PipesInv
<1> QED BY <1>2, <1>3, <1>4, <1>5, <1>6, <1>7 DEF Inv

\* One session, in any mode and with any signals, deaths of processes, goroutines and
\* children of lgo code, keeps the invariant of SessionInv.
THEOREM SessionInvHolds == Spec => []Inv
BY InitInv, InvNext, PTL DEF Spec

\* What a later block is offered, and what it executes with, is loaded or known to have
\* failed, although the names of a block enter the session before it is built.
THEOREM SessionBackedHolds == Spec => []SessionBacked
<1>1. Inv => SessionBacked
  BY DEF Inv, RunnerInv, OldsBacked, Failures, SessionBacked, ExecBacked
<1> QED BY <1>1, SessionInvHolds, PTL

\* No library is loaded for two blocks: a number is used up by any block.
THEOREM LoadedOnceHolds == Spec => LoadedOnce
<1>1. Inv => ~(rpc = "load" /\ execCount \in loaded)
  BY DEF Inv, RunnerInv, Numbered, Before
<1>2. ~(rpc = "load" /\ execCount \in loaded) =>
        [\A e \in Runs : e \in loaded => ~(rpc = "load" /\ rpc' = "exec" /\ execCount = e)]_runnerVars
  OBVIOUS
<1> QED BY <1>1, <1>2, SessionInvHolds, PTL DEF LoadedOnce

\* A signal stops the run it came for, or with the process every later one, and no other.
THEOREM ContextsApartHolds == Spec => []ContextsApart
<1>1. Inv => ContextsApart
  BY DEF Inv, ContextInv, ContextsApart
<1> QED BY <1>1, SessionInvHolds, PTL

\* A clean-up leaves only what it was refused to remove and what a `go install` writes
\* that outlived lgo-internal.
THEOREM LeftoversExplainedHolds == Spec => []LeftoversExplained
<1>1. Inv => LeftoversExplained
  <2> SUFFICES ASSUME Inv, NEW a \in Processes, cpc[a] = "done", NEW f \in files
               PROVE  <<a, f[1]>> \in failed \/ f[2] \in orphans
    BY DEF LeftoversExplained
  <2>1. f[1] \in {"src", "archive", "lib"}
    BY DEF Inv, TypeOK, RunnerTypeOK
  <2>2. Removed(a, "src") /\ Removed(a, "lib") /\ Removed(a, "archive")
    BY DEF Inv, FilesInv, Cleaned
  <2> QED BY <2>1, <2>2 DEF Removed
<1> QED BY <1>1, SessionInvHolds, PTL

\* When a reply is sent everything about its request is over, whatever goroutines of any
\* block and child processes write: its output is with the client, failures are told,
\* stdout and stderr are the process's own.
THEOREM ReplyCompleteHolds == Spec => []ReplyComplete
<1>1. Inv => ReplyComplete
  <2> SUFFICES ASSUME Inv PROVE ReplyComplete
    OBVIOUS
  <2>1. AtWork /\ Redirected /\ Carried /\ Readers /\ Replies /\ Told
    BY DEF Inv, PipesInv
  <2>2. OutputComplete
    <3> SUFFICES ASSUME NEW r \in Requests, r \notin Broken, replied[r] # "none"
                 PROVE  streamed[r] = accepted[r]
      BY DEF OutputComplete
    <3>1. \A s \in Streams : reader[r][s] \in {"gone", "none"}
      BY <2>1 DEF Replies, Readers, Broken, Streams, TypeOK, Inv, ExecHandlerTypeOK
    <3>2. \A s \in Streams : inPipe[r][s] = <<>>
      BY <2>1, <3>1 DEF Readers
    <3>3. InTransit(r, "out") = {} /\ InTransit(r, "err") = {}
      BY <3>1, <3>2 DEF InTransit, Streams
    <3> QED BY <2>1, <3>3 DEF Carried
  <2>3. FailuresTold
    <3> SUFFICES ASSUME hcount \in Requests, hpc = Idle, writeEnd[hcount]["err"] = "closed",
                        outcome[execCount] # "nil"
                 PROVE  Failure \in streamed[hcount]
      BY DEF FailuresTold
    <3>1. Failure \in accepted[hcount]
      BY <2>1 DEF Told
    <3>2. replied[hcount] # "none" /\ hcount \notin Broken
      BY <2>1 DEF AtWork, Broken
    <3> QED BY <2>2, <3>1, <3>2 DEF OutputComplete
  <2>4. StdRestored
    BY <2>1 DEF Redirected, StdRestored, Idle
  <2> QED BY <2>2, <2>3, <2>4 DEF ReplyComplete
<1> QED BY <1>1, SessionInvHolds, PTL

\* A SIGINT that comes while a goroutine waits for it cancels the run at work: no
\* goroutine of an earlier run takes it.
THEOREM InterruptReachesHolds == Spec => InterruptReaches
<1>1. Inv /\ [Next]_allVars =>
        [\A e \in Waiting :
           signals' # signals /\ e = execCount /\ fpc = "run" /\ ~procCtx' => runCtx'
        ]_<<frontVars, runnerVars>>
  <2> SUFFICES ASSUME Inv, [Next]_allVars, NEW e \in Waiting,
                      signals' # signals, e = execCount, fpc = "run"
               PROVE  runCtx'
    OBVIOUS
  <2>1. TerminationSignal \/ Interrupt
    BY FrontShape DEF frontVars, FrontStep, LoopChecksContext, WatcherStarts, RunEnds, NextFile,
       FileEnds, NextReturns, FrontEndForgets, LauncherKilled
  <2>2. CASE TerminationSignal
    BY <2>2 DEF TerminationSignal, ProcessDone
  <2>3. CASE Interrupt
    <3>1. Waiting = {execCount}
      BY DEF Waiting, Inv, ContextInv, Watched
    <3>2. execCount <= execCount
      BY DEF Inv, TypeOK, RunnerTypeOK
    <3>3. (CHOOSE f \in Waiting : \A g \in Waiting : f <= g) = execCount
      BY <3>1, <3>2
    <3> QED BY <2>3, <3>1, <3>3 DEF Interrupt
  <2> QED BY <2>1, <2>2, <2>3
<1> QED BY <1>1, SessionInvHolds, PTL DEF Spec, InterruptReaches
=============================================================================
