------------------------------- MODULE Session ------------------------------
(***************************************************************************)
(* One session of lgo: the launcher of cmd/lgo, the process lgo-internal   *)
(* it starts, with the kernel's handler or one of the front ends calling   *)
(* the runner, and the clean-up of the session's files by both processes.  *)
(***************************************************************************)
EXTENDS ExecHandler, FrontEnd

VARIABLES
  life,     \* lgo-internal: "up", "leaving" (cleaning up) or "gone"
  cpc,      \* cpc[a]: where the CleanSession of process a is
  failed,   \* history: what a process could not remove
  orphans   \* history: the runs whose `go install` outlived lgo-internal

lifeVars == <<life, cpc, failed, orphans>>
allVars  == <<runnerVars, execHandlerVars, frontVars, lifeVars>>

Processes == {"internal", "launcher"}

Forgets == RunnerForgets /\ ExecHandlerForgets /\ FrontEndForgets

Init ==
  /\ RunnerMemory /\ ExecHandlerMemory /\ FrontEndMemory
  /\ mode \in {"kernel", "repl", "batch"} /\ signals = 0
  /\ files = {} /\ builders = {}
  /\ life = "up" /\ cpc = [a \in Processes |-> "idle"] /\ failed = {} /\ orphans = {}

TypeOK ==
  /\ RunnerTypeOK /\ ExecHandlerTypeOK /\ FrontEndTypeOK
  /\ life \in {"up", "leaving", "gone"}
  /\ cpc \in [Processes -> {"idle", "src", "libs", "archives", "done", "killed"}]
  /\ failed \subseteq Processes \X {"src", "archive", "lib"} /\ orphans \subseteq Runs
-----------------------------------------------------------------------------
(* The kernel: KernelServer calls the handler, one request at a time, and  *)
(* cancels its context; queries come from goroutines of their own.         *)

KernelRequest ==
  /\ mode = "kernel" /\ HandleExecuteRequest /\ runCtx' = FALSE
  /\ UNCHANGED <<sessionVars, runVars, fileVars, loaded, frontVars>>

KernelCallsRun ==
  /\ CallRun /\ (\E b \in Blocks : RunCalled(b))
  /\ UNCHANGED <<runCtx, frontVars>>

KernelRunEnds ==
  /\ RunReturned /\ RunConsumed /\ UNCHANGED <<runCtx, frontVars>>

ServerCancels ==
  /\ mode = "kernel" /\ hpc # Idle /\ ~runCtx /\ runCtx' = TRUE
  /\ UNCHANGED <<sessionVars, runVars, fileVars, loaded,
                 execHandlerVars, frontVars>>

\* The lgo code returns, or is given up in the middle of a write.
CodeReturns ==
  /\ ExecReturns
  /\ IF writing[execCount] = NoFile
     THEN UNCHANGED late
     ELSE runCtx /\ late' = late \cup {execCount}
  /\ UNCHANGED <<handlerVars, pipeVars, children, writing, written, frontVars>>

KernelStep ==
  \/ KernelCallsRun \/ KernelRunEnds
  \/ (HandlerStep /\ hpc # "running" /\ UNCHANGED <<runnerVars, frontVars>>)
  \/ (ReaderStep /\ UNCHANGED <<handlerVars, codeVars, runnerVars, frontVars>>)

Environment ==
  \/ KernelRequest \/ ServerCancels
  \/ (CodeStep /\ mode = "kernel" /\ UNCHANGED <<runnerVars, frontVars>>)
  \/ ((NextReturns \/ Interrupt \/ TerminationSignal) /\ UNCHANGED execHandlerVars)
-----------------------------------------------------------------------------
(* The end of lgo-internal: main.go 207-223, kernel.go 305-308.            *)

\* The loop of the front end, or Server.Loop, has returned.
Leave ==
  /\ life = "up"
  /\ IF mode = "kernel" THEN hpc = Idle ELSE fpc = "leave"
  /\ life' = "leaving" /\ cpc' = [cpc EXCEPT !["internal"] = "src"]
  /\ UNCHANGED <<runnerVars, execHandlerVars, frontVars, failed, orphans>>

Exit ==
  /\ life = "leaving" /\ cpc["internal"] = "done" /\ life' = "gone" /\ Forgets
  /\ UNCHANGED <<fileVars, mode, signals, cpc, failed, orphans>>

\* A kill, os.Exit in lgo code, a panic of FilePanics; or the Go runtime, when Complete
\* or Inspect, in a goroutine of its own, iterates over a map while Register writes to it.
Die ==
  /\ life # "gone" /\ life' = "gone" /\ orphans' = builders /\ Forgets
  /\ UNCHANGED <<fileVars, mode, signals, cpc, failed>>

\* The launcher waits for lgo-internal, whose signals it ignores, and cleans too.
LauncherCleans ==
  /\ life = "gone" /\ cpc["launcher"] = "idle"
  /\ cpc' = [cpc EXCEPT !["launcher"] = "src"]
  /\ UNCHANGED <<runnerVars, execHandlerVars, frontVars, life, failed, orphans>>

\* Only the front ends asked to be told of the launcher's death, by SIGUSR1; for the
\* others it does not matter when it dies.
LauncherKilled ==
  /\ cpc["launcher"] = "idle" /\ cpc' = [cpc EXCEPT !["launcher"] = "killed"]
  /\ \/ life = "up" /\ mode # "kernel" /\ ProcessDone
     \/ life = "gone" /\ UNCHANGED <<procCtx, runCtx, reached, termAt>>
  /\ UNCHANGED <<sessionVars, runVars, fileVars, loaded, execHandlerVars,
                 mode, fpc, watcher, signals, life, failed, orphans>>
-----------------------------------------------------------------------------
(* CleanSession and cleanSharedLibs, cleanup.go.                           *)

\* Process a removes the files of one kind, or cannot, and goes on in any case.
Remove(a, kind) ==
  \/ files' = {f \in files : f[1] # kind} /\ UNCHANGED failed
  \/ failed' = failed \cup {<<a, kind>>} /\ UNCHANGED files

CleanSrc(a) ==
  /\ cpc[a] = "src" /\ Remove(a, "src") /\ cpc' = [cpc EXCEPT ![a] = "libs"]

\* If the directory cannot be listed, the archives are not removed either.
CleanSharedLibs(a) ==
  /\ cpc[a] = "libs"
  /\ \/ Remove(a, "lib") /\ cpc' = [cpc EXCEPT ![a] = "archives"]
     \/ /\ failed' = failed \cup {<<a, "lib">>, <<a, "archive">>}
        /\ cpc' = [cpc EXCEPT ![a] = "done"] /\ UNCHANGED files

\* Mutant: the archives are forgotten.
CleanArchivesNot(a) ==
  /\ cpc[a] = "archives" /\ UNCHANGED <<files, failed>> /\ cpc' = [cpc EXCEPT ![a] = "done"]

CleanArchives(a) ==
  /\ cpc[a] = "archives" /\ Remove(a, "archive") /\ cpc' = [cpc EXCEPT ![a] = "done"]

CleanSession(a) ==
  /\ a = "internal" => life = "leaving"
  /\ CleanSrc(a) \/ CleanSharedLibs(a) \/ CleanArchives(a)
  /\ UNCHANGED <<sessionVars, runVars, runCtx, builders, loaded,
                 execHandlerVars, frontVars, life, orphans>>
-----------------------------------------------------------------------------
InternalStep ==
  /\ life = "up"
  /\ \/ RunStep /\ UNCHANGED <<execHandlerVars, frontVars>>
     \/ KernelStep
     \/ FrontStep /\ UNCHANGED execHandlerVars
  /\ UNCHANGED lifeVars

Builder ==
  /\ \E e \in Runs : BuilderInstalls(e) \/ BuilderEnds(e)
  /\ UNCHANGED <<execHandlerVars, frontVars, lifeVars>>

Next ==
  \/ InternalStep
  \/ (life = "up" /\ (Environment \/ CodeReturns) /\ UNCHANGED lifeVars)
  \/ Builder
  \/ Leave \/ Exit \/ Die \/ LauncherCleans \/ LauncherKilled
  \/ \E a \in Processes : CleanSession(a)

\* The goroutines of lgo-internal and the processes it started go on; what the user,
\* the client and lgo code do is their own choice, but lgo code whose context is done
\* is given up (CallReturns of LgoCore).
Fairness ==
  /\ WF_allVars(InternalStep) /\ WF_allVars(Builder)
  /\ WF_allVars(life = "up" /\ runCtx /\ CodeReturns /\ UNCHANGED lifeVars)
  /\ WF_allVars(mode # "kernel" /\ Leave) /\ WF_allVars(Exit)
  /\ WF_allVars(FilePanics /\ Die) /\ WF_allVars(CleanSession("internal"))

Spec == Init /\ [][Next]_allVars /\ Fairness
-----------------------------------------------------------------------------
\* Whatever ends lgo-internal, a clean-up leaves only what it was refused to remove,
\* and what a `go install` writes that outlived lgo-internal (cmd/lgo/main.go 78-79).
LeftoversExplained ==
  \A a \in Processes : cpc[a] = "done" =>
    \A f \in files : <<a, f[1]>> \in failed \/ f[2] \in orphans

\* A handler whose context is done replies, unless a child process keeps the pipes
\* open for ever (kernel.go 184-187): what KernelServer assumes of its handlers.
HandlerReturns ==
  <>[](children = {}) => (hpc # Idle /\ runCtx ~> hpc = Idle \/ life = "gone")

\* A termination signal during a run ends lgo-internal, and a prompt that waits is
\* the only thing that delays it (main.go 71-79, 123-127).
TerminationEnds == procCtx /\ fpc = "run" ~> life = "gone"
=============================================================================
