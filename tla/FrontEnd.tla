------------------------------ MODULE FrontEnd ------------------------------
(***************************************************************************)
(* The front ends of cmd/lgo-internal/main.go that are not the kernel: the *)
(* loop over lines from a prompt ("repl") and the loop over files          *)
(* ("batch"), the context of the process, and the signals.                 *)
(*                                                                         *)
(* Both channels of signals have no buffer, and signal.Notify drops a      *)
(* signal that no goroutine is waiting for.                                *)
(***************************************************************************)
EXTENDS Runner

CONSTANTS
  MaxSignals    \* bound: how many SIGINTs and terminations are received

ASSUME SignalsAssumption == MaxSignals \in Nat

VARIABLES
  mode,       \* "kernel", "repl" or "batch"
  fpc,        \* where fromStdin or fromFiles is
  procCtx,    \* the context of the process is done
  watcher,    \* watcher[e]: the goroutine that awaits a SIGINT for run e
  signals,    \* how many signals have been received
  reached,    \* history: a signal reached the run at work
  termAt      \* history: execCount when the process context was done, or -1

frontVars == <<mode, fpc, procCtx, watcher, signals, reached, termAt>>

\* What is in the memory of lgo-internal when it starts.
FrontEndMemory ==
  /\ fpc = "loop" /\ procCtx = FALSE /\ watcher = [e \in Runs |-> "none"]
  /\ reached = FALSE /\ termAt = -1

\* The process ends.
FrontEndForgets ==
  /\ fpc' = "loop" /\ procCtx' = FALSE /\ watcher' = [e \in Runs |-> "none"]
  /\ reached' = FALSE /\ termAt' = -1

FrontEndTypeOK ==
  /\ mode \in {"kernel", "repl", "batch"} /\ fpc \in {"loop", "prompt", "run", "leave"}
  /\ procCtx \in BOOLEAN /\ watcher \in [Runs -> {"none", "starting", "waiting", "gone"}]
  /\ signals \in 0 .. MaxSignals /\ reached \in BOOLEAN /\ termAt \in -1 .. MaxRuns
-----------------------------------------------------------------------------
(* fromStdin, lines 121-156.                                               *)

\* Mutant: nobody looks at the context.
LoopIgnoresContext ==
  /\ mode = "repl" /\ fpc = "loop" /\ fpc' = "prompt"
  /\ UNCHANGED <<runnerVars, mode, procCtx, watcher, signals, reached, termAt>>

\* The context of the process is looked at here only.
LoopChecksContext ==
  /\ mode = "repl" /\ fpc = "loop"
  /\ fpc' = IF procCtx THEN "leave" ELSE "prompt"
  /\ UNCHANGED <<runnerVars, mode, procCtx, watcher, signals, reached, termAt>>

\* A block, or the end of input; Ctrl-D in the middle of a block gives an empty one.
NextReturns ==
  /\ fpc = "prompt"
  /\ \/ /\ \E b \in Blocks \cup {NoBlock} : RunCalled(b)
        /\ runCtx' = procCtx /\ fpc' = "run"
        /\ watcher' = [watcher EXCEPT ![execCount'] = "starting"]
        /\ reached' = procCtx
     \/ fpc' = "leave" /\ UNCHANGED <<runnerVars, watcher, reached>>
  /\ UNCHANGED <<mode, procCtx, signals, termAt>>

WatcherStarts(e) ==
  /\ watcher[e] = "starting"
  /\ watcher' = [watcher EXCEPT ![e] = "waiting"]
  /\ UNCHANGED <<runnerVars, mode, fpc, procCtx, signals, reached, termAt>>

\* Mutant: the watcher does not look at its context.
RunEndsAlone ==
  /\ mode = "repl" /\ fpc = "run" /\ RunConsumed /\ runCtx' = TRUE /\ fpc' = "loop"
  /\ UNCHANGED <<mode, procCtx, watcher, signals, reached, termAt>>

\* Run returned, or panicked and the panic is recovered; cancel() ends the watcher.
RunEnds ==
  /\ mode = "repl" /\ fpc = "run" /\ RunConsumed /\ runCtx' = TRUE /\ fpc' = "loop"
  /\ watcher' = [watcher EXCEPT ![execCount] = "gone"]
  /\ UNCHANGED <<mode, procCtx, signals, reached, termAt>>
-----------------------------------------------------------------------------
(* fromFiles, lines 83-95: a file that cannot be read, or fails, is the    *)
(* last one; a panic is not recovered.                                     *)

NextFile ==
  /\ mode = "batch" /\ fpc = "loop"
  /\ \/ /\ \E b \in Blocks : RunCalled(b)
        /\ runCtx' = procCtx /\ reached' = procCtx /\ fpc' = "run"
     \/ fpc' = "leave" /\ UNCHANGED <<runnerVars, reached>>
  /\ UNCHANGED <<mode, procCtx, watcher, signals, termAt>>

FileEnds ==
  /\ mode = "batch" /\ fpc = "run" /\ outcome[execCount] # "panic"
  /\ RunConsumed /\ UNCHANGED runCtx
  /\ fpc' = IF outcome[execCount] = "error" THEN "leave" ELSE "loop"
  /\ UNCHANGED <<mode, procCtx, watcher, signals, reached, termAt>>

FilePanics == mode = "batch" /\ fpc = "run" /\ rpc = "returned" /\ outcome[execCount] = "panic"
-----------------------------------------------------------------------------
(* Signals.                                                                *)

\* The run at work, if its context is done by a signal, is cancelled.
Running == rpc \notin {"idle", "returned"}

\* The goroutine of createProcessContext, lines 71-79, receives one signal only.
ProcessDone ==
  /\ procCtx' = TRUE
  /\ runCtx' = (runCtx \/ fpc = "run") /\ reached' = (reached \/ fpc = "run")
  /\ termAt' = IF procCtx THEN termAt ELSE execCount

\* SIGTERM, SIGQUIT, SIGHUP, or the death of the launcher; of files, SIGINT too.
TerminationSignal ==
  /\ mode # "kernel" /\ signals < MaxSignals /\ signals' = signals + 1
  /\ ProcessDone
  /\ UNCHANGED <<sessionVars, runVars, fileVars, loaded, mode, fpc, watcher>>

Waiting == {e \in Runs : watcher[e] = "waiting"}

\* SIGINT goes to the goroutine that waits longest, or is dropped.
Interrupt ==
  /\ mode = "repl" /\ signals < MaxSignals /\ signals' = signals + 1
  /\ IF Waiting = {}
     THEN UNCHANGED <<runCtx, watcher, reached>>
     ELSE LET e == CHOOSE e \in Waiting : \A f \in Waiting : e <= f
          IN  /\ watcher' = [watcher EXCEPT ![e] = "gone"]
              /\ runCtx' = (runCtx \/ e = execCount)
              /\ reached' = (reached \/ e = execCount)
  /\ UNCHANGED <<sessionVars, runVars, fileVars, loaded,
                 mode, fpc, procCtx, termAt>>

FrontStep ==
  \/ LoopChecksContext \/ (\E e \in Runs : WatcherStarts(e)) \/ RunEnds
  \/ NextFile \/ FileEnds
-----------------------------------------------------------------------------
\* A SIGINT that comes while the goroutine of the run at work waits for it cancels
\* that run: no goroutine of an earlier run takes it (lines 136-142, 145).
InterruptReaches ==
  [][\A e \in Waiting :
       signals' # signals /\ e = execCount /\ fpc = "run" /\ ~procCtx' => runCtx']_<<frontVars, runnerVars>>

\* A block whose context nobody cancelled is never refused or killed for it: the
\* contexts of runs are apart.
OwnContext == mode # "kernel" /\ Running => runCtx = reached

\* After a termination signal no further block is loaded: the loop over lines checks
\* the context, the loop over files relies on the build that refuses to start.
TerminationStops == termAt # -1 => \A e \in loaded : e <= termAt

\* A signal stops the run it came for, or with the process every later one, and no
\* other (lines 71-79, 123-145, runner.go 202).
ContextsApart == OwnContext /\ TerminationStops
=============================================================================
