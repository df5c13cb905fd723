------------------------------- MODULE Runner -------------------------------
(***************************************************************************)
(* LgoRunner of cmd/runner: one block at a time is converted, registered   *)
(* in the session, written, built by a child process, loaded and executed. *)
(*                                                                         *)
(* A block is what the session can tell of it: the names it declares, uses *)
(* and imports, and whether it has statements.  Why the converter, the     *)
(* file system or the compiler refuse a block is not modelled, only that   *)
(* they may.  ExecLgoEntryPoint is known by ExecPromise: it returns, at    *)
(* the latest when its context is done, nil or an error.                   *)
(***************************************************************************)
EXTENDS Integers, FiniteSets

CONSTANTS
  Names,      \* the names that blocks declare
  Packages,   \* the names of imported packages
  Blocks,     \* bound: the blocks that may be run
  MaxRuns     \* bound: how many blocks are run

Runs    == 1 .. MaxRuns
Results == {"none", "nil", "error", "panic"}

ASSUME BlocksAssumption ==
  \A b \in Blocks : /\ b.defs \subseteq Names /\ b.uses \subseteq Names \cup Packages
                    /\ b.imports \subseteq Packages /\ b.code \in BOOLEAN
ASSUME RunsAssumption == MaxRuns \in Nat /\ Names \cap Packages = {}

VARIABLES
  execCount,  \* rn.execCount: the number of the package of the last block
  vars,       \* rn.vars: the run that declared a name, 0 for an unknown name
  imports,    \* rn.imports
  rpc,        \* where Run is
  block,      \* the block it runs
  pending,    \* the names of the block that are not in the session yet
  olds,       \* the runs whose names the converted block uses
  outcome,    \* what Run returned, per run
  runCtx,     \* the context given to Run is done
  files,      \* the files of the session: sources, archives, libraries
  builders,   \* the runs whose `go install` is alive
  loaded      \* the runs whose library was opened

sessionVars == <<execCount, vars, imports>>
runVars     == <<rpc, block, pending, olds, outcome>>
fileVars    == <<files, builders>>
runnerVars  == <<sessionVars, runVars, runCtx, fileVars, loaded>>

NoBlock == [defs |-> {}, uses |-> {}, imports |-> {}, code |-> FALSE]

\* What is in the memory of lgo-internal when it starts.
RunnerMemory ==
  /\ execCount = 0 /\ vars = [n \in Names |-> 0] /\ imports = {}
  /\ rpc = "idle" /\ block = NoBlock /\ pending = {} /\ olds = {}
  /\ outcome = [e \in Runs |-> "none"]
  /\ runCtx = FALSE /\ loaded = {}

\* The process ends; what is on the disk stays, and so do its children.
RunnerForgets ==
  /\ execCount' = 0 /\ vars' = [n \in Names |-> 0] /\ imports' = {}
  /\ rpc' = "idle" /\ block' = NoBlock /\ pending' = {} /\ olds' = {}
  /\ outcome' = [e \in Runs |-> "none"]
  /\ runCtx' = FALSE /\ loaded' = {}

RunnerTypeOK ==
  /\ execCount \in 0 .. MaxRuns /\ vars \in [Names -> 0 .. MaxRuns]
  /\ imports \subseteq Packages
  /\ rpc \in {"idle", "convert", "register", "write", "deps", "build", "building",
              "load", "exec", "returned"}
  /\ block \in Blocks \cup {NoBlock} /\ pending \subseteq Names /\ olds \subseteq Runs
  /\ outcome \in [Runs -> Results]
  /\ runCtx \in BOOLEAN
  /\ files \subseteq {"src", "archive", "lib"} \X Runs
  /\ builders \subseteq Runs /\ loaded \subseteq Runs

Known == {n \in Names : vars[n] # 0} \cup imports
-----------------------------------------------------------------------------
(* Run, lines 153-210.                                                     *)

Return(result) ==
  /\ rpc' = "returned" /\ outcome' = [outcome EXCEPT ![execCount] = result]

\* Mutant: the number is used up only by blocks that were built.
RunCalledKeepingCount(b) ==
  /\ rpc = "idle" /\ execCount < MaxRuns
  /\ execCount' = IF execCount > 0 /\ outcome[execCount] = "error"
                  THEN execCount ELSE execCount + 1
  /\ block' = b /\ rpc' = "convert"
  /\ UNCHANGED <<vars, imports, pending, olds, outcome, fileVars, loaded>>

\* The caller calls Run: the number of the block is used up at once, whatever
\* becomes of the block.
RunCalled(b) ==
  /\ rpc = "idle" /\ execCount < MaxRuns
  /\ execCount' = execCount + 1
  /\ block' = b /\ rpc' = "convert"
  /\ UNCHANGED <<vars, imports, pending, olds, outcome, fileVars, loaded>>

\* Convert refuses the block, or panics; an unknown name is always refused.
ConvertFails ==
  /\ rpc = "convert"
  /\ \E result \in {"error", "panic"} : Return(result)
  /\ UNCHANGED <<sessionVars, block, pending, olds, runCtx, fileVars, loaded>>

Converted ==
  /\ rpc = "convert" /\ block.uses \subseteq Known \cup block.imports
  /\ rpc' = "register" /\ pending' = block.defs
  /\ olds' = {vars[n] : n \in block.uses \cap Names} \ {0}
  /\ UNCHANGED <<sessionVars, block, outcome, runCtx, fileVars, loaded>>

\* A name enters the session, in the middle of a query's iteration perhaps.
Register(n) ==
  /\ rpc = "register" /\ n \in pending
  /\ vars' = [vars EXCEPT ![n] = execCount] /\ pending' = pending \ {n}
  /\ UNCHANGED <<execCount, imports, rpc, block, olds, outcome, runCtx,
                 fileVars, loaded>>

\* So do the imports; a block without declarations and statements ends here.
Registered ==
  /\ rpc = "register" /\ pending = {}
  /\ imports' = imports \cup block.imports
  /\ IF block.defs = {} /\ ~block.code
     THEN Return("nil")
     ELSE rpc' = "write" /\ UNCHANGED outcome
  /\ UNCHANGED <<execCount, vars, block, pending, olds, runCtx, fileVars, loaded>>

\* MkdirAll and WriteFile; the directory may be left without its file.
WriteSrc ==
  /\ rpc = "write"
  /\ \/ files' = files \cup {<<"src", execCount>>} /\ rpc' = "deps" /\ UNCHANGED outcome
     \/ files' \in {files, files \cup {<<"src", execCount>>}} /\ Return("error")
  /\ UNCHANGED <<sessionVars, block, pending, olds, runCtx, builders, loaded>>

InstallDeps ==
  /\ rpc = "deps"
  /\ \/ rpc' = "build" /\ UNCHANGED outcome
     \/ Return("error")
  /\ UNCHANGED <<sessionVars, block, pending, olds, runCtx, fileVars, loaded>>

\* Mutant: exec.Command, which knows no context.
StartBuildAnyway ==
  /\ rpc = "build"
  /\ rpc' = "building" /\ builders' = builders \cup {execCount}
  /\ UNCHANGED <<sessionVars, block, pending, olds, outcome, runCtx, files, loaded>>

\* CommandContext does not start the command when the context is done.
StartBuild ==
  /\ rpc = "build"
  /\ IF runCtx
     THEN Return("error") /\ UNCHANGED builders
     ELSE rpc' = "building" /\ builders' = builders \cup {execCount} /\ UNCHANGED outcome
  /\ UNCHANGED <<sessionVars, block, pending, olds, runCtx, files, loaded>>

\* Mutant: a failed build is no error.
AwaitBuildQuietly ==
  /\ rpc = "building"
  /\ \/ /\ execCount \notin builders /\ <<"lib", execCount>> \in files
        /\ rpc' = "load" /\ UNCHANGED <<outcome, builders>>
     \/ /\ execCount \notin builders \/ runCtx
        /\ Return("nil") /\ builders' = builders \ {execCount}
  /\ UNCHANGED <<sessionVars, block, pending, olds, runCtx, files, loaded>>

\* The command ended, or the context is done and CommandContext kills it.
AwaitBuild ==
  /\ rpc = "building"
  /\ \/ /\ execCount \notin builders /\ <<"lib", execCount>> \in files
        /\ rpc' = "load" /\ UNCHANGED <<outcome, builders>>
     \/ /\ execCount \notin builders \/ runCtx
        /\ Return("error") /\ builders' = builders \ {execCount}
  /\ UNCHANGED <<sessionVars, block, pending, olds, runCtx, files, loaded>>

\* loadShared: dlopen fails, and Run panics, or the package is there for good.
Load ==
  /\ rpc = "load"
  /\ \/ Return("panic") /\ UNCHANGED loaded
     \/ /\ loaded' = loaded \cup {execCount}
        /\ IF block.code THEN rpc' = "exec" /\ UNCHANGED outcome ELSE Return("nil")
  /\ UNCHANGED <<sessionVars, block, pending, olds, runCtx, fileVars>>

ExecReturns ==
  /\ rpc = "exec"
  /\ \E result \in {"nil", "error"} : Return(result)
  /\ UNCHANGED <<sessionVars, block, pending, olds, runCtx, fileVars, loaded>>

\* The caller goes on.
RunConsumed ==
  /\ rpc = "returned" /\ rpc' = "idle" /\ block' = NoBlock /\ olds' = {} /\ pending' = {}
  /\ UNCHANGED <<sessionVars, outcome, fileVars, loaded>>

RunStep ==
  \/ ConvertFails \/ Converted \/ (\E n \in Names : Register(n)) \/ Registered
  \/ WriteSrc \/ InstallDeps \/ StartBuild \/ AwaitBuild \/ Load
-----------------------------------------------------------------------------
(* The child process of line 202, which may outlive the process.           *)

BuilderInstalls(e) ==
  /\ e \in builders
  /\ files' = files \cup {IF <<"archive", e>> \in files THEN <<"lib", e>>
                                                         ELSE <<"archive", e>>}
  /\ UNCHANGED <<sessionVars, runVars, runCtx, builders, loaded>>

BuilderEnds(e) ==
  /\ e \in builders /\ builders' = builders \ {e}
  /\ UNCHANGED <<sessionVars, runVars, runCtx, files, loaded>>
-----------------------------------------------------------------------------
\* A run that failed may leave its names in the session; any other name of the
\* session belongs to a package that is loaded.
NamesBacked ==
  \A n \in Names : vars[n] # 0 =>
    \/ vars[n] \in loaded
    \/ outcome[vars[n]] \in {"error", "panic"}
    \/ vars[n] = execCount /\ rpc \notin {"idle", "returned"}

\* A block executes only if every name it uses belongs to a package that is loaded,
\* or to a run that had failed before.
ExecBacked ==
  rpc = "exec" => \A e \in olds : e \in loaded \/ outcome[e] \in {"error", "panic"}

\* The names of a session are backed by code: those of a block are registered before
\* it is built and nobody takes them back (runner.go 178-210), yet what a later block
\* is offered, and what it executes with (lines 157-168), is loaded or known to have
\* failed.
SessionBacked == NamesBacked /\ ExecBacked

\* Every package is built and loaded for one block only: a second block under the
\* same number would be given the library dlopen has already opened (line 154, 156).
LoadedOnce ==
  [][\A e \in Runs : e \in loaded => ~(rpc = "load" /\ rpc' = "exec" /\ execCount = e)]_runnerVars
=============================================================================
