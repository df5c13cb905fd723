----------------------------- MODULE SessionInv ------------------------------
(***************************************************************************)
(* The inductive invariant of Session, in named parts: first the runner,   *)
(* then who calls it and under which context, the files, and the pipes.    *)
(***************************************************************************)
EXTENDS Session

Failures == {"error", "panic"}
Before   == {"convert", "register", "write", "deps", "build", "building", "load"}

\* TypeOK bounds what these functions return; here they have their domains as well.
Shapes ==
  /\ inPipe \in [Requests -> [Streams -> {<<>>} \cup {<<c>> : c \in Chunks}]]
  /\ reader \in [Requests -> [Streams -> {"none", "read", "send", "ended", "gone"}]]
  /\ buf \in [Requests -> [Streams -> Chunks]]
  /\ writing \in [Runs -> {NoFile} \cup [s : Streams, r : 0 .. MaxRuns]]

\* The numbers: the block at work has no result yet and is loaded for its execution
\* only; no later number has been used.
Numbered ==
  /\ rpc # "idle" => execCount \in Runs
  /\ rpc \notin {"idle", "returned"} => outcome[execCount] = "none"
  /\ \A e \in Runs : e > execCount => outcome[e] = "none" /\ e \notin loaded
  /\ rpc \in Before => execCount \notin loaded
  /\ rpc = "exec" => execCount \in loaded

\* The names: those of the block at work are its own, and none while it is converted.
Named ==
  /\ pending \subseteq block.defs /\ (rpc = "idle" => pending = {})
  /\ \A n \in Names : vars[n] <= execCount
  /\ rpc = "convert" => \A n \in Names : vars[n] # execCount
  /\ rpc \notin {"idle", "returned"} => \A n \in Names : vars[n] = execCount => n \in block.defs

OldsBacked == \A e \in olds : e \in loaded \/ outcome[e] \in Failures

\* Who runs a block: the handler, or the front end of the mode.
Roles ==
  /\ mode # "kernel" => hpc = Idle /\ hcount = 0 /\ (rpc = "idle" <=> fpc # "run")
  /\ mode = "kernel" => fpc = "loop" /\ ~procCtx /\ (rpc = "idle" <=> hpc # "running")

\* A termination: the blocks that come after it have a context that is done.
Terminated ==
  /\ procCtx <=> termAt # -1
  /\ termAt <= execCount
  /\ procCtx /\ termAt < execCount =>
       rpc \notin {"building", "load", "exec"} /\ (rpc # "idle" => runCtx)

\* Only the goroutine of the run at work awaits a SIGINT, and only in the loop over lines.
Watched ==
  /\ \A e \in Runs : watcher[e] \in {"starting", "waiting"} =>
       e = execCount /\ fpc = "run" /\ mode = "repl"
  /\ fpc = "prompt" => mode = "repl"

\* The processes: who may still write files, and who cleans.
Lives ==
  /\ life = "up" => cpc["internal"] = "idle"
  /\ life = "up" => builders \subseteq {execCount} /\ (builders # {} => rpc = "building")
  /\ life = "leaving" => builders = {}
  /\ life = "gone" => builders \subseteq orphans
  /\ life # "gone" => orphans = {} /\ cpc["launcher"] \in {"idle", "killed"}

\* The files of one kind that process a did not have to leave are gone.
Removed(a, kind) ==
  \A f \in files : f[1] = kind => <<a, kind>> \in failed \/ f[2] \in orphans
Cleaned ==
  \A a \in Processes :
    /\ cpc[a] \in {"libs", "archives", "done"} => Removed(a, "src")
    /\ cpc[a] \in {"archives", "done"} => Removed(a, "lib")
    /\ cpc[a] = "done" => Removed(a, "archive")

\* The pipes of the request at work, by where the handler is.
Ends(out, err) == writeEnd[hcount]["out"] = out /\ writeEnd[hcount]["err"] = err
AtWork ==
  /\ hpc # Idle => hcount \in Requests /\ replied[hcount] = "none"
  /\ hpc = Idle /\ hcount \in Requests => replied[hcount] # "none"
  /\ \A r \in Requests : r > hcount =>
       /\ replied[r] = "none"
       /\ \A s \in Streams : writeEnd[r][s] = "none"
  /\ hpc = "stderr" => Ends("open", "none")
  /\ hpc \in {"run", "running", "closeOut"} => Ends("open", "open")
  /\ hpc = "closeErr" => Ends("closed", "open")
  /\ hpc = "wait" => Ends("closed", "closed")
  /\ hpc \in {"closeOut", "closeErr"} => awaited = 2

\* What the two variables of the os package are.
Redirected ==
  /\ origs["err"] = 0 /\ origs["out"] \in {0} \cup Broken
  /\ std["err"] = IF hpc \in {"run", "running", "closeOut", "closeErr"} THEN hcount ELSE 0
  /\ IF hpc \in {"stderr", "run", "running", "closeOut"}
     THEN std["out"] = hcount ELSE std["out"] \in {0} \cup Broken

\* Nothing of what a pipe accepted is lost on its way.
InTransit(r, s) ==
  (IF inPipe[r][s] = <<>> THEN {} ELSE {Head(inPipe[r][s])}) \cup
  (IF reader[r][s] = "send" THEN {buf[r][s]} ELSE {})
Carried ==
  \A r \in Requests : accepted[r] = streamed[r] \cup InTransit(r, "out") \cup InTransit(r, "err")

\* A reader: there is one as soon as there is a pipe, and it ends when nobody can write.
Readers ==
  \A r \in Requests, s \in Streams :
    /\ reader[r][s] = "none" <=> writeEnd[r][s] = "none"
    /\ writeEnd[r][s] = "none" => inPipe[r][s] = <<>>
    /\ reader[r][s] \in {"ended", "gone"} =>
         inPipe[r][s] = <<>> /\ writeEnd[r][s] = "closed" /\ r \notin children
    /\ reader[r][s] = "gone" => (hpc # Idle /\ r = hcount) \/ replied[r] # "none"
    /\ r \in children => writeEnd[r][s] # "none"

\* The replies: each waited for both readers, or its request never had two pipes.
Left(s) == IF reader[hcount][s] = "gone" THEN 0 ELSE 1
Replies ==
  /\ hpc \in {"closeOut", "closeErr", "wait"} => awaited = Left("out") + Left("err")
  /\ \A r \in Requests : replied[r] # "none" =>
       \/ \A s \in Streams : reader[r][s] = "gone"
       \/ /\ writeEnd[r]["out"] # "closed" /\ writeEnd[r]["err"] = "none"
          /\ replied[r] = "error"

\* A run that failed has been told on stderr once the handler has seen its end.
Told ==
  \/ hpc \in {"closeOut", "closeErr", "wait"}
  \/ (hpc = Idle /\ hcount \in Requests /\ writeEnd[hcount]["err"] = "closed")
  => outcome[execCount] = "nil" \/ Failure \in accepted[hcount]

RunnerInv  == Numbered /\ Named /\ NamesBacked /\ OldsBacked
ContextInv == Roles /\ Watched /\ Terminated /\ OwnContext /\ TerminationStops
FilesInv   == Lives /\ Cleaned
PipesInv   == AtWork /\ Redirected /\ Carried /\ Readers /\ Replies /\ Told

Inv == TypeOK /\ Shapes /\ RunnerInv /\ ContextInv /\ FilesInv /\ PipesInv
=============================================================================
