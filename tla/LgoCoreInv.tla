----------------------------- MODULE LgoCoreInv -----------------------------
(*************************************************************************)
(* The inductive invariant behind the safety properties of LgoCore, as a *)
(* conjunction of named parts.  TLC checks it on the small instances of  *)
(* MCLgoCore; LgoCoreProofs proves it inductive for every instance.      *)
(*************************************************************************)
EXTENDS LgoCore

RunPcs == {"run", "spawn", "poll", "select", "ended"}   \* registered, not recorded
PendingPcs == {"init", "reg"}                           \* inside InitGoroutine
EndPcs == {"recorded", "cancel", "exit"}

\* How far ExecLgoEntryPoint has come with execution e.
Started(e)   == e < cur \/ (e = cur /\ callerPc \notin {"starting", "created", "installed"})
Waited(e)    == e < cur \/ (e = cur /\ callerPc \in {"waiting", "report", "reportSub", "idle"})
PastReset(e) == e < cur \/ (e = cur /\ callerPc \in {"report", "reportSub", "idle"})
PastMain(e)  == e < cur \/ (e = cur /\ callerPc \in {"reportSub", "idle"})

\* execState is the execution between setExecState and resetExecState.
Current ==
  execState = IF callerPc \in {"installed", "started", "waiting"} THEN cur ELSE Nil

\* Where main routines, goroutines and the results of both come from.
Mains == \A e \in Execs :
  /\ ectx[e] = e /\ home[e] = e
  /\ rpc[e] \notin {"init", "reg", "cancel"}
  /\ rpc[e] = "unborn" <=> ~Started(e)

Children == \A c \in Subs :
  IF rpc[c] = "unborn" THEN home[c] = Nil /\ ectx[c] = Nil
                       ELSE home[c] \in Execs /\ Started(home[c])

Bodies == \A r \in Routines :
  /\ res[r] = "none" <=> rpc[r] \notin EndPcs \cup {"ended"}
  /\ ectx[r] = Nil => rpc[r] \in RunPcs \cup {"unborn"}
  /\ rpc[r] = "cancel" => res[r] # "ok"

\* A goroutine inside InitGoroutine has its parent waiting for it; when the
\* state it read is its own execution's, so is the parent's.
Spawners ==
  /\ \A c \in Subs : rpc[c] \in PendingPcs =>
       /\ rpc[spawner[c]] = "spawn" /\ home[spawner[c]] = home[c]
       /\ ectx[c] = home[c] => ectx[spawner[c]] = home[c]
  /\ \A c, d \in Subs :
       (rpc[c] \in PendingPcs /\ rpc[d] \in PendingPcs /\ spawner[c] = spawner[d])
         => c = d

Helpers ==
  \A e \in Execs :
    /\ timer[e] \in {"sleep", "exit"} => ctxDone[e]
    /\ waitDone[e] => timer[e] = "exit" \/ waiter[e] \in {"cancel", "exit"}
    /\ timer[e] # "none" \/ waiter[e] # "none" \/ waitDone[e] => Waited(e)
    /\ PastReset(e) => waitDone[e]

\* A routine is registered with another execution than its own (or with none)
\* only after its own gave up waiting for it.
Lineage ==
  \A r \in Routines : rpc[r] # "unborn" /\ ectx[r] # home[r] =>
                        timer[home[r]] = "exit" /\ PastReset(home[r])

Released ==
  \A e \in Execs : waiter[e] \in {"woken", "cancel", "exit"} =>
                     CodeOver(e) \/ timer[e] = "exit"

MainActive == \A e \in Execs :
  mainCounter[e].active = IF rpc[e] \in RunPcs THEN 1 ELSE 0

\* No bad result is forgotten.
Results ==
  \A r \in Routines : rpc[r] \in EndPcs =>
    LET c == IF r \in Execs THEN mainCounter[r] ELSE subCounter[ectx[r]]
    IN  /\ res[r] = "fail"    => c.fail > 0
        /\ res[r] = "bailout" => c.cancel > 0

\* A routine that is about to look at another context than its own execution's
\* belongs to a cancelled execution.
Polls ==
  \A r \in Routines : rpc[r] = "select" /\ polled[r] # home[r] => ctxDone[home[r]]

EndedWell(r) == rpc[r] \in {"recorded", "exit"} /\ res[r] = "ok"

Reports ==
  \A e \in Execs :
    /\ PastMain(e) /\ report[e].main = "silent" => EndedWell(e)
    /\ Returned(e) /\ NoMessage(e) =>
         \A r \in Routines : home[r] = e /\ ectx[r] = e => EndedWell(r)

Structure == Current /\ Mains /\ Children /\ Bodies /\ Spawners
Waits     == Helpers /\ Lineage /\ Released
IInv == /\ TypeOK /\ Structure /\ Waits /\ CountersExact
        /\ MainActive /\ Results /\ Reports /\ Polls /\ BailoutJustified

-----------------------------------------------------------------------------
(* Cancellation: who may cancel an execution, and how it shows.            *)

Caused(e) == \/ parentDone[e] \/ waiter[e] \in {"cancel", "exit"}
             \/ \E c \in Subs : ectx[c] = e /\ res[c] = "fail"

Causes == \A e \in Execs : ctxDone[e] \/ cancelPc[e] # "none" => Caused(e)

\* There is nothing to cancel before newExecutionState.
Begun == \A e \in Execs : watcher[e] # "none" \/ cancelPc[e] # "none" => Created(e)

\* InitGoroutine finds only executions that setExecState has installed.
Joined == \A r \in Routines :
  rpc[r] # "unborn" /\ ectx[r] # Nil => Installed(ectx[r])

\* A routine about to look at another context than that of the execution it is
\* registered with belongs to one whose wait is over.
Glances == \A r \in Routines :
  rpc[r] = "select" /\ ectx[r] \notin {Nil, polled[r]} => PastReset(ectx[r])

\* By the time a routine is thrown out, its execution has another reason to be
\* cancelled than the call of cancel() this leads to.
Thrown == \A r \in Routines : res[r] = "bailout" /\ ectx[r] # Nil => Caused(ectx[r])

\* cancel() finds its own execution current, or done with, unless its parent
\* was done before setExecState.
Prompt == ~EarlyCancel => \A e \in Execs :
  /\ parentDone[e] \/ cancelPc[e] # "none" => Installed(e)
  /\ execState = e /\ cancelPc[e] \in {"ctx", "done"} => isRunning = 0

CancelInv == Causes /\ Begun /\ Joined /\ Glances /\ Thrown /\ Prompt
CoreInv   == IInv /\ CancelInv
=============================================================================
