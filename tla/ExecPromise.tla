---------------------------- MODULE ExecPromise ----------------------------
(***************************************************************************)
(* What ExecLgoEntryPoint (core/core.go) promises its caller, without any  *)
(* flag, counter, lock or helper goroutine: executions run one after the   *)
(* other; a call returns when the code of its execution is over or its     *)
(* context has been cancelled; it returns nil only if no routine of the    *)
(* code has failed or been thrown out, and then none ever will.            *)
(***************************************************************************)
EXTENDS Integers

CONSTANT Execs          \* the executions, numbered in the order they start

VARIABLES
  phase,       \* phase[e]: "idle", "running", returned "nil" or an "error"
  over,        \* over[e]: every routine of the code has ended
  failed,      \* failed[e]: one of them panicked or bailed out
  cancelled    \* cancelled[e]: the context is done

vars == <<phase, over, failed, cancelled>>

Init == /\ phase     = [e \in Execs |-> "idle"]
        /\ over      = [e \in Execs |-> FALSE]
        /\ failed    = [e \in Execs |-> FALSE]
        /\ cancelled = [e \in Execs |-> FALSE]

Begin(e) ==
  /\ phase[e] = "idle"
  /\ \A f \in Execs : /\ f < e => phase[f] \in {"nil", "error"}
                      /\ f > e => phase[f] = "idle"
  /\ phase' = [phase EXCEPT ![e] = "running"]
  /\ UNCHANGED <<over, failed, cancelled>>

Cancel(e) ==
  /\ phase[e] # "idle"
  /\ cancelled' = [cancelled EXCEPT ![e] = TRUE]
  /\ UNCHANGED <<phase, over, failed>>

\* A routine ends badly: not after the caller was told that all went well.
Fail(e) ==
  /\ phase[e] \in {"running", "error"} /\ ~over[e]
  /\ failed' = [failed EXCEPT ![e] = TRUE]
  /\ UNCHANGED <<phase, over, cancelled>>

\* The last routine ends.
End(e) ==
  /\ phase[e] # "idle"
  /\ over' = [over EXCEPT ![e] = TRUE]
  /\ UNCHANGED <<phase, failed, cancelled>>

Return(e) ==
  /\ phase[e] = "running"
  /\ over[e] \/ cancelled[e]
  /\ \/ phase' = [phase EXCEPT ![e] = "error"]
     \/ ~failed[e] /\ phase' = [phase EXCEPT ![e] = "nil"]
  /\ UNCHANGED <<over, failed, cancelled>>

Next == \E e \in Execs : Begin(e) \/ Cancel(e) \/ Fail(e) \/ End(e) \/ Return(e)

Spec == Init /\ [][Next]_vars
=============================================================================
