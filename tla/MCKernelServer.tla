--------------------------- MODULE MCKernelServer ---------------------------
(* Small instances of KernelServer for TLC. *)
EXTENDS KernelServerInv, TLC

CONSTANTS e1, e2, e3, q1, k1, x1      \* requests, as model values

\* Two execute requests come on shell; a third one, and one request of each of
\* the other kinds, on control.
Routed == ({"shell"} \X (Execs \cap {e1, e2}))
            \cup ({"control"} \X (Requests \ {e1, e2}))

Symmetric == Permutations({e1, e2})
=============================================================================
