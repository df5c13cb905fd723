-------------------------- MODULE ExecuteService --------------------------
(***************************************************************************)
(* What a client of the kernel can rely on for its execute requests,       *)
(* without the goroutines, channels and inner sockets that provide it:     *)
(* the requests of a socket are served one at a time, in the order they    *)
(* were sent and each at most once; every answer reaches the socket its    *)
(* request came from, in that order; after a failure that stops, requests  *)
(* are answered "abort" without being executed until the kernel resumes.   *)
(***************************************************************************)
EXTENDS Integers, Sequences

CONSTANTS Socks, Execs, StopOnError, NoReq

VARIABLES
  asked,      \* asked[s]: the requests sent on socket s, in order
  taken,      \* taken[s]: how many of them have been taken up
  serving,    \* the request being served, or NoReq
  answered,   \* the one being served has been answered
  executing,  \* the one being served is really executed
  stopping,   \* requests are being aborted
  answers     \* answers[s]: what was sent back on s

vars == <<asked, taken, serving, answered, executing, stopping, answers>>

Init == /\ asked   = [s \in Socks |-> <<>>]
        /\ taken   = [s \in Socks |-> 0]
        /\ answers = [s \in Socks |-> <<>>]
        /\ serving = NoReq
        /\ answered = FALSE /\ executing = FALSE /\ stopping = FALSE

Ask(s, r) ==
  /\ \A t \in Socks : \A i \in 1 .. Len(asked[t]) : asked[t][i] # r
  /\ asked' = [asked EXCEPT ![s] = Append(@, r)]
  /\ UNCHANGED <<taken, serving, answered, executing, stopping, answers>>

Take(s) ==
  /\ serving = NoReq /\ taken[s] < Len(asked[s])
  /\ taken' = [taken EXCEPT ![s] = @ + 1]
  /\ serving' = asked[s][taken[s] + 1]
  /\ UNCHANGED <<asked, answered, executing, stopping, answers>>

Execute ==
  /\ serving # NoReq /\ ~stopping /\ ~answered
  /\ executing' = TRUE
  /\ UNCHANGED <<asked, taken, serving, answered, stopping, answers>>

\* An answer goes to a socket the request was sent on.
Answer(s, v) ==
  /\ serving # NoReq /\ ~answered /\ \E i \in 1 .. taken[s] : asked[s][i] = serving
  /\ IF stopping THEN v = "abort" ELSE executing /\ v # "abort"
  /\ answers' = [answers EXCEPT ![s] = Append(@, [req |-> serving, status |-> v])]
  /\ answered' = TRUE
  /\ UNCHANGED <<asked, taken, serving, executing, stopping>>

\* Only a request that asks for it stops the others.
Done ==
  /\ serving # NoReq
  /\ serving' = NoReq /\ answered' = FALSE /\ executing' = FALSE
  /\ stopping' \in IF serving \in StopOnError THEN BOOLEAN ELSE {stopping}
  /\ stopping => stopping'
  /\ UNCHANGED <<asked, taken, answers>>

Resume ==
  /\ stopping /\ serving = NoReq
  /\ stopping' = FALSE
  /\ UNCHANGED <<asked, taken, serving, answered, executing, answers>>

Next == \/ \E s \in Socks : \/ \E r \in Execs : Ask(s, r)
                            \/ Take(s)
                            \/ \E v \in {"ok", "error", "abort"} : Answer(s, v)
        \/ Execute \/ Done \/ Resume

Spec == Init /\ [][Next]_vars
=============================================================================
