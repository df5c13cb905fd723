-------------------------- MODULE KernelServerInv --------------------------
(*************************************************************************)
(* The inductive invariant behind the safety properties of KernelServer, *)
(* as a conjunction of named parts.  TLC checks it on an instance of     *)
(* MCKernelServer; KernelServerProofs (SInv, AbortInv) and               *)
(* KernelServerService (OrderInv) prove it inductive.                    *)
(*************************************************************************)
EXTENDS KernelServer

WorkPcs == {"busy", "start", "run", "reply", "cleanup", "idle",
            "abortBusy", "abortReply", "abortIdle"}

Seen(r) == Delivered(r) \/ Underway(r)

\* Whoever works on a request has one, and its result once there is one.
AtWork ==
  /\ epc \in WorkPcs => item # NoReq
  /\ epc = "reply" => result # "none"
  /\ \A s \in Socks : lpc[s] = "push" => held[s] # NoReq

\* What the last poll found is still there when its turn comes.
StillReady == \A s \in Socks :
  /\ "socket" \in todo[s] => inbox[s] # <<>>
  /\ "pull" \in todo[s] => resq[s] # <<>>

\* Every request in the hands of the server has a socket to be answered on.
Sourced ==
  /\ \A s \in Socks : /\ \A i \in DOMAIN inbox[s] : origin[inbox[s][i]] \in Socks
                      /\ held[s] # NoReq => origin[held[s]] \in Socks
  /\ \A i \in DOMAIN queue : origin[queue[i]] \in Socks
  /\ item # NoReq => origin[item] \in Socks
  /\ \A r \in Queries : qpc[r] = "run" => origin[r] \in Socks

\* The request at work has been replied to from PushReply on, and so has every
\* request that was executed before it.
Replied ==
  /\ epc \in {"cleanup", "idle", "abortIdle"} => Seen(item)
  /\ \A r \in ran : Seen(r) \/ (r = item /\ epc \in {"run", "reply"})

\* Once a loop has been told to end, and after it has, no reply to an execute
\* request is left behind: the queue had ended before.
EndLast ==
  /\ mpc # "serving" => epc = "ended"
  /\ mpc = "returned" => \A s \in Socks : lpc[s] = "exited"
  /\ \A s \in Socks :
       /\ lpc[s] = "exited" =>
            epc = "ended" /\ \A i \in DOMAIN resq[s] : resq[s][i].req \notin Execs
       /\ \A i \in DOMAIN resq[s] : resq[s][i] = END_OF_LOOP =>
            epc = "ended" /\ \A j \in DOMAIN resq[s] : j > i => resq[s][j].req \notin Execs

SInv == TypeOK /\ AtWork /\ StillReady /\ Sourced /\ Replied /\ EndLast /\ IdleAfterReply
-----------------------------------------------------------------------------
(* What the aborts rest on: where a request is, and why the queue stops.   *)

Distinct(seq) == \A i, j \in DOMAIN seq : seq[i] = seq[j] => i = j

\* A request waits at one place only, the one its socket leads to, and once it is
\* worked on it waits no more.
Placed ==
  /\ \A s \in Socks :
       /\ Distinct(inbox[s]) /\ \A r \in Contents(inbox[s]) : origin[r] = s
       /\ Contents(inbox[s]) \cap Contents(queue) = {}
       /\ held[s] # NoReq =>
            origin[held[s]] = s /\ held[s] \notin Contents(inbox[s]) \cup Contents(queue)
       /\ lpc[s] # "push" => held[s] = NoReq
  /\ Distinct(queue)
  /\ item # NoReq => item \notin Waiting /\ epc \in WorkPcs
  /\ ran \cap Waiting = {} /\ \A r \in ran : origin[r] \in Socks
  /\ epc \in {"busy", "start"} \cup AbortPcs => item \notin ran

\* The status of a request, by where it is.
Published ==
  /\ \A r \in Execs : (r \in Waiting \/ origin[r] = "none") => pub[r] = "none"
  /\ epc \in {"busy", "abortBusy"} => pub[item] = "none"
  /\ epc \in WorkPcs \ {"busy", "abortBusy"} => pub[item] = "busy"

\* A doomed request waits for its abort in the queue, or has had it.
Stopping ==
  \/ epc \in AbortPcs
  \/ /\ item \in StopOnError
     /\ \/ epc = "reply" /\ result = "error"
        \/ epc \in {"cleanup", "idle"} /\ err
DoomedStopped ==
  \A r \in doomed : /\ r \notin ran /\ origin[r] \in Socks
                   /\ (r \in Waiting => r \in Contents(queue) /\ Stopping)
                   /\ (r = item => epc \in AbortPcs)

\* An abort has been answered to nobody who still waits, and something failed before.
AbortsExplained ==
  /\ \A r \in Execs : AnsweredBy(r, "abort") =>
       r \notin ran \cup Waiting /\ origin[r] \in Socks /\ (r = item => epc = "abortIdle")
  /\ (epc \in {"cleanup", "idle"} /\ err) => AnsweredBy(item, "error")
  /\ (epc \in AbortPcs \/ \E r \in Execs : AnsweredBy(r, "abort")) =>
       \E x \in StopOnError : Failed(x)

AbortInv  == Placed /\ Published /\ DoomedStopped /\ AbortsExplained
-----------------------------------------------------------------------------
(* What ImplementsService rests on: requests keep the order of their socket. *)

AskedOnce == \A s \in Socks :
  Distinct(asked[s]) /\ Contents(asked[s]) = {r \in Execs : origin[r] = s}

Follows(seq, a, b) == \E i, j \in DOMAIN seq : i < j /\ seq[i] = a /\ seq[j] = b

\* b waits further from executeQueue.loop than a does, which waits too.
Behind(s, a, b) ==
  \/ Follows(queue, a, b)
  \/ a \in Contents(queue) /\ (b = held[s] \/ b \in Contents(inbox[s]))
  \/ a = held[s] /\ b \in Contents(inbox[s])
  \/ Follows(inbox[s], a, b)

\* Who was asked after a request that waits waits behind it.
InOrder == \A s \in Socks : \A i, j \in DOMAIN asked[s] :
  (i < j /\ asked[s][i] \in Waiting) => Behind(s, asked[s][i], asked[s][j])

\* Nobody who has not been taken up is answered, nor the request at work before
\* its reply is pushed; a handler has been called for what it replies to.
AnsweredLate ==
  /\ \A r \in Execs : Seen(r) =>
       /\ origin[r] \in Socks /\ r \notin Waiting
       /\ r = item => epc \in {"cleanup", "idle", "abortIdle"}
  /\ epc \in {"run", "reply", "cleanup", "idle"} => item \in ran

OrderInv  == AskedOnce /\ InOrder /\ AnsweredLate
ServerInv == SInv /\ AbortInv /\ OrderInv
=============================================================================
