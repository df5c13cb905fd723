------------------------- MODULE KernelServerProofs -------------------------
(***************************************************************************)
(* Proofs about the kernel server, for every finite set of requests and    *)
(* every capacity of the queue: types and replies first (SInv), then the   *)
(* aborts: where a request may be, what is published of it, and why the    *)
(* queue stops (AbortInv).                                                 *)
(***************************************************************************)
EXTENDS KernelServerInv, TLAPS

LEMMA Names == /\ Execs \subseteq Requests /\ Queries \subseteq Requests
               /\ Infos \subseteq Requests /\ Shutdowns \subseteq Requests
               /\ NoReq \notin Requests /\ NoReq \notin Execs
               /\ Execs \cap Queries = {} /\ Socks = {"shell", "control"}
  BY RequestsAssumption DEF Requests, Socks

LEMMA ExecutePcs == /\ WorkPcs \subseteq ExecPcs \cup AbortPcs
                    /\ "ended" \notin WorkPcs \cup AbortPcs /\ "select" \notin WorkPcs
                    /\ END_OF_LOOP.req = NoReq /\ END_OF_LOOP \notin Replies
  BY Names DEF WorkPcs, ExecPcs, AbortPcs, END_OF_LOOP, Replies

-----------------------------------------------------------------------------
(* Which actions touch what *)

LEMMA ClientShape ==
  ASSUME Next
  PROVE  \/ UNCHANGED clientVars
         \/ \E s \in Socks, r \in Requests : Send(s, r)
         \/ /\ UNCHANGED <<origin, asked>>
            /\ \E s \in Socks : \E r \in Requests : Receive(s, r)
<1>1. CASE Environment
  BY <1>1 DEF Environment, TerminationSignal, Interrupt
<1>2. CASE \E s \in Socks : SocketStep(s)
  BY <1>2, Names DEF SocketStep, Poll, ReceiveExecute, ReceiveShutdown, ReceiveQuery,
     ReceiveInfo, Push, Forward
<1>3. CASE SignalStep \/ ExecStep \/ Handler \/ MainStep \/ \E r \in Queries : AnswerQuery(r)
  BY <1>3 DEF SignalStep, ReadCurrent, CancelCurrent, ExecStep, TakeItem, LoopEnds,
     PublishBusy, StartHandler, PushReply, ClearCurrent, PublishIdle, AbortTake,
     AbortEnds, AbortBusy, AbortReply, AbortIdle, Handler, HandlerReturns, MainStep,
     NotifyShell, NotifyControl, LoopReturns, AnswerQuery
<1>4. QED BY <1>1, <1>2, <1>3 DEF Next

LEMMA LoopShape ==
  ASSUME Next
  PROVE  \/ UNCHANGED loopVars
         \/ \E s \in Socks : SocketStep(s)
<1>1. CASE Environment
  BY <1>1 DEF Environment, Send, TerminationSignal, Interrupt
<1>2. CASE SignalStep \/ ExecStep \/ Handler \/ MainStep \/ \E r \in Queries : AnswerQuery(r)
  BY <1>2 DEF SignalStep, ReadCurrent, CancelCurrent, ExecStep, TakeItem, LoopEnds,
     PublishBusy, StartHandler, PushReply, ClearCurrent, PublishIdle, AbortTake,
     AbortEnds, AbortBusy, AbortReply, AbortIdle, Handler, HandlerReturns, MainStep,
     NotifyShell, NotifyControl, LoopReturns, AnswerQuery
<1>3. QED BY <1>1, <1>2 DEF Next

\* A message is added to an inner socket, forwarded, or sent right away.
Enqueue(s, m) == resq' = [resq EXCEPT ![s] = Append(@, m)] /\ UNCHANGED sent

\* Only while the queue is served does a reply to an execute request come in,
\* only after that END_OF_LOOP.
Timely(m) == /\ m.req \in Execs => epc # "ended"
             /\ m = END_OF_LOOP => epc = "ended"

LEMMA WireShape ==
  ASSUME Next
  PROVE  \/ UNCHANGED wireVars
         \/ \E s \in Socks : Forward(s) \/ ReceiveInfo(s)
         \/ PushReply \/ AbortReply \/ NotifyShell \/ NotifyControl
         \/ \E r \in Queries : AnswerQuery(r)
<1>1. CASE Environment \/ \E s \in Socks : SocketStep(s)
  BY <1>1 DEF Environment, Send, TerminationSignal, Interrupt, SocketStep, Poll,
     ReceiveExecute, ReceiveShutdown, ReceiveQuery, Push, wireVars
<1>2. CASE SignalStep \/ ExecStep \/ Handler \/ MainStep
  BY <1>2 DEF SignalStep, ReadCurrent, CancelCurrent, ExecStep, TakeItem, LoopEnds,
     PublishBusy, StartHandler, ClearCurrent, PublishIdle, AbortTake,
     AbortEnds, AbortBusy, AbortIdle, Handler, HandlerReturns, MainStep, LoopReturns, wireVars
<1>3. QED BY <1>1, <1>2 DEF Next

\* The messages that enter an inner socket are replies, or END_OF_LOOP.
LEMMA Enqueued ==
  ASSUME TypeOK, AtWork, Sourced, EndLast, Next,
         PushReply \/ AbortReply \/ NotifyShell \/ NotifyControl
           \/ \E r \in Queries : AnswerQuery(r)
  PROVE  \/ UNCHANGED wireVars
         \/ \E s \in Socks, m \in Replies \cup {END_OF_LOOP} : Enqueue(s, m) /\ Timely(m)
<1>1. ASSUME NEW r \in Requests, NEW v \in {"ok", "error", "abort"}, r \in Execs => epc # "ended",
             origin[r] \in Socks, PushResult(r, v), UNCHANGED sent
      PROVE  \E s \in Socks, m \in Replies \cup {END_OF_LOOP} : Enqueue(s, m) /\ Timely(m)
  <2> DEFINE m == [req |-> r, status |-> v]
  <2>1. m \in Replies BY DEF Replies
  <2>2. Enqueue(origin[r], m) BY <1>1 DEF PushResult, Enqueue
  <2>3. Timely(m) BY <1>1, <2>1, ExecutePcs DEF Timely
  <2>4. QED BY <1>1, <2>1, <2>2, <2>3
<1>2. CASE PushReply \/ AbortReply
  <2>1. item \in Requests /\ origin[item] \in Socks /\ epc # "ended"
    BY <1>2, Names DEF PushReply, AbortReply, TypeOK, TypeExec, AtWork, WorkPcs, Sourced
  <2>2. CASE PushReply
    <3>1. result \in {"ok", "error", "abort"} /\ PushResult(item, result) /\ UNCHANGED sent
      BY <2>2 DEF PushReply, TypeOK, TypeExec, AtWork
    <3>2. QED BY <1>1, <2>1, <3>1
  <2>3. CASE AbortReply
    <3>1. PushResult(item, "abort") /\ UNCHANGED sent BY <2>3 DEF AbortReply
    <3>2. QED BY <1>1, <2>1, <3>1
  <2>4. QED BY <1>2, <2>2, <2>3
<1>3. CASE NotifyShell \/ NotifyControl
  <2>1. epc = "ended" BY <1>3 DEF NotifyShell, NotifyControl, EndLast
  <2>2. Timely(END_OF_LOOP) BY <2>1, ExecutePcs, Names DEF Timely
  <2>3. Enqueue("shell", END_OF_LOOP) \/ Enqueue("control", END_OF_LOOP)
    BY <1>3 DEF NotifyShell, NotifyControl, Notify, Enqueue
  <2>4. QED BY <2>2, <2>3, Names
<1>4. CASE \E r \in Queries : AnswerQuery(r)
  <2>1. PICK r \in Queries : AnswerQuery(r) BY <1>4
  <2>2. CASE resq' = resq BY <2>1, <2>2 DEF AnswerQuery, wireVars
  <2>3. CASE resq' # resq
    <3>1. r \in Requests /\ origin[r] \in Socks /\ r \notin Execs
      BY <2>1, Names DEF AnswerQuery, Sourced
    <3>2. PushResult(r, "ok") /\ UNCHANGED sent BY <2>1, <2>3 DEF AnswerQuery, PushResult
    <3>3. QED BY <1>1, <3>1, <3>2
  <2>4. QED BY <2>2, <2>3
<1>5. QED BY <1>2, <1>3, <1>4

-----------------------------------------------------------------------------
(* Type correctness *)

LEMMA TypeInit == Init => TypeOK
<1> SUFFICES ASSUME Init PROVE TypeOK
  OBVIOUS
<1> USE DEF Init
<1>1. TypeClients BY DEF TypeClients
<1>2. TypeLoops BY DEF TypeLoops
<1>3. TypeWire BY DEF TypeWire
<1>4. TypeExec
  <2>1. queue \in Seq(Execs) /\ Len(queue) <= executeQueueSize BY SizesAssumption
  <2>2. epc \in ExecPcs BY DEF ExecPcs
  <2>3. QED BY <2>1, <2>2 DEF TypeExec
<1>5. TypeRest
  <2>1. signals \in 0 .. MaxSignals BY SizesAssumption
  <2>2. QED BY <2>1, Zenon DEF TypeRest
<1>6. QED BY <1>1, <1>2, <1>3, <1>4, <1>5 DEF TypeOK

LEMMA ClientTypes == TypeOK /\ StillReady /\ Next => TypeClients'
<1> SUFFICES ASSUME TypeOK, StillReady, Next PROVE TypeClients'
  OBVIOUS
<1>1. CASE UNCHANGED clientVars BY <1>1 DEF clientVars, TypeOK, TypeClients
<1>2. CASE \E s \in Socks, r \in Requests : Send(s, r)
  <2>1. PICK s \in Socks, r \in Requests : Send(s, r) BY <1>2
  <2>2. inbox' \in [Socks -> Seq(Requests)] /\ origin' \in [Requests -> Socks \cup {"none"}]
    BY <2>1 DEF Send, TypeOK, TypeClients
  <2>3. asked' \in [Socks -> Seq(Execs)] BY <2>1 DEF Send, TypeOK, TypeClients
  <2>4. QED BY <2>2, <2>3 DEF TypeClients
<1>3. CASE UNCHANGED <<origin, asked>> /\ \E s \in Socks : \E r \in Requests : Receive(s, r)
  <2>1. PICK s \in Socks, r \in Requests : Receive(s, r) BY <1>3
  <2>2. inbox[s] # <<>> /\ inbox[s] \in Seq(Requests)
    BY <2>1 DEF Receive, StillReady, TypeOK, TypeClients
  <2>3. Tail(inbox[s]) \in Seq(Requests) BY <2>2
  <2>4. QED BY <1>3, <2>1, <2>3 DEF Receive, TypeOK, TypeClients
<1>4. QED BY <1>1, <1>2, <1>3, ClientShape

LEMMA LoopTypes == TypeOK /\ Next => TypeLoops'
<1> SUFFICES ASSUME TypeOK, Next PROVE TypeLoops'
  OBVIOUS
<1>1. CASE UNCHANGED loopVars BY <1>1 DEF loopVars, TypeOK, TypeLoops
<1>2. ASSUME NEW s \in Socks, SocketStep(s) PROVE TypeLoops'
  <2> USE DEF TypeOK, TypeLoops
  <2>1. CASE Poll(s)
    <3>1. Ready(s) \in SUBSET {"socket", "pull"} BY DEF Ready
    <3>2. QED BY <2>1, <3>1 DEF Poll
  <2>2. CASE ReceiveExecute(s) BY <2>2 DEF ReceiveExecute, Receive
  <2>3. CASE ReceiveShutdown(s) BY <2>3 DEF ReceiveShutdown, Receive
  <2>4. CASE ReceiveQuery(s) BY <2>4 DEF ReceiveQuery, Receive
  <2>5. CASE ReceiveInfo(s) BY <2>5 DEF ReceiveInfo, Receive
  <2>6. CASE Push(s) BY <2>6 DEF Push
  <2>7. CASE Forward(s) BY <2>7 DEF Forward
  <2>8. QED BY <1>2, <2>1, <2>2, <2>3, <2>4, <2>5, <2>6, <2>7 DEF SocketStep
<1>3. QED BY <1>1, <1>2, LoopShape

LEMMA WireTypes == TypeOK /\ AtWork /\ Sourced /\ StillReady /\ EndLast /\ Next => TypeWire'
<1> SUFFICES ASSUME TypeOK, AtWork, Sourced, StillReady, EndLast, Next PROVE TypeWire'
  OBVIOUS
<1>1. CASE UNCHANGED wireVars BY <1>1 DEF wireVars, TypeOK, TypeWire
<1>2. ASSUME NEW s \in Socks, Forward(s) PROVE TypeWire'
  <2>1. resq[s] # <<>> /\ resq[s] \in Seq(Replies \cup {END_OF_LOOP})
    BY <1>2 DEF Forward, StillReady, TypeOK, TypeWire
  <2>2. /\ Tail(resq[s]) \in Seq(Replies \cup {END_OF_LOOP})
        /\ Head(resq[s]) \in Replies \cup {END_OF_LOOP}
    BY <2>1
  <2>3. resq' \in [Socks -> Seq(Replies \cup {END_OF_LOOP})]
    BY <1>2, <2>2 DEF Forward, TypeOK, TypeWire
  <2>4. sent' \in [Socks -> Seq(Replies)]
    <3>1. CASE Head(resq[s]) = END_OF_LOOP
      BY <1>2, <3>1 DEF Forward, TypeOK, TypeWire
    <3>2. CASE Head(resq[s]) # END_OF_LOOP
      <4>1. /\ Head(resq[s]) \in Replies
            /\ sent' = [sent EXCEPT ![s] = Append(@, Head(resq[s]))]
        BY <1>2, <2>2, <3>2 DEF Forward
      <4>2. QED BY <4>1 DEF TypeOK, TypeWire
    <3>3. QED BY <3>1, <3>2
  <2>5. QED BY <2>3, <2>4 DEF TypeWire
<1>3. ASSUME NEW s \in Socks, ReceiveInfo(s) PROVE TypeWire'
  <2>1. PICK r \in Infos : /\ UNCHANGED resq
                           /\ \/ sent' = [sent EXCEPT ![s] = Append(@, [req |-> r, status |-> "ok"])]
                              \/ UNCHANGED sent
    BY <1>3 DEF ReceiveInfo
  <2>2. [req |-> r, status |-> "ok"] \in Replies BY Names DEF Replies
  <2>3. sent[s] \in Seq(Replies) BY DEF TypeOK, TypeWire
  <2>4. Append(sent[s], [req |-> r, status |-> "ok"]) \in Seq(Replies) BY <2>2, <2>3
  <2>5. QED BY <2>1, <2>4 DEF TypeOK, TypeWire
<1>4. ASSUME NEW s \in Socks, NEW m \in Replies \cup {END_OF_LOOP}, Enqueue(s, m)
      PROVE  TypeWire'
  BY <1>4 DEF Enqueue, TypeOK, TypeWire
<1>5. QED BY <1>1, <1>2, <1>3, <1>4, WireShape, Enqueued

LEMMA RestTypes == TypeOK /\ AtWork /\ Next => TypeRest'
<1> SUFFICES ASSUME TypeOK, AtWork, Next PROVE TypeRest'
  OBVIOUS
<1> USE DEF TypeOK, TypeRest
<1>1. CASE Environment
  <2>1. CASE Interrupt
    <3>1. signals' \in 0 .. MaxSignals
      <4>1. /\ signals \in 0 .. MaxSignals /\ signals < MaxSignals
            /\ signals' = signals + 1 /\ MaxSignals \in Nat
        BY <2>1, SizesAssumption, Zenon DEF Interrupt
      <4> HIDE DEF TypeOK, TypeRest
      <4>2. QED BY <4>1
    <3>2. QED BY <2>1, <3>1, Zenon DEF Interrupt
  <2>2. CASE ~Interrupt
    BY <1>1, <2>2 DEF Environment, Send, TerminationSignal, signalVars
  <2>3. QED BY <2>1, <2>2
<1>2. CASE \E s \in Socks : SocketStep(s)
  BY <1>2 DEF SocketStep, Poll, ReceiveExecute, ReceiveShutdown, ReceiveQuery,
     ReceiveInfo, Push, Forward, signalVars
<1>3. CASE SignalStep
  BY <1>3 DEF SignalStep, ReadCurrent, CancelCurrent, TypeExec
<1>4. CASE Handler \/ MainStep \/ \E r \in Queries : AnswerQuery(r)
  BY <1>4 DEF Handler, HandlerReturns, MainStep, NotifyShell, NotifyControl, LoopReturns,
     AnswerQuery, signalVars
<1>5. CASE ExecStep
  BY <1>5, ExecutePcs DEF ExecStep, TakeItem, LoopEnds, PublishBusy, StartHandler, PushReply,
     ClearCurrent, PublishIdle, EndOngoing, AbortTake, AbortEnds, AbortBusy, AbortReply,
     AbortIdle, signalVars, TypeExec, AtWork, WorkPcs
<1>6. QED BY <1>1, <1>2, <1>3, <1>4, <1>5 DEF Next

LEMMA ExecTypes == TypeOK /\ AtWork /\ Next => TypeExec'
<1> SUFFICES ASSUME TypeOK, AtWork, Next PROVE TypeExec'
  OBVIOUS
<1> USE DEF TypeOK
<1>1. CASE UNCHANGED execVars BY <1>1 DEF execVars, TypeExec
<1>2. ASSUME NEW s \in Socks, Push(s) PROVE TypeExec'
  <2>1. held[s] \in Execs /\ queue \in Seq(Execs) /\ Len(queue) \in Nat
    BY <1>2 DEF Push, AtWork, TypeLoops, TypeExec
  <2>2. queue' \in Seq(Execs) /\ Len(queue') <= executeQueueSize
    BY <1>2, <2>1, SizesAssumption DEF Push
  <2>3. QED BY <1>2, <2>2 DEF Push, TypeExec
<1>3. CASE TakeItem \/ AbortTake
  <2>1. queue \in Seq(Execs) /\ queue # <<>> BY <1>3 DEF TakeItem, AbortTake, TypeExec
  <2>2. /\ Head(queue) \in Execs /\ Tail(queue) \in Seq(Execs)
        /\ Len(Tail(queue)) <= executeQueueSize
    BY <2>1, SizesAssumption DEF TypeExec
  <2>3. QED BY <1>3, <2>2 DEF TakeItem, AbortTake, TypeExec, ExecPcs, AbortPcs
<1>4. CASE ExecStep /\ ~TakeItem /\ ~AbortTake
  BY <1>4 DEF ExecStep, LoopEnds, PublishBusy, StartHandler, PushReply, ClearCurrent,
     PublishIdle, EndOngoing, AbortEnds, AbortBusy, AbortReply, AbortIdle, After, TypeExec, ExecPcs,
     AbortPcs, AtWork, WorkPcs
<1>5. ASSUME NEW v \in {"ok", "error"}, HandlerReturns(v) PROVE TypeExec'
  <2>1. Contents(queue) \subseteq Execs BY DEF Contents, TypeExec
  <2>2. QED BY <1>5, <2>1 DEF HandlerReturns, TypeExec, ExecPcs
<1>6. CASE \/ Environment \/ SignalStep \/ MainStep \/ \E r \in Queries : AnswerQuery(r)
           \/ \E s \in Socks : SocketStep(s) /\ ~Push(s)
  BY <1>1, <1>6 DEF Environment, Send, TerminationSignal, Interrupt, SignalStep,
     ReadCurrent, CancelCurrent, MainStep, NotifyShell, NotifyControl, LoopReturns,
     AnswerQuery, SocketStep, Poll, ReceiveExecute, ReceiveShutdown, ReceiveQuery,
     ReceiveInfo, Forward
<1>7. QED BY <1>2, <1>3, <1>4, <1>5, <1>6 DEF Next, Handler

LEMMA TypeNext == TypeOK /\ AtWork /\ Sourced /\ StillReady /\ EndLast /\ Next => TypeOK'
  BY ClientTypes, LoopTypes, WireTypes, ExecTypes, RestTypes DEF TypeOK

-----------------------------------------------------------------------------
(* The hands a request goes through *)

LEMMA AtWorkNext == TypeOK /\ AtWork /\ Next => AtWork'
<1> SUFFICES ASSUME TypeOK, AtWork, Next PROVE AtWork'
  OBVIOUS
<1> USE DEF AtWork
<1>1. (\A s \in Socks : lpc[s] = "push" => held[s] # NoReq)'
  <2>1. CASE UNCHANGED loopVars BY <2>1 DEF loopVars
  <2>2. ASSUME NEW s \in Socks, SocketStep(s),
               NEW t \in Socks, lpc'[t] = "push"
        PROVE  held'[t] # NoReq
    <3> USE DEF TypeOK, TypeLoops
    <3>1. CASE ReceiveExecute(s)
      <4>1. PICK r \in Execs : /\ lpc' = [lpc EXCEPT ![s] = "push"]
                               /\ held' = [held EXCEPT ![s] = r]
        BY <3>1 DEF ReceiveExecute
      <4>2. QED BY <2>2, <4>1, Names
    <3>2. CASE Push(s) BY <2>2, <3>2 DEF Push
    <3>3. CASE Forward(s) BY <2>2, <3>3 DEF Forward
    <3>4. CASE Poll(s) \/ ReceiveShutdown(s) \/ ReceiveQuery(s) \/ ReceiveInfo(s)
      BY <2>2, <3>4 DEF Poll, ReceiveShutdown, ReceiveQuery, ReceiveInfo
    <3>5. QED BY <2>2, <3>1, <3>2, <3>3, <3>4 DEF SocketStep
  <2>3. QED BY <2>1, <2>2, LoopShape
<1>2. (epc \in WorkPcs => item # NoReq)' /\ (epc = "reply" => result # "none")'
  <2>1. CASE UNCHANGED execVars BY <2>1 DEF execVars
  <2>2. CASE TakeItem \/ AbortTake
    <3>1. queue \in Seq(Execs) /\ queue # <<>>
      BY <2>2 DEF TakeItem, AbortTake, TypeOK, TypeExec
    <3>2. Head(queue) \in Execs BY <3>1
    <3>3. QED BY <2>2, <3>2, Names DEF TakeItem, AbortTake
  <2>3. CASE ExecStep /\ ~TakeItem /\ ~AbortTake
    BY <2>3 DEF ExecStep, LoopEnds, PublishBusy, StartHandler, PushReply, ClearCurrent,
       PublishIdle, EndOngoing, AbortEnds, AbortBusy, AbortReply, AbortIdle, After, WorkPcs
  <2>4. CASE Handler BY <2>4 DEF Handler, HandlerReturns, WorkPcs
  <2>5. CASE \E s \in Socks : Push(s) BY <2>5 DEF Push
  <2>6. CASE \/ Environment \/ SignalStep \/ MainStep \/ \E r \in Queries : AnswerQuery(r)
             \/ \E s \in Socks : SocketStep(s) /\ ~Push(s)
    BY <2>1, <2>6 DEF Environment, Send, TerminationSignal, Interrupt, SignalStep,
       ReadCurrent, CancelCurrent, MainStep, NotifyShell, NotifyControl, LoopReturns,
       AnswerQuery, SocketStep, Poll, ReceiveExecute, ReceiveShutdown, ReceiveQuery,
       ReceiveInfo, Forward
  <2>7. QED BY <2>2, <2>3, <2>4, <2>5, <2>6 DEF Next
<1>3. QED BY <1>1, <1>2

LEMMA StillReadyNext ==
  TypeOK /\ AtWork /\ Sourced /\ StillReady /\ EndLast /\ Next => StillReady'
<1> SUFFICES ASSUME TypeOK, AtWork, Sourced, StillReady, EndLast, Next,
                    NEW t \in Socks
             PROVE  /\ "socket" \in todo'[t] => inbox'[t] # <<>>
                    /\ "pull" \in todo'[t] => resq'[t] # <<>>
  BY DEF StillReady
<1>1. ASSUME "socket" \in todo'[t] PROVE inbox'[t] # <<>>
  <2>1. \/ "socket" \in todo[t] /\ ~\E r \in Requests : Receive(t, r)
        \/ inbox'[t] = inbox[t] /\ inbox[t] # <<>>
    <3> DEFINE Goal == \/ "socket" \in todo[t] /\ ~\E r \in Requests : Receive(t, r)
                       \/ inbox'[t] = inbox[t] /\ inbox[t] # <<>>
    <3>1. ASSUME "socket" \in todo[t] PROVE Goal
      <4>1. ~\E r \in Requests : Receive(t, r)
        BY <1>1 DEF Receive, TypeOK, TypeLoops
      <4>2. QED BY <3>1, <4>1
    <3>2. ASSUME "socket" \notin todo[t] PROVE Goal
      <4>1. PICK s \in Socks : SocketStep(s) BY <1>1, <3>2, LoopShape DEF loopVars
      <4>2. Poll(s) /\ s = t
        BY <1>1, <3>2, <4>1 DEF SocketStep, Poll, ReceiveExecute, ReceiveShutdown,
           ReceiveQuery, ReceiveInfo, Receive, Push, Forward, TypeOK, TypeLoops
      <4>3. "socket" \in Ready(t) BY <1>1, <4>2 DEF Poll, TypeOK, TypeLoops
      <4>4. QED BY <4>2, <4>3 DEF Poll, Ready, clientVars
    <3>3. QED BY <3>1, <3>2
  <2>2. CASE inbox'[t] = inbox[t] /\ inbox[t] # <<>> BY <2>2
  <2>3. CASE "socket" \in todo[t] /\ ~\E r \in Requests : Receive(t, r)
    <3>1. inbox[t] # <<>> /\ inbox[t] \in Seq(Requests)
      BY <2>3 DEF StillReady, TypeOK, TypeClients
    <3>2. CASE UNCHANGED clientVars BY <3>1, <3>2 DEF clientVars
    <3>3. ASSUME NEW s \in Socks, NEW r \in Requests, Send(s, r) PROVE inbox'[t] # <<>>
      BY <3>1, <3>3 DEF Send, TypeOK, TypeClients
    <3>4. ASSUME NEW s \in Socks, NEW r \in Requests, Receive(s, r) PROVE inbox'[t] # <<>>
      BY <2>3, <3>1, <3>4 DEF Receive, TypeOK, TypeClients
    <3>5. QED BY <3>2, <3>3, <3>4, ClientShape
  <2>4. QED BY <2>1, <2>2, <2>3
<1>2. ASSUME "pull" \in todo'[t] PROVE resq'[t] # <<>>
  <2>1. resq[t] # <<>> /\ resq[t] \in Seq(Replies \cup {END_OF_LOOP})
    <3>1. CASE UNCHANGED loopVars
      BY <1>2, <3>1 DEF loopVars, StillReady, TypeOK, TypeWire
    <3>2. ASSUME NEW s \in Socks, SocketStep(s) PROVE resq[t] # <<>>
      <4>1. CASE "pull" \in todo[t] BY <4>1 DEF StillReady
      <4>2. CASE "pull" \notin todo[t]
        <5>1. Poll(s) /\ s = t
          BY <1>2, <3>2, <4>2 DEF SocketStep, Poll, ReceiveExecute, ReceiveShutdown,
             ReceiveQuery, ReceiveInfo, Receive, Push, Forward, TypeOK, TypeLoops
        <5>2. "pull" \in Ready(t) BY <1>2, <5>1 DEF Poll, TypeOK, TypeLoops
        <5>3. QED BY <5>2 DEF Ready
      <4>3. QED BY <4>1, <4>2
    <3>3. QED BY <3>1, <3>2, LoopShape DEF TypeOK, TypeWire
  <2>2. CASE UNCHANGED wireVars BY <2>1, <2>2 DEF wireVars
  <2>3. ASSUME NEW s \in Socks, Forward(s) PROVE resq'[t] # <<>>
    BY <1>2, <2>1, <2>3 DEF Forward, TypeOK, TypeLoops, TypeWire
  <2>4. ASSUME NEW s \in Socks, ReceiveInfo(s) PROVE resq'[t] # <<>>
    BY <2>1, <2>4 DEF ReceiveInfo
  <2>5. ASSUME NEW s \in Socks, NEW m \in Replies \cup {END_OF_LOOP}, Enqueue(s, m)
        PROVE  resq'[t] # <<>>
    BY <2>1, <2>5 DEF Enqueue, TypeOK, TypeWire
  <2>6. QED BY <2>2, <2>3, <2>4, <2>5, WireShape, Enqueued
<1>3. QED BY <1>1, <1>2

LEMMA OriginKept ==
  ASSUME TypeOK, Next, NEW r \in Requests, origin[r] \in Socks
  PROVE  origin'[r] = origin[r]
<1>1. ASSUME NEW s \in Socks, NEW q \in Requests, Send(s, q) PROVE origin'[r] = origin[r]
  BY <1>1, Names DEF Send, TypeOK, TypeClients
<1>2. QED BY <1>1, ClientShape DEF clientVars

LEMMA SourcedNext == TypeOK /\ AtWork /\ Sourced /\ StillReady /\ Next => Sourced'
<1> SUFFICES ASSUME TypeOK, AtWork, Sourced, StillReady, Next PROVE Sourced'
  OBVIOUS
<1>1. ASSUME NEW t \in Socks, NEW i \in DOMAIN inbox'[t] PROVE origin'[inbox'[t][i]] \in Socks
  <2>1. /\ inbox[t] \in Seq(Requests)
        /\ \A j \in DOMAIN inbox[t] : inbox[t][j] \in Requests /\ origin[inbox[t][j]] \in Socks
    BY DEF TypeOK, TypeClients, Sourced
  <2>2. \A j \in DOMAIN inbox[t] : origin'[inbox[t][j]] \in Socks
    BY <2>1, OriginKept
  <2>3. CASE inbox'[t] = inbox[t] BY <2>2, <2>3
  <2>4. ASSUME NEW r \in Requests, Send(t, r) PROVE origin'[inbox'[t][i]] \in Socks
    <3>1. inbox'[t] = Append(inbox[t], r) /\ origin'[r] = t
      BY <2>4 DEF Send, TypeOK, TypeClients
    <3>2. CASE i \in DOMAIN inbox[t] BY <2>1, <2>2, <3>1, <3>2
    <3>3. CASE i \notin DOMAIN inbox[t]
      <4>1. inbox'[t][i] = r BY <2>1, <3>1, <3>3
      <4>2. QED BY <3>1, <4>1
    <3>4. QED BY <3>2, <3>3
  <2>5. ASSUME NEW r \in Requests, Receive(t, r) PROVE origin'[inbox'[t][i]] \in Socks
    <3>1. inbox'[t] = Tail(inbox[t]) /\ inbox[t] # <<>>
      BY <2>5 DEF Receive, StillReady, TypeOK, TypeClients
    <3>2. i + 1 \in DOMAIN inbox[t] /\ inbox'[t][i] = inbox[t][i + 1] BY <2>1, <3>1
    <3>3. QED BY <2>2, <3>2
  <2>6. \/ inbox'[t] = inbox[t] \/ \E r \in Requests : Send(t, r) \/ Receive(t, r)
    <3>1. ASSUME NEW s \in Socks, NEW r \in Requests, s # t, Send(s, r) \/ Receive(s, r)
          PROVE  inbox'[t] = inbox[t]
      BY <3>1 DEF Send, Receive, TypeOK, TypeClients
    <3>2. QED BY <3>1, ClientShape DEF clientVars
  <2>7. QED BY <2>3, <2>4, <2>5, <2>6
<1>2. \A s \in Socks : \A r \in Requests : Receive(s, r) => origin'[r] \in Socks
  <2>1. ASSUME NEW s \in Socks, NEW r \in Requests, Receive(s, r) PROVE origin'[r] \in Socks
    <3>1. inbox[s] # <<>> /\ inbox[s] \in Seq(Requests) /\ r = Head(inbox[s])
      BY <2>1 DEF Receive, StillReady, TypeOK, TypeClients
    <3>2. 1 \in DOMAIN inbox[s] /\ r = inbox[s][1] BY <3>1
    <3>3. QED BY <3>2, OriginKept DEF Sourced
  <2>2. QED BY <2>1
<1>3. ASSUME NEW t \in Socks, held'[t] # NoReq PROVE origin'[held'[t]] \in Socks
  <2>1. CASE held'[t] = held[t]
    BY <1>3, <2>1, OriginKept, Names DEF Sourced, TypeOK, TypeLoops
  <2>2. CASE held'[t] # held[t]
    <3>1. PICK s \in Socks : SocketStep(s) BY <2>2, LoopShape DEF loopVars
    <3>2. ReceiveExecute(s) \/ Push(s)
      BY <2>2, <3>1 DEF SocketStep, Poll, ReceiveShutdown, ReceiveQuery, ReceiveInfo, Forward
    <3>3. CASE Push(s) BY <1>3, <2>2, <3>3 DEF Push, TypeOK, TypeLoops
    <3>4. CASE ReceiveExecute(s)
      <4>1. PICK r \in Execs : Receive(s, r) /\ held' = [held EXCEPT ![s] = r]
        BY <3>4 DEF ReceiveExecute
      <4>2. held'[t] = r BY <2>2, <4>1 DEF TypeOK, TypeLoops
      <4>3. QED BY <1>2, <4>1, <4>2, Names
    <3>5. QED BY <3>2, <3>3, <3>4
  <2>3. QED BY <2>1, <2>2
<1>4. \A j \in DOMAIN queue : queue[j] \in Requests /\ origin'[queue[j]] \in Socks
  BY OriginKept, Names DEF Sourced, TypeOK, TypeExec
<1>5. queue' = queue \/ TakeItem \/ AbortTake \/ \E s \in Socks : Push(s)
  <2>1. CASE Environment \/ SignalStep \/ MainStep \/ \E r \in Queries : AnswerQuery(r)
    BY <2>1 DEF Environment, Send, TerminationSignal, Interrupt, SignalStep, ReadCurrent,
       CancelCurrent, MainStep, NotifyShell, NotifyControl, LoopReturns, AnswerQuery, execVars
  <2>2. CASE \E s \in Socks : SocketStep(s)
    BY <2>2 DEF SocketStep, Poll, ReceiveExecute, ReceiveShutdown, ReceiveQuery,
       ReceiveInfo, Forward, execVars
  <2>3. CASE ExecStep \/ Handler
    BY <2>3 DEF ExecStep, LoopEnds, PublishBusy, StartHandler, PushReply, ClearCurrent,
       PublishIdle, AbortEnds, AbortBusy, AbortReply, AbortIdle, Handler, HandlerReturns
  <2>4. QED BY <2>1, <2>2, <2>3 DEF Next
<1>6. ASSUME NEW i \in DOMAIN queue' PROVE origin'[queue'[i]] \in Socks
  <2>1. queue \in Seq(Execs) BY DEF TypeOK, TypeExec
  <2>2. CASE queue' = queue BY <1>4, <2>2
  <2>3. CASE TakeItem \/ AbortTake
    <3>1. queue' = Tail(queue) /\ queue # <<>> BY <2>3 DEF TakeItem, AbortTake
    <3>2. i + 1 \in DOMAIN queue /\ queue'[i] = queue[i + 1] BY <2>1, <3>1
    <3>3. QED BY <1>4, <3>2
  <2>4. ASSUME NEW s \in Socks, Push(s) PROVE origin'[queue'[i]] \in Socks
    <3>1. queue' = Append(queue, held[s]) /\ origin' = origin /\ held[s] # NoReq
      BY <2>4 DEF Push, AtWork, clientVars
    <3>2. origin'[held[s]] \in Socks BY <3>1 DEF Sourced
    <3>3. CASE i \in DOMAIN queue BY <1>4, <2>1, <3>1, <3>3
    <3>4. CASE i \notin DOMAIN queue
      <4>1. queue'[i] = held[s] BY <2>1, <3>1, <3>4
      <4>2. QED BY <3>2, <4>1
    <3>5. QED BY <3>3, <3>4
  <2>5. QED BY <1>5, <2>2, <2>3, <2>4
<1>7. ASSUME item' # NoReq PROVE origin'[item'] \in Socks
  <2>1. CASE item' = item
    BY <1>7, <2>1, OriginKept, Names DEF Sourced, TypeOK, TypeExec
  <2>2. CASE TakeItem \/ AbortTake
    <3>1. item' = Head(queue) /\ queue # <<>> /\ queue \in Seq(Execs)
      BY <2>2 DEF TakeItem, AbortTake, TypeOK, TypeExec
    <3>2. 1 \in DOMAIN queue /\ item' = queue[1] BY <3>1
    <3>3. QED BY <1>4, <3>2
  <2>3. CASE ExecStep /\ ~TakeItem /\ ~AbortTake
    BY <1>7, <2>1, <2>3 DEF ExecStep, LoopEnds, PublishBusy, StartHandler, PushReply,
       ClearCurrent, PublishIdle, EndOngoing, AbortEnds, AbortBusy, AbortReply, AbortIdle
  <2>4. CASE Handler \/ Environment \/ SignalStep \/ MainStep
               \/ (\E r \in Queries : AnswerQuery(r)) \/ \E s \in Socks : SocketStep(s)
    <3>1. item' = item
      BY <2>4 DEF Handler, HandlerReturns, Environment, Send, TerminationSignal, Interrupt,
         SignalStep, ReadCurrent, CancelCurrent, MainStep, NotifyShell, NotifyControl,
         LoopReturns, AnswerQuery, SocketStep, Poll, ReceiveExecute, ReceiveShutdown,
         ReceiveQuery, ReceiveInfo, Push, Forward, execVars
    <3>2. QED BY <2>1, <3>1
  <2>5. QED BY <2>2, <2>3, <2>4 DEF Next
<1>8. ASSUME NEW r \in Queries, qpc'[r] = "run" PROVE origin'[r] \in Socks
  <2>1. CASE qpc[r] = "run" BY <2>1, OriginKept, Names DEF Sourced
  <2>2. CASE \E s \in Socks : ReceiveQuery(s)
    <3>1. PICK s \in Socks, q \in Queries : Receive(s, q) /\ qpc' = [qpc EXCEPT ![q] = "run"]
      BY <2>2 DEF ReceiveQuery
    <3>2. CASE q = r BY <1>2, <3>1, <3>2, Names
    <3>3. CASE q # r BY <1>8, <2>1, <3>1, <3>3 DEF TypeOK, TypeRest
    <3>4. QED BY <3>2, <3>3
  <2>3. CASE \E q \in Queries : AnswerQuery(q)
    BY <1>8, <2>1, <2>3 DEF AnswerQuery, TypeOK, TypeRest
  <2>4. CASE ~(\E s \in Socks : ReceiveQuery(s)) /\ ~\E q \in Queries : AnswerQuery(q)
    <3>1. qpc' = qpc
      BY <2>4 DEF Next, Handler, HandlerReturns, Environment, Send, TerminationSignal, Interrupt,
         SignalStep, ReadCurrent, CancelCurrent, MainStep, NotifyShell, NotifyControl,
         LoopReturns, SocketStep, Poll, ReceiveExecute, ReceiveShutdown,
         ReceiveInfo, Push, Forward, ExecStep, TakeItem, LoopEnds, PublishBusy,
         StartHandler, PushReply, ClearCurrent, PublishIdle, AbortTake, AbortEnds,
         AbortBusy, AbortReply, AbortIdle
    <3>2. QED BY <1>8, <2>1, <3>1
  <2>5. QED BY <2>2, <2>3, <2>4
<1>9. QED BY <1>1, <1>3, <1>6, <1>7, <1>8 DEF Sourced

-----------------------------------------------------------------------------
(* Replies: none is lost on the way, all are pushed in time *)

LEMMA EnqueuedSeen ==
  ASSUME TypeOK, NEW s \in Socks, NEW m, Enqueue(s, m), NEW r
  PROVE  /\ Seen(r) => Seen(r)'
         /\ m.req = r => Seen(r)'
<1>1. /\ resq[s] \in Seq(Replies \cup {END_OF_LOOP}) /\ resq'[s] = Append(resq[s], m)
      /\ \A t \in Socks : t # s => resq'[t] = resq[t]
      /\ sent' = sent
  BY DEF Enqueue, TypeOK, TypeWire
<1>2. Delivered(r) => Delivered(r)' BY <1>1 DEF Delivered
<1>3. Underway(r) => Underway(r)'
  <2>1. ASSUME NEW t \in Socks, NEW i \in DOMAIN resq[t]
        PROVE  i \in DOMAIN resq'[t] /\ resq'[t][i] = resq[t][i]
    BY <1>1
  <2>2. QED BY <2>1 DEF Underway
<1>4. ASSUME m.req = r PROVE Underway(r)'
  <2>1. /\ Len(resq[s]) + 1 \in DOMAIN resq'[s]
        /\ resq'[s][Len(resq[s]) + 1] = m
    BY <1>1
  <2>2. QED BY <1>4, <2>1 DEF Underway
<1>5. QED BY <1>2, <1>3, <1>4 DEF Seen

LEMMA ForwardedSeen ==
  ASSUME TypeOK, StillReady, NEW s \in Socks, Forward(s), NEW r \in Requests, Seen(r)
  PROVE  Seen(r)'
<1>1. /\ resq[s] \in Seq(Replies \cup {END_OF_LOOP}) /\ resq[s] # <<>>
      /\ \A t \in Socks : t # s => resq'[t] = resq[t] /\ sent'[t] = sent[t]
      /\ resq'[s] = Tail(resq[s]) /\ \A t \in Socks : sent[t] \in Seq(Replies)
  BY DEF Forward, StillReady, TypeOK, TypeWire
<1>2. CASE Delivered(r)
  <2>1. PICK t \in Socks : \E i \in DOMAIN sent[t] : sent[t][i].req = r
    BY <1>2 DEF Delivered
  <2>2. \A i \in DOMAIN sent[t] : i \in DOMAIN sent'[t] /\ sent'[t][i] = sent[t][i]
    <3>1. sent'[t] = sent[t] \/ sent'[t] = Append(sent[t], Head(resq[t]))
      BY <1>1 DEF Forward, TypeOK, TypeWire
    <3>2. QED BY <1>1, <3>1
  <2>3. QED BY <2>1, <2>2 DEF Delivered, Seen
<1>3. CASE Underway(r)
  <2>0. PICK t \in Socks : \E i \in DOMAIN resq[t] : resq[t][i].req = r
    BY <1>3 DEF Underway
  <2>1. PICK i \in DOMAIN resq[t] : resq[t][i].req = r BY <2>0
  <2>2. CASE t # s BY <1>1, <2>1, <2>2 DEF Underway, Seen
  <2>3. CASE t = s /\ i # 1
    <3>1. i - 1 \in DOMAIN resq'[s] /\ resq'[s][i - 1] = resq[s][i] BY <1>1, <2>3
    <3>2. QED BY <2>1, <2>3, <3>1 DEF Underway, Seen
  <2>4. CASE t = s /\ i = 1
    <3>1. Head(resq[s]) # END_OF_LOOP /\ Head(resq[s]).req = r
      BY <1>1, <2>1, <2>4, Names, ExecutePcs
    <3>2. sent'[s] = Append(sent[s], Head(resq[s])) BY <3>1 DEF Forward, TypeOK, TypeWire
    <3>3. /\ Len(sent[s]) + 1 \in DOMAIN sent'[s]
          /\ sent'[s][Len(sent[s]) + 1] = Head(resq[s])
      BY <1>1, <3>2
    <3>4. QED BY <3>1, <3>3 DEF Delivered, Seen
  <2>5. QED BY <2>2, <2>3, <2>4
<1>4. QED BY <1>2, <1>3 DEF Seen

LEMMA SeenKept ==
  ASSUME TypeOK, AtWork, Sourced, StillReady, EndLast, Next,
         NEW r \in Requests, Seen(r)
  PROVE  Seen(r)'
<1>1. CASE UNCHANGED wireVars BY <1>1 DEF wireVars, Seen, Delivered, Underway
<1>2. ASSUME NEW s \in Socks, ReceiveInfo(s) PROVE Seen(r)'
  <2>1. PICK m : /\ UNCHANGED resq
                 /\ sent' = [sent EXCEPT ![s] = Append(@, m)] \/ UNCHANGED sent
    BY <1>2 DEF ReceiveInfo
  <2>2. ASSUME NEW t \in Socks, NEW i \in DOMAIN sent[t]
        PROVE  i \in DOMAIN sent'[t] /\ sent'[t][i] = sent[t][i]
    <3>1. sent[t] \in Seq(Replies) BY DEF TypeOK, TypeWire
    <3>2. sent'[t] = sent[t] \/ sent'[t] = Append(sent[t], m)
      BY <2>1 DEF TypeOK, TypeWire
    <3>3. QED BY <3>1, <3>2
  <2>3. QED BY <2>1, <2>2 DEF Seen, Delivered, Underway
<1>3. QED BY <1>1, <1>2, WireShape, Enqueued, EnqueuedSeen, ForwardedSeen

LEMMA Pushed ==
  ASSUME TypeOK, NEW r \in Requests, NEW v, origin[r] \in Socks,
         PushResult(r, v), UNCHANGED sent
  PROVE  Seen(r)'
<1>1. Enqueue(origin[r], [req |-> r, status |-> v]) BY DEF PushResult, Enqueue
<1>2. QED BY <1>1, EnqueuedSeen

LEMMA RepliedNext ==
  TypeOK /\ AtWork /\ Sourced /\ StillReady /\ EndLast /\ Replied /\ Next => Replied'
<1> SUFFICES ASSUME TypeOK, AtWork, Sourced, StillReady, EndLast, Replied, Next
             PROVE  Replied'
  OBVIOUS
<1>1. \A r \in Requests : Seen(r) => Seen(r)' BY SeenKept
<1>2. ran \subseteq Requests /\ Execs \subseteq Requests /\ item \in Execs \cup {NoReq}
  BY Names DEF TypeOK, TypeExec
<1>3. ASSUME PushReply \/ AbortReply, NEW r \in Requests, r = item PROVE Seen(r)'
  <2>1. origin[r] \in Socks
    BY <1>3, Names DEF PushReply, AbortReply, TypeOK, TypeExec, AtWork, WorkPcs, Sourced
  <2>2. CASE PushReply BY <1>3, <2>1, <2>2, Pushed DEF PushReply
  <2>3. CASE AbortReply BY <1>3, <2>1, <2>3, Pushed DEF AbortReply
  <2>4. QED BY <1>3, <2>2, <2>3
<1>4. ASSUME epc' \in {"cleanup", "idle", "abortIdle"} PROVE Seen(item)'
  <2>1. \/ item' = item /\ Seen(item) /\ item \in Requests
        \/ (PushReply \/ AbortReply) /\ item' = item /\ item \in Requests
    <3>1. CASE epc' = epc /\ item' = item
      BY <1>2, <1>4, <3>1 DEF Replied, AtWork, WorkPcs
    <3>2. CASE ~(epc' = epc /\ item' = item)
      <4>1. ExecStep \/ Handler
        BY <3>2 DEF Next, Environment, Send, TerminationSignal, Interrupt, SignalStep,
           ReadCurrent, CancelCurrent, MainStep, NotifyShell, NotifyControl, LoopReturns,
           AnswerQuery, SocketStep, Poll, ReceiveExecute, ReceiveShutdown, ReceiveQuery,
           ReceiveInfo, Push, Forward, execVars
      <4>2. PushReply \/ AbortReply \/ ClearCurrent
        BY <1>4, <4>1 DEF ExecStep, Handler, HandlerReturns, TakeItem, LoopEnds, PublishBusy,
           StartHandler, PublishIdle, AbortTake, AbortEnds, AbortBusy, AbortIdle, After
      <4>3. QED BY <1>2, <4>2 DEF PushReply, AbortReply, ClearCurrent, AtWork, WorkPcs, Replied
    <3>3. QED BY <3>1, <3>2
  <2>2. PICK q \in Requests : q = item BY <2>1
  <2>3. Seen(q)' BY <1>1, <1>3, <2>1, <2>2
  <2>4. QED BY <2>1, <2>2, <2>3 DEF Seen, Delivered, Underway
<1>5. ASSUME NEW r \in ran', ~Seen(r)' PROVE r = item' /\ epc' \in {"run", "reply"}
  <2>1. CASE r \notin ran
    <3>1. StartHandler
      BY <1>5, <2>1 DEF Next, Environment, Send, TerminationSignal, Interrupt, SignalStep,
         ReadCurrent, CancelCurrent, MainStep, NotifyShell, NotifyControl, LoopReturns,
         AnswerQuery, SocketStep, Poll, ReceiveExecute, ReceiveShutdown, ReceiveQuery,
         ReceiveInfo, Push, Forward, execVars, ExecStep, Handler, HandlerReturns, TakeItem,
         LoopEnds, PublishBusy, PushReply, ClearCurrent, PublishIdle, AbortTake, AbortEnds,
         AbortBusy, AbortReply, AbortIdle
    <3>2. QED BY <2>1, <3>1 DEF StartHandler
  <2>2. CASE r \in ran
    <3>1. r \in Requests /\ ~Seen(r) BY <1>1, <1>2, <1>5, <2>2
    <3>2. r = item /\ epc \in {"run", "reply"} BY <2>2, <3>1 DEF Replied
    <3>3. ~PushReply BY <1>3, <1>5, <3>1, <3>2
    <3>4. CASE Handler BY <3>2, <3>4 DEF Handler, HandlerReturns
    <3>5. CASE ~Handler
      <4>1. epc' = epc /\ item' = item
        BY <3>2, <3>3, <3>5 DEF Next, Environment, Send, TerminationSignal, Interrupt, SignalStep,
           ReadCurrent, CancelCurrent, MainStep, NotifyShell, NotifyControl, LoopReturns,
           AnswerQuery, SocketStep, Poll, ReceiveExecute, ReceiveShutdown, ReceiveQuery,
           ReceiveInfo, Push, Forward, execVars, ExecStep, TakeItem,
           LoopEnds, PublishBusy, StartHandler, ClearCurrent, PublishIdle, AbortTake, AbortEnds,
           AbortBusy, AbortReply, AbortIdle
      <4>2. QED BY <3>2, <4>1
    <3>6. QED BY <3>4, <3>5
  <2>3. QED BY <2>1, <2>2
<1>6. QED BY <1>4, <1>5 DEF Replied, Seen, Delivered, Underway

LEMMA EndedStays == ASSUME Next, epc = "ended" PROVE epc' = "ended"
  BY DEF Next, Environment, Send, TerminationSignal, Interrupt, SignalStep,
     ReadCurrent, CancelCurrent, MainStep, NotifyShell, NotifyControl, LoopReturns,
     AnswerQuery, SocketStep, Poll, ReceiveExecute, ReceiveShutdown, ReceiveQuery,
     ReceiveInfo, Push, Forward, execVars, ExecStep, Handler, HandlerReturns, TakeItem,
     LoopEnds, PublishBusy, StartHandler, PushReply, ClearCurrent, PublishIdle, AbortTake,
     AbortEnds, AbortBusy, AbortReply, AbortIdle

LEMMA EndLastNext ==
  TypeOK /\ AtWork /\ Sourced /\ StillReady /\ EndLast /\ Next => EndLast'
<1> SUFFICES ASSUME TypeOK, AtWork, Sourced, StillReady, EndLast, Next PROVE EndLast'
  OBVIOUS
<1> DEFINE Trailing(t) == \A i \in DOMAIN resq[t] : resq[t][i] = END_OF_LOOP =>
                 epc = "ended" /\ \A j \in DOMAIN resq[t] : j > i => resq[t][j].req \notin Execs
           Gone(t) == lpc[t] = "exited" =>
                 epc = "ended" /\ \A i \in DOMAIN resq[t] : resq[t][i].req \notin Execs
<1>1. (mpc # "serving" => epc = "ended")'
  <2>1. CASE mpc' = mpc BY <2>1, EndedStays DEF EndLast
  <2>2. CASE mpc' # mpc
    <3>1. MainStep
      BY <2>2 DEF Next, Environment, Send, TerminationSignal, Interrupt, SignalStep,
         ReadCurrent, CancelCurrent, AnswerQuery, SocketStep, Poll, ReceiveExecute,
         ReceiveShutdown, ReceiveQuery, ReceiveInfo, Push, Forward, ExecStep, Handler,
         HandlerReturns, TakeItem, LoopEnds, PublishBusy, StartHandler, PushReply, ClearCurrent,
         PublishIdle, AbortTake, AbortEnds, AbortBusy, AbortReply, AbortIdle
    <3>2. epc = "ended"
      BY <3>1 DEF MainStep, NotifyShell, NotifyControl, LoopReturns, EndLast
    <3>3. QED BY <3>2, EndedStays
  <2>3. QED BY <2>1, <2>2
<1>2. ASSUME NEW t \in Socks
      PROVE  /\ lpc[t] = "exited" => lpc'[t] = "exited"
             /\ lpc'[t] = "exited" => lpc[t] = "exited" \/ Forward(t)
  <2>1. CASE UNCHANGED loopVars BY <2>1 DEF loopVars
  <2>2. ASSUME NEW s \in Socks, SocketStep(s)
        PROVE  /\ lpc[t] = "exited" => lpc'[t] = "exited"
               /\ lpc'[t] = "exited" => lpc[t] = "exited" \/ Forward(t)
    BY <2>2 DEF SocketStep, Poll, ReceiveExecute, ReceiveShutdown, ReceiveQuery,
       ReceiveInfo, Receive, Push, Forward, TypeOK, TypeLoops
  <2>3. QED BY <2>1, <2>2, LoopShape
<1>3. (mpc = "returned" => \A s \in Socks : lpc[s] = "exited")'
  <2>0. (\A s \in Socks : lpc[s] = "exited") => \A s \in Socks : lpc'[s] = "exited"
    <3> SUFFICES ASSUME NEW s \in Socks, lpc[s] = "exited" PROVE lpc'[s] = "exited"
      OBVIOUS
    <3>1. QED BY <1>2
  <2>1. CASE mpc' = mpc
    <3>1. mpc = "returned" => \A s \in Socks : lpc[s] = "exited" BY DEF EndLast
    <3>2. QED BY <2>0, <2>1, <3>1
  <2>2. CASE mpc' # mpc
    <3>1. ~LoopReturns => mpc' # "returned"
      BY <2>2 DEF Next, Environment, Send, TerminationSignal, Interrupt, SignalStep,
         ReadCurrent, CancelCurrent, AnswerQuery, SocketStep, Poll, ReceiveExecute,
         ReceiveShutdown, ReceiveQuery, ReceiveInfo, Push, Forward, ExecStep, Handler,
         HandlerReturns, TakeItem, LoopEnds, PublishBusy, StartHandler, PushReply, ClearCurrent,
         PublishIdle, AbortTake, AbortEnds, AbortBusy, AbortReply, AbortIdle,
         MainStep, NotifyShell, NotifyControl
    <3>2. LoopReturns => \A s \in Socks : lpc[s] = "exited" BY DEF LoopReturns
    <3>3. QED BY <2>0, <3>1, <3>2
  <2>3. QED BY <2>1, <2>2
<1>4. \A t \in Socks : Trailing(t) /\ Gone(t) /\ resq[t] \in Seq(Replies \cup {END_OF_LOOP})
  BY DEF EndLast, TypeOK, TypeWire
<1>5. ASSUME NEW t \in Socks, resq'[t] = resq[t], ~Forward(t) PROVE Trailing(t)' /\ Gone(t)'
  BY <1>2, <1>4, <1>5, EndedStays
<1>6. ASSUME NEW t \in Socks, Forward(t) PROVE Trailing(t)' /\ Gone(t)'
  <2>1. resq'[t] = Tail(resq[t]) /\ resq[t] # <<>> /\ epc' = epc
    BY <1>6 DEF Forward, StillReady, TypeOK, TypeLoops, TypeWire, execVars
  <2>2. \A i \in DOMAIN resq'[t] : i + 1 \in DOMAIN resq[t] /\ resq'[t][i] = resq[t][i + 1]
    BY <1>4, <2>1
  <2>3. Trailing(t)'
    <3> SUFFICES ASSUME NEW i \in DOMAIN resq'[t], resq'[t][i] = END_OF_LOOP
                 PROVE  /\ epc = "ended"
                        /\ \A j \in DOMAIN resq'[t] : j > i => resq'[t][j].req \notin Execs
      BY <2>1
    <3>1. DOMAIN resq'[t] \subseteq Nat BY <1>4, <2>1
    <3>2. QED BY <1>4, <2>2, <3>1
  <2>4. Gone(t)'
    <3>1. CASE lpc[t] = "exited" BY <1>6, <3>1 DEF Forward
    <3>2. CASE Head(resq[t]) = END_OF_LOOP
      <4>1. 1 \in DOMAIN resq[t] /\ resq[t][1] = END_OF_LOOP BY <1>4, <2>1, <3>2
      <4>2. epc = "ended" /\ \A j \in DOMAIN resq[t] : j > 1 => resq[t][j].req \notin Execs
        BY <1>4, <4>1
      <4>3. \A i \in DOMAIN resq'[t] : i + 1 > 1 BY <1>4, <2>1
      <4>4. QED BY <2>1, <2>2, <4>2, <4>3
    <3>3. CASE Head(resq[t]) # END_OF_LOOP /\ lpc[t] # "exited"
      BY <1>6, <3>3 DEF Forward
    <3>4. QED BY <3>1, <3>2, <3>3
  <2>5. QED BY <2>3, <2>4
<1>7. ASSUME NEW t \in Socks, NEW m \in Replies \cup {END_OF_LOOP}, Enqueue(t, m), Timely(m),
             ~Forward(t)
      PROVE  Trailing(t)' /\ Gone(t)'
  <2>1. resq'[t] = Append(resq[t], m) BY <1>7 DEF Enqueue, TypeOK, TypeWire
  <2> DEFINE n == Len(resq[t])
  <2>2. /\ DOMAIN resq[t] = 1 .. n /\ DOMAIN resq'[t] = 1 .. n + 1 /\ n \in Nat
        /\ \A i \in 1 .. n : resq'[t][i] = resq[t][i]
        /\ resq'[t][n + 1] = m
    BY <1>4, <2>1
  <2>3. epc = "ended" => m.req \notin Execs BY <1>7 DEF Timely
  <2>4. Gone(t)' BY <1>2, <1>4, <1>7, <2>2, <2>3, EndedStays
  <2>5. Trailing(t)'
    <3> SUFFICES ASSUME NEW i \in 1 .. n + 1, resq'[t][i] = END_OF_LOOP
                 PROVE  /\ epc = "ended"
                        /\ \A j \in 1 .. n + 1 : j > i => resq'[t][j].req \notin Execs
      BY <2>2, EndedStays
    <3>1. epc = "ended" BY <1>4, <1>7, <2>2 DEF Timely
    <3>2. ASSUME NEW j \in 1 .. n + 1, j > i PROVE resq'[t][j].req \notin Execs
      <4>1. i \in 1 .. n BY <2>2, <3>2
      <4>2. CASE j = n + 1 BY <2>2, <2>3, <3>1, <4>2
      <4>3. CASE j # n + 1
        <5>1. j \in 1 .. n BY <2>2, <4>3
        <5>2. QED BY <1>4, <2>2, <3>2, <4>1, <5>1
      <4>4. QED BY <4>2, <4>3
    <3>3. QED BY <3>1, <3>2
  <2>6. QED BY <2>4, <2>5
<1>8. ASSUME NEW t \in Socks PROVE Trailing(t)' /\ Gone(t)'
  <2>1. CASE Forward(t) BY <1>6, <2>1
  <2>2. CASE ~Forward(t)
    <3>1. CASE UNCHANGED wireVars BY <1>5, <2>2, <3>1 DEF wireVars
    <3>2. ASSUME NEW s \in Socks, ReceiveInfo(s) PROVE Trailing(t)' /\ Gone(t)'
      BY <1>5, <2>2, <3>2 DEF ReceiveInfo
    <3>3. ASSUME NEW s \in Socks, Forward(s) PROVE Trailing(t)' /\ Gone(t)'
      <4>1. resq'[t] = resq[t] BY <2>2, <3>3 DEF Forward, TypeOK, TypeWire
      <4>2. QED BY <1>5, <2>2, <4>1
    <3>4. ASSUME NEW s \in Socks, NEW m \in Replies \cup {END_OF_LOOP}, Enqueue(s, m), Timely(m)
          PROVE  Trailing(t)' /\ Gone(t)'
      <4>1. CASE s = t BY <1>7, <2>2, <3>4, <4>1
      <4>2. CASE s # t
        <5>1. resq'[t] = resq[t] BY <3>4, <4>2 DEF Enqueue, TypeOK, TypeWire
        <5>2. QED BY <1>5, <2>2, <5>1
      <4>3. QED BY <4>1, <4>2
    <3>5. QED BY <3>1, <3>2, <3>3, <3>4, WireShape, Enqueued
  <2>3. QED BY <2>1, <2>2
<1>9. QED BY <1>1, <1>3, <1>8 DEF EndLast

LEMMA IdleNext ==
  TypeOK /\ AtWork /\ Sourced /\ StillReady /\ EndLast /\ Replied /\ IdleAfterReply /\ Next
    => IdleAfterReply'
<1> SUFFICES ASSUME TypeOK, AtWork, Sourced, StillReady, EndLast, Replied, IdleAfterReply, Next,
                    NEW r \in Execs, pub'[r] = "idle"
             PROVE  Seen(r)'
  BY DEF IdleAfterReply, Seen
<1>1. r \in Requests BY Names
<1>2. CASE pub[r] = "idle" BY <1>1, <1>2, SeenKept DEF IdleAfterReply, Seen
<1>3. CASE pub[r] # "idle"
  <2>1. PublishBusy \/ AbortBusy \/ PublishIdle \/ AbortIdle
    BY <1>3 DEF Next, Environment, Send, TerminationSignal, Interrupt, SignalStep,
       ReadCurrent, CancelCurrent, MainStep, NotifyShell, NotifyControl, LoopReturns,
       AnswerQuery, SocketStep, Poll, ReceiveExecute, ReceiveShutdown, ReceiveQuery,
       ReceiveInfo, Push, Forward, ExecStep, Handler, HandlerReturns, TakeItem,
       LoopEnds, StartHandler, PushReply, ClearCurrent, AbortTake, AbortEnds, AbortReply
  <2>2. CASE PublishBusy \/ AbortBusy
    BY <1>3, <2>2 DEF PublishBusy, AbortBusy, TypeOK, TypeRest
  <2>3. CASE PublishIdle \/ AbortIdle
    <3>1. r = item
      BY <1>3, <2>3 DEF PublishIdle, AbortIdle, EndOngoing, TypeOK, TypeRest
    <3>2. Seen(item) BY <2>3 DEF PublishIdle, AbortIdle, Replied
    <3>3. QED BY <1>1, <3>1, <3>2, SeenKept
  <2>4. QED BY <2>1, <2>2, <2>3
<1>4. QED BY <1>2, <1>3

-----------------------------------------------------------------------------
(* The theorems *)

LEMMA InvInit == Init => SInv
<1> SUFFICES ASSUME Init PROVE SInv
  OBVIOUS
<1>1. TypeOK BY TypeInit
<1>2. AtWork /\ StillReady BY DEF Init, AtWork, StillReady, WorkPcs
<1>3. Sourced BY DEF Init, Sourced
<1>4. Replied /\ EndLast /\ IdleAfterReply
  BY DEF Init, Replied, EndLast, IdleAfterReply
<1>5. QED BY <1>1, <1>2, <1>3, <1>4 DEF SInv

LEMMA InvStutter == SInv /\ UNCHANGED vars => SInv'
<1> SUFFICES ASSUME SInv, UNCHANGED vars PROVE SInv'
  OBVIOUS
<1> USE DEF SInv, vars, clientVars, loopVars, wireVars, execVars, signalVars
<1>1. TypeOK' BY DEF TypeOK, TypeClients, TypeLoops, TypeWire, TypeExec, TypeRest
<1>2. AtWork' /\ StillReady' /\ Sourced' BY DEF AtWork, StillReady, Sourced
<1>3. Replied' BY DEF Replied, Seen, Delivered, Underway
<1>4. EndLast' BY DEF EndLast
<1>5. IdleAfterReply' BY DEF IdleAfterReply, Delivered, Underway
<1>6. QED BY <1>1, <1>2, <1>3, <1>4, <1>5

\* The inductive invariant of the kernel server holds in every reachable state.
THEOREM Invariance == Spec => []SInv
<1>1. SInv /\ Next => SInv'
  BY TypeNext, AtWorkNext, StillReadyNext, SourcedNext, RepliedNext, EndLastNext, IdleNext
  DEF SInv
<1>2. SInv /\ [Next]_vars => SInv' BY <1>1, InvStutter
<1>3. QED BY InvInit, <1>2, PTL DEF Spec

\* Every variable of the server stays in its range; in particular the queue
\* within the capacity of its channel (execute.go:40-42).
THEOREM TypeCorrect == Spec => []TypeOK
<1>1. SInv => TypeOK BY DEF SInv
<1>2. QED BY <1>1, Invariance, PTL

\* A client that has seen idle for an execute request can count on its reply
\* (execute.go:107-118, shelsocket.go:82-88).
THEOREM IdleComesAfterReply == Spec => []IdleAfterReply
<1>1. SInv => IdleAfterReply BY DEF SInv
<1>2. QED BY <1>1, Invariance, PTL

\* When Server.Loop returns, every request that was executed has its reply on
\* its way to the client: all loops have gone, so nothing is in an inner socket.
THEOREM RepliesAreKept == Spec => []RepliesKept
<1>1. SInv => RepliesKept
  <2> SUFFICES ASSUME SInv, mpc = "returned", NEW r \in ran PROVE Delivered(r)
    BY DEF RepliesKept
  <2>1. epc = "ended" /\ \A s \in Socks : lpc[s] = "exited" BY DEF SInv, EndLast
  <2>2. Seen(r) BY <2>1 DEF SInv, Replied
  <2>3. r \in Execs BY DEF SInv, TypeOK, TypeExec
  <2>4. ~Underway(r) BY <2>1, <2>3 DEF SInv, EndLast, Underway
  <2>5. QED BY <2>2, <2>4 DEF Seen
<1>2. QED BY <1>1, Invariance, PTL

-----------------------------------------------------------------------------
\* A request added to, or taken from, a sequence without repetitions.
LEMMA Appended ==
  ASSUME NEW S, NEW q \in Seq(S), NEW x \in S
  PROVE  /\ Contents(Append(q, x)) = Contents(q) \cup {x}
         /\ Distinct(q) /\ x \notin Contents(q) => Distinct(Append(q, x))
<1> DEFINE p == Append(q, x)
<1>1. /\ Len(q) \in Nat /\ DOMAIN q = 1 .. Len(q) /\ DOMAIN p = 1 .. Len(q) + 1
      /\ \A i \in 1 .. Len(q) : p[i] = q[i]
      /\ p[Len(q) + 1] = x
  OBVIOUS
<1> HIDE DEF p
<1>2. DOMAIN p = DOMAIN q \cup {Len(q) + 1} /\ Len(q) + 1 \notin DOMAIN q BY <1>1
<1>3. Contents(p) = Contents(q) \cup {x} BY <1>1, <1>2 DEF Contents
<1>4. ASSUME Distinct(q), x \notin Contents(q) PROVE Distinct(p)
  BY <1>1, <1>2, <1>4 DEF Distinct, Contents
<1>5. QED BY <1>3, <1>4 DEF p

LEMMA Dequeued ==
  ASSUME NEW S, NEW q \in Seq(S), q # <<>>
  PROVE  /\ Head(q) \in S /\ Tail(q) \in Seq(S)
         /\ Contents(q) = Contents(Tail(q)) \cup {Head(q)}
         /\ Distinct(q) => Distinct(Tail(q)) /\ Head(q) \notin Contents(Tail(q))
<1> DEFINE p == Tail(q)
<1>1. Head(q) \in S /\ p \in Seq(S) OBVIOUS
<1>2. /\ Len(q) \in Nat \ {0} /\ DOMAIN q = 1 .. Len(q) /\ DOMAIN p = 1 .. Len(q) - 1
      /\ Head(q) = q[1]
      /\ \A i \in 1 .. Len(q) - 1 : p[i] = q[i + 1]
  OBVIOUS
<1> HIDE DEF p
<1>3. /\ \A i \in DOMAIN p : i + 1 \in DOMAIN q /\ i + 1 # 1 /\ p[i] = q[i + 1]
      /\ \A i \in DOMAIN q : i = 1 \/ (i - 1 \in DOMAIN p /\ p[i - 1] = q[i])
      /\ 1 \in DOMAIN q
  BY <1>2
<1>4. Contents(q) = Contents(p) \cup {Head(q)} BY <1>2, <1>3 DEF Contents
<1>5. ASSUME Distinct(q) PROVE Distinct(p) /\ Head(q) \notin Contents(p)
  <2>1. Head(q) \notin Contents(p) BY <1>2, <1>3, <1>5 DEF Distinct, Contents
  <2>2. ASSUME NEW i \in DOMAIN p, NEW j \in DOMAIN p, p[i] = p[j] PROVE i = j
    <3>1. i + 1 = j + 1 BY <1>3, <1>5, <2>2 DEF Distinct
    <3>2. QED BY <1>2, <3>1
  <2>3. QED BY <2>1, <2>2 DEF Distinct
<1>6. QED BY <1>1, <1>4, <1>5 DEF p

-----------------------------------------------------------------------------
(* Which actions touch what *)

WorkVars == <<epc, item, err, result, ran, doomed, pub>>

LEMMA WorkShape == ASSUME Next, ~ExecStep, ~Handler PROVE UNCHANGED WorkVars
  BY DEF Next, Environment, Send, TerminationSignal, Interrupt, SignalStep,
     ReadCurrent, CancelCurrent, MainStep, NotifyShell, NotifyControl, LoopReturns,
     AnswerQuery, SocketStep, Poll, ReceiveExecute, ReceiveShutdown, ReceiveQuery,
     ReceiveInfo, Push, Forward, execVars, WorkVars

\* The ways of a request: it is sent, received, held, queued and taken.
Stays == UNCHANGED <<inbox, origin, held, queue>> /\ (item' = item \/ item' = NoReq)

LEMMA Ways ==
  ASSUME Next
  PROVE  \/ Stays
         \/ \E s \in Socks, r \in Requests : Send(s, r)
         \/ /\ UNCHANGED <<held, queue, item, origin>>
            /\ \E s \in Socks : \E r \in Requests \ Execs : Receive(s, r)
         \/ \E s \in Socks : ReceiveExecute(s) \/ Push(s)
         \/ TakeItem \/ AbortTake
<1>1. CASE Environment
  BY <1>1 DEF Environment, TerminationSignal, Interrupt, Stays, clientVars, loopVars, execVars
<1>2. CASE \E s \in Socks : SocketStep(s)
  <2>1. PICK s \in Socks : SocketStep(s) BY <1>2
  <2>2. CASE Poll(s) \/ Forward(s)
    BY <2>2 DEF Poll, Forward, Stays, clientVars, execVars
  <2>3. CASE ReceiveShutdown(s) \/ ReceiveQuery(s) \/ ReceiveInfo(s)
    <3>1. Shutdowns \cup Queries \cup Infos \subseteq Requests \ Execs
      BY RequestsAssumption DEF Requests
    <3>2. QED BY <2>3, <3>1 DEF ReceiveShutdown, ReceiveQuery, ReceiveInfo, execVars
  <2>4. QED BY <2>1, <2>2, <2>3 DEF SocketStep
<1>3. CASE SignalStep \/ Handler \/ MainStep \/ \E r \in Queries : AnswerQuery(r)
  BY <1>3 DEF SignalStep, ReadCurrent, CancelCurrent, Handler, HandlerReturns, MainStep,
     NotifyShell, NotifyControl, LoopReturns, AnswerQuery, Stays, clientVars, loopVars, execVars
<1>4. CASE ExecStep
  BY <1>4 DEF ExecStep, LoopEnds, PublishBusy, StartHandler, PushReply, ClearCurrent,
     PublishIdle, EndOngoing, AbortEnds, AbortBusy, AbortReply, AbortIdle, Stays,
     clientVars, loopVars
<1>5. QED BY <1>1, <1>2, <1>3, <1>4 DEF Next

-----------------------------------------------------------------------------
(* Where a request is *)



LEMMA WaitingSourced ==
  ASSUME SInv, Placed, NEW r \in Requests, r \in Waiting
  PROVE  origin[r] \in Socks
<1>1. CASE \E s \in Socks : r \in Contents(inbox[s]) BY <1>1 DEF Placed
<1>2. CASE r \in Contents(queue) BY <1>2 DEF SInv, Sourced, Contents
<1>3. CASE \E s \in Socks : r = held[s] BY <1>3, Names DEF Placed
<1>4. QED BY <1>1, <1>2, <1>3 DEF Waiting

LEMMA WaitingNext ==
  ASSUME SInv, Placed, Next, NEW r \in Requests, r \in Waiting'
  PROVE  r \in Waiting \/ origin[r] = "none"
<1> USE DEF SInv, TypeOK
<1>0. /\ \A s \in Socks : inbox[s] \in Seq(Requests)
      /\ queue \in Seq(Execs)
  BY DEF TypeClients, TypeExec
<1>1. CASE Stays BY <1>1 DEF Stays, Waiting, Contents
<1>2. ASSUME NEW s \in Socks, NEW q \in Requests, Send(s, q) PROVE r \in Waiting \/ origin[r] = "none"
  <2>1. /\ inbox' = [inbox EXCEPT ![s] = Append(inbox[s], q)] /\ held' = held /\ queue' = queue
        /\ origin[q] = "none"
    BY <1>2 DEF Send, loopVars, execVars
  <2>2. Contents(inbox'[s]) = Contents(inbox[s]) \cup {q} BY <1>0, <2>1, Appended DEF TypeClients
  <2>3. \A t \in Socks : t # s => inbox'[t] = inbox[t] BY <2>1 DEF TypeClients
  <2>4. QED BY <2>1, <2>2, <2>3 DEF Waiting, Contents
<1>3. ASSUME NEW s \in Socks, NEW q \in Requests, Receive(s, q)
      PROVE  /\ \A t \in Socks : Contents(inbox'[t]) \subseteq Contents(inbox[t])
             /\ q \in Contents(inbox[s])
  <2>1. inbox[s] # <<>> BY <1>3 DEF Receive, StillReady
  <2>2. inbox' = [inbox EXCEPT ![s] = Tail(inbox[s])] /\ q = Head(inbox[s]) BY <1>3 DEF Receive
  <2>3. Contents(inbox'[s]) \subseteq Contents(inbox[s]) /\ q \in Contents(inbox[s])
    BY <1>0, <2>1, <2>2, Dequeued DEF TypeClients
  <2>4. \A t \in Socks : t # s => inbox'[t] = inbox[t] BY <2>2 DEF TypeClients
  <2>5. QED BY <2>3, <2>4 DEF Contents
<1>4. CASE UNCHANGED <<held, queue>> /\ \E s \in Socks : \E q \in Requests : Receive(s, q)
  BY <1>3, <1>4 DEF Waiting, Contents
<1>5. ASSUME NEW s \in Socks, ReceiveExecute(s) PROVE r \in Waiting
  <2>1. PICK q \in Execs : Receive(s, q) /\ held' = [held EXCEPT ![s] = q] /\ queue' = queue
    BY <1>5 DEF ReceiveExecute, execVars
  <2>2. \A t \in Socks : held'[t] = held[t] \/ held'[t] = q BY <2>1 DEF TypeLoops
  <2>3. q \in Contents(inbox[s]) /\ \A t \in Socks : Contents(inbox'[t]) \subseteq Contents(inbox[t])
    BY <1>3, <2>1, Names
  <2>4. QED BY <2>1, <2>2, <2>3 DEF Waiting, Contents
<1>6. ASSUME NEW s \in Socks, Push(s) PROVE r \in Waiting
  <2>1. /\ queue' = Append(queue, held[s]) /\ held' = [held EXCEPT ![s] = NoReq] /\ inbox' = inbox
        /\ held[s] \in Execs
    BY <1>6 DEF Push, clientVars, AtWork, TypeLoops
  <2>2. Contents(queue') = Contents(queue) \cup {held[s]} BY <1>0, <2>1, Appended
  <2>3. \A t \in Socks : held'[t] = held[t] \/ held'[t] = NoReq BY <2>1 DEF TypeLoops
  <2>4. QED BY <2>1, <2>2, <2>3, Names DEF Waiting, Contents
<1>7. CASE TakeItem \/ AbortTake
  <2>1. queue # <<>> /\ queue' = Tail(queue) /\ UNCHANGED <<inbox, held>>
    BY <1>7 DEF TakeItem, AbortTake, clientVars, loopVars
  <2>2. Contents(queue') \subseteq Contents(queue) BY <1>0, <2>1, Dequeued
  <2>3. QED BY <2>1, <2>2 DEF Waiting, Contents
<1>8. QED BY <1>1, <1>2, <1>4, <1>5, <1>6, <1>7, Ways

\* Who has left, or never came, does not wait again.
LEMMA GoneForGood ==
  ASSUME SInv, Placed, Next, NEW r \in Requests, r \notin Waiting, origin[r] \in Socks
  PROVE  r \notin Waiting' /\ origin'[r] \in Socks
<1>1. origin[r] # "none" BY Names
<1>2. QED BY <1>1, WaitingNext, OriginKept DEF SInv

\* The places of requests stay apart.
QueuesApart ==
  /\ \A s \in Socks :
       /\ Distinct(inbox[s]) /\ \A r \in Contents(inbox[s]) : origin[r] = s
       /\ Contents(inbox[s]) \cap Contents(queue) = {}
       /\ held[s] # NoReq =>
            origin[held[s]] = s /\ held[s] \notin Contents(inbox[s]) \cup Contents(queue)
  /\ Distinct(queue)

LEMMA QueuesNext == SInv /\ Placed /\ Next => QueuesApart'
<1> SUFFICES ASSUME SInv, Placed, Next PROVE QueuesApart'
  OBVIOUS
<1>0. /\ \A s \in Socks : inbox[s] \in Seq(Requests) /\ held[s] \in Execs \cup {NoReq}
      /\ queue \in Seq(Execs) /\ inbox = [s \in Socks |-> inbox[s]] /\ held = [s \in Socks |-> held[s]]
      /\ origin = [r \in Requests |-> origin[r]]
  BY DEF SInv, TypeOK, TypeClients, TypeLoops, TypeExec
<1>1. QueuesApart BY DEF Placed, QueuesApart
<1>2. ASSUME NEW r \in Requests, r \in Waiting PROVE origin[r] \in Socks /\ origin[r] # "none"
  BY <1>2, WaitingSourced, Names
<1>3. CASE Stays BY <1>1, <1>3 DEF Stays, QueuesApart, Contents, Distinct
<1>4. ASSUME NEW s \in Socks, NEW q \in Requests, Send(s, q) PROVE QueuesApart'
  <2>1. /\ inbox' = [inbox EXCEPT ![s] = Append(inbox[s], q)] /\ held' = held /\ queue' = queue
        /\ origin' = [origin EXCEPT ![q] = s] /\ q \notin Waiting
    BY <1>2, <1>4 DEF Send, loopVars, execVars
  <2>2. /\ \A t \in Socks : q \notin Contents(inbox[t]) /\ q # held[t]
        /\ q \notin Contents(queue)
    BY <2>1 DEF Waiting
  <2>3. /\ Contents(inbox'[s]) = Contents(inbox[s]) \cup {q} /\ Distinct(inbox'[s])
        /\ \A t \in Socks : t # s => inbox'[t] = inbox[t]
    <3>1. inbox'[s] = Append(inbox[s], q) /\ \A t \in Socks : t # s => inbox'[t] = inbox[t]
      BY <1>0, <2>1
    <3>2. Distinct(inbox[s]) /\ inbox[s] \in Seq(Requests) BY <1>0, <1>1 DEF QueuesApart
    <3>3. /\ Contents(Append(inbox[s], q)) = Contents(inbox[s]) \cup {q}
          /\ Distinct(Append(inbox[s], q))
      BY <2>2, <3>2, Appended
    <3>4. QED BY <3>1, <3>3
  <2>4. \A r \in Requests : r # q => origin'[r] = origin[r] BY <1>0, <2>1
  <2>5. origin'[q] = s BY <1>0, <2>1
  <2>6. \A t \in Socks : Contents(inbox[t]) \subseteq Requests BY <1>0 DEF Contents
  <2>7. ASSUME NEW t \in Socks PROVE
          /\ Distinct(inbox'[t]) /\ \A r \in Contents(inbox'[t]) : origin'[r] = t
          /\ Contents(inbox'[t]) \cap Contents(queue) = {}
          /\ held[t] # NoReq =>
               origin'[held[t]] = t /\ held[t] \notin Contents(inbox'[t]) \cup Contents(queue)
    <3>1. held[t] # NoReq => held[t] \in Requests BY <1>0, Names
    <3>2. CASE t = s BY <1>1, <2>2, <2>3, <2>4, <2>5, <2>6, <3>1, <3>2 DEF QueuesApart
    <3>3. CASE t # s BY <1>1, <2>2, <2>3, <2>4, <2>6, <3>1, <3>3 DEF QueuesApart
    <3>4. QED BY <3>2, <3>3
  <2>8. QED BY <1>1, <2>1, <2>7 DEF QueuesApart, Contents, Distinct
<1>5. ASSUME NEW s \in Socks, NEW q \in Requests, Receive(s, q)
      PROVE  /\ \A t \in Socks : Contents(inbox'[t]) \subseteq Contents(inbox[t]) /\ Distinct(inbox'[t])
             /\ q \in Contents(inbox[s]) /\ q \notin Contents(inbox'[s])
  <2>1. /\ inbox[s] # <<>> /\ inbox'[s] = Tail(inbox[s]) /\ q = Head(inbox[s])
        /\ \A t \in Socks : t # s => inbox'[t] = inbox[t]
    BY <1>0, <1>5 DEF Receive, SInv, StillReady
  <2>2. Distinct(inbox[s]) BY <1>1 DEF QueuesApart
  <2>3. /\ Contents(inbox[s]) = Contents(Tail(inbox[s])) \cup {Head(inbox[s])}
        /\ Distinct(Tail(inbox[s])) /\ Head(inbox[s]) \notin Contents(Tail(inbox[s]))
    BY <1>0, <2>1, <2>2, Dequeued
  <2>4. \A t \in Socks : t # s => Contents(inbox'[t]) = Contents(inbox[t]) BY <2>1
  <2>5. QED BY <1>1, <2>1, <2>3, <2>4 DEF QueuesApart
<1>6. CASE UNCHANGED <<held, queue, item, origin>> /\ \E s \in Socks : \E r \in Requests \ Execs : Receive(s, r)
  <2>1. \A t \in Socks : Contents(inbox'[t]) \subseteq Contents(inbox[t]) /\ Distinct(inbox'[t])
    BY <1>5, <1>6
  <2>2. /\ Contents(queue') = Contents(queue) /\ Distinct(queue') /\ held' = held
        /\ origin' = origin
    BY <1>1, <1>6 DEF QueuesApart
  <2>3. QED BY <1>1, <2>1, <2>2 DEF QueuesApart
<1>7. ASSUME NEW s \in Socks, ReceiveExecute(s) PROVE QueuesApart'
  <2>1. PICK q \in Execs : /\ Receive(s, q) /\ held' = [held EXCEPT ![s] = q] /\ queue' = queue
                           /\ origin' = origin
    BY <1>7 DEF ReceiveExecute, execVars
  <2>2. /\ \A t \in Socks : Contents(inbox'[t]) \subseteq Contents(inbox[t]) /\ Distinct(inbox'[t])
        /\ q \in Contents(inbox[s]) /\ q \notin Contents(inbox'[s])
    BY <1>5, <2>1, Names
  <2>3. held'[s] = q /\ \A t \in Socks : t # s => held'[t] = held[t] BY <1>0, <2>1
  <2>4. origin[q] = s /\ q \notin Contents(queue) BY <1>1, <2>2 DEF QueuesApart
  <2>5. Contents(queue') = Contents(queue) /\ Distinct(queue') /\ \A t \in Socks : Contents(inbox'[t]) = Contents(inbox[t])'
    BY <1>1, <2>1 DEF QueuesApart, Contents
  <2>6. QED BY <1>1, <2>1, <2>2, <2>3, <2>4, <2>5 DEF QueuesApart
<1>8. ASSUME NEW s \in Socks, Push(s) PROVE QueuesApart'
  <2>1. /\ queue' = Append(queue, held[s]) /\ held' = [held EXCEPT ![s] = NoReq] /\ inbox' = inbox
        /\ origin' = origin /\ held[s] \in Execs /\ held[s] # NoReq
    BY <1>8 DEF Push, clientVars, SInv, TypeOK, AtWork, TypeLoops
  <2>2. /\ origin[held[s]] = s /\ held[s] \notin Contents(inbox[s]) \cup Contents(queue)
        /\ \A t \in Socks : \A r \in Contents(inbox[t]) : origin[r] = t
    BY <1>1, <2>1 DEF QueuesApart
  <2>3. Contents(queue') = Contents(queue) \cup {held[s]} /\ Distinct(queue')
    BY <1>0, <1>1, <2>1, <2>2, Appended DEF QueuesApart
  <2>4. \A t \in Socks : held[s] \notin Contents(inbox[t]) BY <2>2
  <2>5. held'[s] = NoReq /\ \A t \in Socks : t # s => held'[t] = held[t] BY <1>0, <2>1
  <2>6. \A t \in Socks : t # s => held[t] # held[s] \/ held[t] = NoReq
    BY <1>1, <2>2 DEF QueuesApart
  <2>7. \A t \in Socks : Contents(inbox'[t]) = Contents(inbox[t]) /\ Distinct(inbox'[t])
    BY <1>1, <2>1 DEF QueuesApart
  <2>8. QED BY <1>1, <2>1, <2>2, <2>3, <2>4, <2>5, <2>6, <2>7 DEF QueuesApart
<1>9. CASE TakeItem \/ AbortTake
  <2>1. queue # <<>> /\ queue' = Tail(queue) /\ UNCHANGED <<inbox, held, origin>>
    BY <1>9 DEF TakeItem, AbortTake, clientVars, loopVars
  <2>2. Contents(queue') \subseteq Contents(queue) /\ Distinct(queue')
    BY <1>0, <1>1, <2>1, Dequeued DEF QueuesApart
  <2>3. \A t \in Socks : Contents(inbox'[t]) = Contents(inbox[t]) /\ Distinct(inbox'[t])
    BY <1>1, <2>1 DEF QueuesApart
  <2>4. QED BY <1>1, <2>1, <2>2, <2>3 DEF QueuesApart
<1>10. QED BY <1>3, <1>4, <1>6, <1>7, <1>8, <1>9, Ways

\* The request just taken is in the queue no more, nor anywhere else.
LEMMA Taken ==
  ASSUME SInv, Placed, TakeItem \/ AbortTake
  PROVE  /\ item' \in Execs /\ item' \in Waiting /\ item' \notin Waiting'
         /\ item' \in Contents(queue)
<1>1. /\ queue # <<>> /\ queue \in Seq(Execs) /\ queue' = Tail(queue) /\ item' = Head(queue)
      /\ inbox' = inbox /\ held' = held
  BY DEF TakeItem, AbortTake, SInv, TypeOK, TypeExec, clientVars, loopVars
<1>2. Distinct(queue) BY DEF Placed
<1>3. /\ item' \in Execs /\ item' \in Contents(queue) /\ item' \notin Contents(queue')
  BY <1>1, <1>2, Dequeued
<1>4. \A s \in Socks : item' \notin Contents(inbox[s]) /\ item' # held[s]
  BY <1>3, Names DEF Placed
<1>5. QED BY <1>1, <1>3, <1>4 DEF Waiting, Contents

LEMMA RanShape == ASSUME Next, ~StartHandler PROVE ran' = ran
<1>1. CASE ExecStep \/ Handler
  BY <1>1 DEF ExecStep, Handler, HandlerReturns, TakeItem, LoopEnds, PublishBusy,
     PushReply, ClearCurrent, PublishIdle, AbortTake, AbortEnds, AbortBusy, AbortReply, AbortIdle
<1>2. CASE ~(ExecStep \/ Handler) BY <1>2, WorkShape DEF WorkVars
<1>3. QED BY <1>1, <1>2

LEMMA PlacedNext == SInv /\ Placed /\ Next => Placed'
<1> SUFFICES ASSUME SInv, Placed, Next PROVE Placed'
  OBVIOUS
<1>0. /\ ran \subseteq Requests /\ NoReq \notin ran /\ item \in Requests \cup {NoReq}
      /\ NoReq \notin Requests
  BY Names DEF SInv, TypeOK, TypeExec
<1>1. QueuesApart' BY QueuesNext
<1>2. ASSUME NEW t \in Socks, lpc'[t] # "push" PROVE held'[t] = NoReq
  <2>1. CASE UNCHANGED loopVars BY <1>2, <2>1 DEF loopVars, Placed
  <2>2. ASSUME NEW s \in Socks, SocketStep(s) PROVE held'[t] = NoReq
    <3> USE DEF SInv, TypeOK, TypeLoops, Placed
    <3>1. CASE ReceiveExecute(s)
      <4>1. PICK r \in Execs : /\ lpc' = [lpc EXCEPT ![s] = "push"]
                               /\ held' = [held EXCEPT ![s] = r]
        BY <3>1 DEF ReceiveExecute
      <4>2. t # s BY <1>2, <4>1
      <4>3. QED BY <1>2, <4>1, <4>2
    <3>2. CASE Push(s) BY <1>2, <3>2 DEF Push
    <3>3. CASE Forward(s) BY <1>2, <3>3 DEF Forward
    <3>4. CASE Poll(s) \/ ReceiveShutdown(s) \/ ReceiveQuery(s) \/ ReceiveInfo(s)
      BY <1>2, <3>4 DEF Poll, ReceiveShutdown, ReceiveQuery, ReceiveInfo
    <3>5. QED BY <2>2, <3>1, <3>2, <3>3, <3>4 DEF SocketStep
  <2>3. QED BY <2>1, <2>2, LoopShape
<1>3. ASSUME item' # NoReq PROVE item' \notin Waiting'
  <2>1. CASE TakeItem \/ AbortTake BY <2>1, Taken
  <2>2. CASE ~(TakeItem \/ AbortTake)
    <3>1. item' = item
      BY <1>3, <2>2, Ways DEF Stays, Send, ReceiveExecute, Push, execVars
    <3>2. item \in Requests /\ item \notin Waiting /\ origin[item] \in Socks
      BY <1>0, <1>3, <3>1 DEF Placed, SInv, Sourced
    <3>3. QED BY <3>1, <3>2, GoneForGood
  <2>3. QED BY <2>1, <2>2
<1>4. ran' = ran \/ (StartHandler /\ ran' = ran \cup {item} /\ item # NoReq)
  <2>1. CASE StartHandler BY <2>1 DEF StartHandler, SInv, AtWork, WorkPcs
  <2>2. QED BY <2>1, RanShape
<1>5. ASSUME NEW r \in ran' PROVE r \notin Waiting' /\ origin'[r] \in Socks
  <2>1. r \in Requests /\ r \notin Waiting /\ origin[r] \in Socks
    BY <1>0, <1>4 DEF Placed, SInv, Sourced
  <2>2. QED BY <2>1, GoneForGood
<1>6. ASSUME epc' \in {"busy", "start"} \cup AbortPcs PROVE item' \notin ran'
  <2>1. CASE TakeItem \/ AbortTake
    <3>1. ran' = ran BY <2>1 DEF TakeItem, AbortTake
    <3>2. QED BY <2>1, <3>1, Taken DEF Placed
  <2>2. CASE (ExecStep \/ Handler) /\ ~(TakeItem \/ AbortTake)
    BY <1>0, <1>6, <2>2 DEF ExecStep, Handler, HandlerReturns, LoopEnds, PublishBusy, StartHandler,
       PushReply, ClearCurrent, PublishIdle, EndOngoing, AbortEnds, AbortBusy, AbortReply,
       AbortIdle, After, AbortPcs, Placed
  <2>3. CASE ~(ExecStep \/ Handler) BY <1>6, <2>3, WorkShape DEF WorkVars, Placed
  <2>4. QED BY <2>1, <2>2, <2>3
<1>7. ASSUME item' # NoReq PROVE epc' \in WorkPcs
  <2>1. CASE ExecStep \/ Handler
    BY <1>7, <2>1 DEF ExecStep, Handler, HandlerReturns, TakeItem, LoopEnds, PublishBusy, StartHandler,
       PushReply, ClearCurrent, PublishIdle, EndOngoing, AbortTake, AbortEnds, AbortBusy, AbortReply,
       AbortIdle, After, WorkPcs, Placed
  <2>2. CASE ~(ExecStep \/ Handler) BY <1>7, <2>2, WorkShape DEF WorkVars, Placed
  <2>3. QED BY <2>1, <2>2
<1>8. QED BY <1>1, <1>2, <1>3, <1>5, <1>6, <1>7 DEF Placed, QueuesApart

-----------------------------------------------------------------------------
(* What is published *)

LEMMA PubFrame == ASSUME SInv, Next, NEW r \in Execs, r # item PROVE pub'[r] = pub[r]
<1>1. CASE ExecStep \/ Handler
  BY <1>1 DEF ExecStep, Handler, HandlerReturns, TakeItem, LoopEnds, PublishBusy, StartHandler,
     PushReply, ClearCurrent, PublishIdle, EndOngoing, AbortTake, AbortEnds, AbortBusy, AbortReply,
     AbortIdle, SInv, TypeOK, TypeRest
<1>2. CASE ~(ExecStep \/ Handler) BY <1>2, WorkShape DEF WorkVars
<1>3. QED BY <1>1, <1>2

LEMMA PublishedNext == SInv /\ Placed /\ Published /\ Next => Published'
<1> SUFFICES ASSUME SInv, Placed, Published, Next PROVE Published'
  OBVIOUS
<1>0. item \in Execs \cup {NoReq} /\ pub \in [Execs -> {"none", "busy", "idle"}] /\ Execs \subseteq Requests
  BY Names DEF SInv, TypeOK, TypeExec, TypeRest
<1>1. ASSUME NEW r \in Execs, r \in Waiting' \/ origin'[r] = "none" PROVE pub'[r] = "none"
  <2>1. r \in Requests BY <1>0
  <2>2. r \in Waiting \/ origin[r] = "none"
    <3>1. CASE r \in Waiting' BY <2>1, <3>1, WaitingNext
    <3>2. CASE origin'[r] = "none"
      <4>1. origin[r] \notin Socks BY <2>1, <3>2, OriginKept, Names DEF SInv
      <4>2. QED BY <2>1, <4>1 DEF SInv, TypeOK, TypeClients
    <3>3. QED BY <1>1, <3>1, <3>2
  <2>3. r # item BY <2>1, <2>2, Names DEF Placed, SInv, Sourced
  <2>4. QED BY <2>2, <2>3, PubFrame DEF Published
<1>2. /\ epc' \in {"busy", "abortBusy"} => pub'[item'] = "none"
      /\ epc' \in WorkPcs \ {"busy", "abortBusy"} => pub'[item'] = "busy"
  <2>1. CASE TakeItem \/ AbortTake
    <3>1. item' \in Execs /\ item' \in Waiting BY <2>1, Taken
    <3>2. QED BY <2>1, <3>1 DEF TakeItem, AbortTake, Published
  <2>2. CASE (ExecStep \/ Handler) /\ ~(TakeItem \/ AbortTake)
    BY <1>0, <2>2 DEF ExecStep, Handler, HandlerReturns, LoopEnds, PublishBusy, StartHandler,
       PushReply, ClearCurrent, PublishIdle, EndOngoing, AbortEnds, AbortBusy, AbortReply,
       AbortIdle, After, WorkPcs, Published, SInv, AtWork
  <2>3. CASE ~(ExecStep \/ Handler) BY <2>3, WorkShape DEF WorkVars, Published
  <2>4. QED BY <2>1, <2>2, <2>3
<1>3. QED BY <1>1, <1>2 DEF Published

-----------------------------------------------------------------------------
(* Who is doomed is not executed *)

LEMMA QueueKept ==
  ASSUME SInv, Next, NEW r \in Contents(queue)
  PROVE  r \in Contents(queue') \/ ((TakeItem \/ AbortTake) /\ r = item')
<1>0. queue \in Seq(Execs) BY DEF SInv, TypeOK, TypeExec
<1>1. CASE TakeItem \/ AbortTake
  <2>1. queue # <<>> /\ queue' = Tail(queue) /\ item' = Head(queue)
    BY <1>1 DEF TakeItem, AbortTake
  <2>2. QED BY <1>0, <1>1, <2>1, Dequeued
<1>2. ASSUME NEW s \in Socks, Push(s) PROVE r \in Contents(queue')
  <2>1. queue' = Append(queue, held[s]) /\ held[s] \in Execs
    BY <1>2 DEF Push, SInv, TypeOK, AtWork, TypeLoops
  <2>2. QED BY <1>0, <2>1, Appended
<1>3. CASE queue' = queue BY <1>3
<1>4. QED BY <1>1, <1>2, <1>3, Ways DEF Stays, Send, ReceiveExecute, execVars

LEMMA StoppingKept ==
  ASSUME SInv, Next, Stopping, queue # <<>>
  PROVE  Stopping'
<1>1. CASE ExecStep \/ Handler
  BY <1>1 DEF ExecStep, Handler, HandlerReturns, TakeItem, LoopEnds, PublishBusy, StartHandler,
     PushReply, ClearCurrent, PublishIdle, EndOngoing, AbortTake, AbortEnds, AbortBusy, AbortReply,
     AbortIdle, After, AbortPcs, Stopping
<1>2. CASE ~(ExecStep \/ Handler) BY <1>2, WorkShape DEF WorkVars, Stopping
<1>3. QED BY <1>1, <1>2

LEMMA DoomedNext == SInv /\ Placed /\ DoomedStopped /\ Next => DoomedStopped'
<1> SUFFICES ASSUME SInv, Placed, DoomedStopped, Next, NEW r \in doomed'
             PROVE  /\ r \notin ran' /\ origin'[r] \in Socks
                    /\ (r \in Waiting' => r \in Contents(queue') /\ Stopping')
                    /\ (r = item' => epc' \in AbortPcs)
  BY DEF DoomedStopped
<1>0. /\ doomed \subseteq Requests /\ Contents(queue) \subseteq Requests /\ NoReq \notin Requests
      /\ queue \in Seq(Execs)
  BY Names DEF SInv, TypeOK, TypeExec, Contents
<1>1. CASE r \in doomed
  <2>1. /\ r \notin ran /\ origin[r] \in Socks /\ (r \in Waiting => r \in Contents(queue) /\ Stopping)
        /\ (r = item => epc \in AbortPcs) /\ r \in Requests
    BY <1>0, <1>1 DEF DoomedStopped
  <2>2. origin'[r] \in Socks BY <2>1, OriginKept DEF SInv
  <2>3. r \notin ran'
    <3>1. CASE StartHandler BY <2>1, <3>1 DEF StartHandler, AbortPcs
    <3>2. CASE ~StartHandler BY <2>1, <3>2, RanShape
    <3>3. QED BY <3>1, <3>2
  <2>4. ASSUME r \in Waiting' PROVE r \in Contents(queue') /\ Stopping'
    <3>1. r \in Contents(queue) /\ Stopping BY <2>1, <2>4, GoneForGood
    <3>2. queue # <<>> BY <3>1 DEF Contents
    <3>3. Stopping' BY <3>1, <3>2, StoppingKept
    <3>4. QED BY <2>4, <3>1, <3>3, QueueKept, Taken
  <2>5. ASSUME r = item' PROVE epc' \in AbortPcs
    <3>1. CASE TakeItem \/ AbortTake
      <4>1. Stopping BY <2>1, <2>5, <3>1, Taken
      <4>2. QED BY <3>1, <4>1 DEF TakeItem, AbortTake, Stopping, AbortPcs
    <3>2. CASE (ExecStep \/ Handler) /\ ~(TakeItem \/ AbortTake)
      BY <1>0, <2>1, <2>5, <3>2 DEF ExecStep, Handler, HandlerReturns, LoopEnds, PublishBusy,
         StartHandler, PushReply, ClearCurrent, PublishIdle, EndOngoing, AbortEnds, AbortBusy,
         AbortReply, AbortIdle, AbortPcs, Placed, WorkPcs
    <3>3. CASE ~(ExecStep \/ Handler) BY <2>1, <2>5, <3>3, WorkShape DEF WorkVars
    <3>4. QED BY <3>1, <3>2, <3>3
  <2>6. QED BY <2>2, <2>3, <2>4, <2>5
<1>2. CASE r \notin doomed
  <2>1. PICK v \in {"ok", "error"} : HandlerReturns(v) /\ v = "error" /\ item \in StopOnError
    <3>1. ExecStep \/ Handler BY <1>2, WorkShape DEF WorkVars
    <3>2. Handler
      BY <1>2, <3>1 DEF ExecStep, TakeItem, LoopEnds, PublishBusy, StartHandler, PushReply,
         ClearCurrent, PublishIdle, AbortTake, AbortEnds, AbortBusy, AbortReply, AbortIdle
    <3>3. QED BY <1>2, <3>2 DEF Handler, HandlerReturns
  <2>2. r \in Contents(queue) /\ queue' = queue /\ ran' = ran /\ item' = item /\ Stopping'
    BY <1>2, <2>1 DEF HandlerReturns, Stopping
  <2>3. r \in Waiting /\ r \in Requests BY <1>0, <2>2 DEF Waiting
  <2>4. origin'[r] \in Socks BY <2>3, WaitingSourced, OriginKept DEF SInv
  <2>5. r \notin ran /\ r # item BY <1>0, <2>3 DEF Placed
  <2>6. QED BY <2>2, <2>4, <2>5
<1>3. QED BY <1>1, <1>2

-----------------------------------------------------------------------------
(* Answers *)

OnWire(s) == Contents(sent[s]) \cup Contents(resq[s])

LEMMA EnqueuedWire ==
  ASSUME TypeOK, NEW s \in Socks, NEW m \in Replies \cup {END_OF_LOOP}, Enqueue(s, m)
  PROVE  /\ OnWire(s)' = OnWire(s) \cup {m}
         /\ \A t \in Socks : t # s => OnWire(t)' = OnWire(t)
<1>1. /\ resq[s] \in Seq(Replies \cup {END_OF_LOOP}) /\ resq'[s] = Append(resq[s], m)
      /\ \A t \in Socks : t # s => resq'[t] = resq[t]
      /\ sent' = sent
  BY DEF Enqueue, TypeOK, TypeWire
<1>2. Contents(Append(resq[s], m)) = Contents(resq[s]) \cup {m} BY <1>1, Appended
<1>3. QED BY <1>1, <1>2 DEF OnWire

\* A message on the wire stays there until it is with the client, but for END_OF_LOOP.
LEMMA ForwardedWire ==
  ASSUME TypeOK, StillReady, NEW s \in Socks, Forward(s), NEW t \in Socks
  PROVE  OnWire(t)' \subseteq OnWire(t) /\ OnWire(t) \subseteq OnWire(t)' \cup {END_OF_LOOP}
<1>1. /\ resq[s] \in Seq(Replies \cup {END_OF_LOOP}) /\ resq[s] # <<>>
      /\ \A u \in Socks : u # s => resq'[u] = resq[u] /\ sent'[u] = sent[u]
      /\ resq'[s] = Tail(resq[s]) /\ sent[s] \in Seq(Replies)
      /\ IF Head(resq[s]) = END_OF_LOOP THEN sent' = sent
                                      ELSE sent'[s] = Append(sent[s], Head(resq[s]))
  BY DEF Forward, StillReady, TypeOK, TypeWire
<1>2. CASE t # s BY <1>1, <1>2 DEF OnWire
<1>3. CASE t = s
  <2>1. /\ Head(resq[s]) \in Replies \cup {END_OF_LOOP}
        /\ Contents(resq[s]) = Contents(Tail(resq[s])) \cup {Head(resq[s])}
    BY <1>1, Dequeued
  <2>2. CASE Head(resq[s]) = END_OF_LOOP BY <1>1, <1>3, <2>1, <2>2 DEF OnWire
  <2>3. CASE Head(resq[s]) # END_OF_LOOP
    <3>1. Contents(Append(sent[s], Head(resq[s]))) = Contents(sent[s]) \cup {Head(resq[s])}
      BY <1>1, <2>1, <2>3, Appended
    <3>2. QED BY <1>1, <1>3, <2>1, <2>3, <3>1 DEF OnWire
  <2>4. QED BY <2>2, <2>3
<1>4. QED BY <1>2, <1>3

LEMMA InfoWire ==
  ASSUME TypeOK, NEW s \in Socks, ReceiveInfo(s)
  PROVE  \E r \in Infos : \A t \in Socks :
           /\ OnWire(t) \subseteq OnWire(t)'
           /\ OnWire(t)' \subseteq OnWire(t) \cup {[req |-> r, status |-> "ok"]}
<1>1. PICK r \in Infos : /\ UNCHANGED resq
                         /\ \/ sent' = [sent EXCEPT ![s] = Append(@, [req |-> r, status |-> "ok"])]
                            \/ UNCHANGED sent
  BY DEF ReceiveInfo
<1> DEFINE m == [req |-> r, status |-> "ok"]
<1>2. m \in Replies /\ sent[s] \in Seq(Replies) BY Names DEF Replies, TypeOK, TypeWire
<1>3. Contents(Append(sent[s], m)) = Contents(sent[s]) \cup {m} BY <1>2, Appended
<1>4. \A t \in Socks : sent'[t] = sent[t] \/ (t = s /\ sent'[t] = Append(sent[t], m))
  BY <1>1 DEF TypeOK, TypeWire
<1>5. \A t \in Socks : /\ OnWire(t) \subseteq OnWire(t)'
                       /\ OnWire(t)' \subseteq OnWire(t) \cup {m}
  BY <1>1, <1>3, <1>4 DEF OnWire
<1>6. QED BY <1>5

LEMMA AnsweredKept ==
  ASSUME SInv, Next, NEW r \in Requests, NEW v, AnsweredBy(r, v)
  PROVE  AnsweredBy(r, v)'
<1> DEFINE m == [req |-> r, status |-> v]
<1>1. PICK t \in Socks : m \in OnWire(t) BY DEF AnsweredBy, OnWire
<1>2. m # END_OF_LOOP
  <2>1. m.req # END_OF_LOOP.req BY Names, ExecutePcs
  <2>2. QED BY <2>1
<1> HIDE DEF m
<1>3. m \in OnWire(t)'
  <2>1. CASE UNCHANGED wireVars BY <1>1, <2>1 DEF wireVars, OnWire
  <2>2. ASSUME NEW s \in Socks, ReceiveInfo(s) PROVE m \in OnWire(t)'
    BY <1>1, <2>2, InfoWire DEF SInv
  <2>3. ASSUME NEW s \in Socks, Forward(s) PROVE m \in OnWire(t)'
    BY <1>1, <1>2, <2>3, ForwardedWire DEF SInv
  <2>4. ASSUME NEW s \in Socks, NEW n \in Replies \cup {END_OF_LOOP}, Enqueue(s, n)
        PROVE  m \in OnWire(t)'
    BY <1>1, <2>4, EnqueuedWire DEF SInv
  <2>5. QED BY <2>1, <2>2, <2>3, <2>4, WireShape, Enqueued DEF SInv
<1>4. QED BY <1>3 DEF AnsweredBy, OnWire, m

LEMMA PushedAnswer ==
  ASSUME TypeOK, NEW r \in Requests, NEW v \in {"ok", "error", "abort"}, origin[r] \in Socks,
         PushResult(r, v), UNCHANGED sent
  PROVE  /\ AnsweredBy(r, v)'
         /\ \A q, w : AnsweredBy(q, w)' => AnsweredBy(q, w) \/ (q = r /\ w = v)
<1> DEFINE m == [req |-> r, status |-> v]
<1>0. PICK s \in Socks : s = origin[r] OBVIOUS
<1>1. Enqueue(s, m) /\ m \in Replies BY <1>0 DEF PushResult, Enqueue, Replies
<1>2. OnWire(s)' = OnWire(s) \cup {m} /\ \A t \in Socks : t # s => OnWire(t)' = OnWire(t)
  BY <1>1, EnqueuedWire
<1>3. AnsweredBy(r, v)'
  <2>1. \E t \in Socks : m \in OnWire(t)' BY <1>2
  <2>2. QED BY <2>1 DEF AnsweredBy, OnWire
<1>4. ASSUME NEW q, NEW w, AnsweredBy(q, w)' PROVE AnsweredBy(q, w) \/ (q = r /\ w = v)
  <2> DEFINE n == [req |-> q, status |-> w]
  <2>1. PICK t \in Socks : n \in OnWire(t)' BY <1>4 DEF AnsweredBy, OnWire
  <2>2. n \in OnWire(t) \/ n = m BY <1>2, <2>1
  <2>3. n = m => q = r /\ w = v
    <3>1. n = m => n.req = m.req /\ n.status = m.status OBVIOUS
    <3>2. QED BY <3>1
  <2>4. QED BY <2>2, <2>3 DEF AnsweredBy, OnWire
<1>5. QED BY <1>3, <1>4

\* An execute request is answered by the queue, about the request at work.
LEMMA AnsweredNew ==
  ASSUME SInv, Next, NEW r \in Execs, NEW v, AnsweredBy(r, v)', ~AnsweredBy(r, v)
  PROVE  r = item /\ ((PushReply /\ v = result) \/ (AbortReply /\ v = "abort"))
<1> USE DEF SInv
<1> DEFINE m == [req |-> r, status |-> v]
<1>1. PICK t \in Socks : m \in OnWire(t)' /\ m \notin OnWire(t) BY DEF AnsweredBy, OnWire
<1>2. CASE UNCHANGED wireVars BY <1>1, <1>2 DEF wireVars, OnWire
<1>3. ASSUME NEW s \in Socks, ReceiveInfo(s) PROVE FALSE
  <2>1. PICK q \in Infos : m = [req |-> q, status |-> "ok"] BY <1>1, <1>3, InfoWire
  <2>2. m.req = q BY <2>1
  <2>3. QED BY <2>2, RequestsAssumption
<1>4. ASSUME NEW s \in Socks, Forward(s) PROVE FALSE
  BY <1>1, <1>4, ForwardedWire
<1>5. ASSUME NEW q \in Requests, NEW w \in {"ok", "error", "abort"}, origin[q] \in Socks,
             PushResult(q, w), UNCHANGED sent
      PROVE  r = q /\ v = w
  BY <1>5, PushedAnswer
<1>6. CASE PushReply \/ AbortReply
  <2>1. item \in Requests /\ origin[item] \in Socks
    BY <1>6, Names DEF PushReply, AbortReply, TypeOK, TypeExec, AtWork, WorkPcs, Sourced
  <2>2. CASE PushReply
    <3>1. result \in {"ok", "error", "abort"} /\ PushResult(item, result) /\ UNCHANGED sent
      BY <2>2 DEF PushReply, TypeOK, TypeExec, AtWork
    <3>2. QED BY <1>5, <2>1, <2>2, <3>1
  <2>3. CASE AbortReply
    <3>1. PushResult(item, "abort") /\ UNCHANGED sent BY <2>3 DEF AbortReply
    <3>2. QED BY <1>5, <2>1, <2>3, <3>1
  <2>4. QED BY <1>6, <2>2, <2>3
<1>7. CASE NotifyShell \/ NotifyControl
  <2>1. PICK s \in Socks : Enqueue(s, END_OF_LOOP)
    BY <1>7, Names DEF NotifyShell, NotifyControl, Notify, Enqueue
  <2>2. m = END_OF_LOOP BY <1>1, <2>1, EnqueuedWire
  <2>3. m.req = END_OF_LOOP.req BY <2>2
  <2>4. QED BY <2>3, Names, ExecutePcs
<1>8. ASSUME NEW q \in Queries, AnswerQuery(q) PROVE FALSE
  <2>1. CASE resq' = resq BY <1>2, <1>1, <1>8, <2>1 DEF AnswerQuery, OnWire
  <2>2. CASE resq' # resq
    <3>1. q \in Requests /\ origin[q] \in Socks /\ q \notin Execs
      BY <1>8, Names DEF AnswerQuery, Sourced
    <3>2. PushResult(q, "ok") /\ UNCHANGED sent BY <1>8, <2>2 DEF AnswerQuery, PushResult
    <3>3. QED BY <1>5, <3>1, <3>2
  <2>3. QED BY <2>1, <2>2
<1>9. QED BY <1>2, <1>3, <1>4, <1>6, <1>7, <1>8, WireShape

-----------------------------------------------------------------------------
(* Why the queue stops *)

LEMMA FailedKept ==
  ASSUME SInv, Placed, Next, NEW x \in StopOnError, Failed(x)
  PROVE  Failed(x)'
<1>0. x \in Requests /\ x \in Execs /\ x # NoReq BY Names, RequestsAssumption
<1>1. origin[x] \in Socks BY <1>0 DEF Failed, SInv, TypeOK, TypeClients
<1>2. x \notin Waiting' /\ origin'[x] \in Socks BY <1>0, <1>1, GoneForGood DEF Failed
<1>3. CASE AnsweredBy(x, "error")
  <2>1. AnsweredBy(x, "error")' BY <1>0, <1>3, AnsweredKept
  <2>2. QED BY <1>2, <2>1, Names DEF Failed
<1>4. CASE x # item /\ pub[x] # "idle"
  <2>1. pub'[x] # "idle" BY <1>0, <1>4, PubFrame
  <2>2. x # item'
    <3>1. CASE TakeItem \/ AbortTake
      <4>1. item' \in Waiting /\ x \notin Waiting BY <3>1, Taken DEF Failed
      <4>2. QED BY <4>1
    <3>2. CASE ~(TakeItem \/ AbortTake)
      BY <1>0, <1>4, <3>2, Ways DEF Stays, Send, ReceiveExecute, Push, execVars
    <3>3. QED BY <3>1, <3>2
  <2>3. QED BY <1>2, <2>1, <2>2, Names DEF Failed
<1>5. QED BY <1>3, <1>4 DEF Failed

LEMMA ExplainedNext == SInv /\ Placed /\ Published /\ AbortsExplained /\ Next => AbortsExplained'
<1> SUFFICES ASSUME SInv, Placed, Published, AbortsExplained, Next PROVE AbortsExplained'
  OBVIOUS
<1>0. /\ item \in Execs \cup {NoReq} /\ NoReq \notin Requests /\ Execs \subseteq Requests
      /\ StopOnError \subseteq Execs
  BY Names, RequestsAssumption DEF SInv, TypeOK, TypeExec
<1>1. ASSUME NEW r \in Execs, AnsweredBy(r, "abort")'
      PROVE  /\ r \notin ran' \cup Waiting' /\ origin'[r] \in Socks
             /\ (r = item' => epc' = "abortIdle")
  <2>1. CASE AnsweredBy(r, "abort")
    <3>1. /\ r \in Requests /\ r \notin ran \cup Waiting /\ origin[r] \in Socks
          /\ (r = item => epc = "abortIdle")
      BY <1>0, <2>1 DEF AbortsExplained
    <3>2. r \notin Waiting' /\ origin'[r] \in Socks BY <3>1, GoneForGood
    <3>3. r \notin ran'
      <4>1. CASE StartHandler BY <3>1, <4>1 DEF StartHandler
      <4>2. CASE ~StartHandler BY <3>1, <4>2, RanShape
      <4>3. QED BY <4>1, <4>2
    <3>4. ASSUME r = item' PROVE epc' = "abortIdle"
      <4>1. CASE TakeItem \/ AbortTake BY <3>1, <3>4, <4>1, Taken
      <4>2. CASE (ExecStep \/ Handler) /\ ~(TakeItem \/ AbortTake)
        BY <1>0, <3>1, <3>4, <4>2 DEF ExecStep, Handler, HandlerReturns, LoopEnds, PublishBusy,
           StartHandler, PushReply, ClearCurrent, PublishIdle, EndOngoing, AbortEnds, AbortBusy,
           AbortReply, AbortIdle
      <4>3. CASE ~(ExecStep \/ Handler) BY <3>1, <3>4, <4>3, WorkShape DEF WorkVars
      <4>4. QED BY <4>1, <4>2, <4>3
    <3>5. QED BY <3>2, <3>3, <3>4
  <2>2. CASE ~AnsweredBy(r, "abort")
    <3>1. r = item /\ AbortReply
      <4>1. result # "abort" BY DEF SInv, TypeOK, TypeExec
      <4>2. QED BY <1>1, <2>2, <4>1, AnsweredNew
    <3>2. r \in Requests /\ r \notin ran \cup Waiting /\ origin[r] \in Socks
      BY <1>0, <3>1 DEF AbortReply, AbortPcs, Placed, SInv, Sourced
    <3>3. r \notin Waiting' /\ origin'[r] \in Socks BY <3>2, GoneForGood
    <3>4. QED BY <3>1, <3>2, <3>3 DEF AbortReply
  <2>3. QED BY <2>1, <2>2
<1>2. ASSUME epc' \in {"cleanup", "idle"}, err' PROVE AnsweredBy(item, "error")'
  <2>1. CASE PushReply
    <3>1. /\ result = "error" /\ item' = item /\ item \in Requests /\ origin[item] \in Socks
          /\ PushResult(item, result) /\ UNCHANGED sent
      BY <1>0, <1>2, <2>1 DEF PushReply, SInv, AtWork, WorkPcs, Sourced
    <3>2. PICK r \in Requests : r = item BY <3>1
    <3>3. AnsweredBy(r, "error")' BY <3>1, <3>2, PushedAnswer DEF SInv
    <3>4. QED BY <3>1, <3>2, <3>3 DEF AnsweredBy
  <2>2. CASE ~PushReply
    <3>1. item' = item /\ item \in Requests /\ AnsweredBy(item, "error")
      <4>1. CASE ExecStep \/ Handler
        BY <1>0, <1>2, <2>2, <4>1 DEF ExecStep, Handler, HandlerReturns, TakeItem, LoopEnds, PublishBusy,
           StartHandler, ClearCurrent, PublishIdle, AbortTake, AbortEnds, AbortBusy,
           AbortReply, AbortIdle, After, SInv, AtWork, WorkPcs, AbortsExplained
      <4>2. CASE ~(ExecStep \/ Handler)
        BY <1>0, <1>2, <4>2, WorkShape DEF WorkVars, SInv, AtWork, WorkPcs, AbortsExplained
      <4>3. QED BY <4>1, <4>2
    <3>2. PICK r \in Requests : r = item BY <3>1
    <3>3. AnsweredBy(r, "error")' BY <3>1, <3>2, AnsweredKept
    <3>4. QED BY <3>1, <3>2, <3>3 DEF AnsweredBy
  <2>3. QED BY <2>1, <2>2
<1>3. ASSUME (epc \in AbortPcs \/ \E r \in Execs : AnsweredBy(r, "abort"))
      PROVE  \E x \in StopOnError : Failed(x)'
  <2>1. PICK x \in StopOnError : Failed(x) BY <1>3 DEF AbortsExplained
  <2>2. QED BY <2>1, FailedKept
<1>4. ASSUME epc \notin AbortPcs, epc' \in AbortPcs PROVE \E x \in StopOnError : Failed(x)'
  <2>1. (PublishBusy \/ PublishIdle) /\ epc' = "abort" /\ item \in StopOnError
    <3>1. CASE ExecStep \/ Handler
      BY <1>4, <3>1 DEF ExecStep, Handler, HandlerReturns, TakeItem, LoopEnds, PublishBusy,
         StartHandler, PushReply, ClearCurrent, PublishIdle, AbortTake, AbortEnds, AbortBusy,
         AbortReply, AbortIdle, After, AbortPcs
    <3>2. CASE ~(ExecStep \/ Handler) BY <1>4, <3>2, WorkShape DEF WorkVars
    <3>3. QED BY <3>1, <3>2
  <2>2. PICK x \in StopOnError : x = item BY <2>1
  <2>3. /\ x \in Requests /\ x # NoReq /\ x \in Execs /\ x \notin Waiting /\ origin[x] \in Socks
    BY <1>0, <2>2 DEF Placed, SInv, Sourced
  <2>4. x \notin Waiting' /\ origin'[x] \in Socks BY <2>3, GoneForGood
  <2>5. \/ item' = NoReq /\ pub'[x] # "idle"
        \/ AnsweredBy(x, "error")
    <3>1. CASE PublishBusy
      BY <2>1, <2>2, <3>1 DEF PublishBusy, Published
    <3>2. CASE PublishIdle
      <4>1. PICK failed \in BOOLEAN : EndOngoing(failed) /\ epc' = After(err \/ failed)
        BY <3>2 DEF PublishIdle
      <4>2. epc = "idle" /\ epc \in WorkPcs \ {"busy", "abortBusy"} BY <3>2 DEF PublishIdle, WorkPcs
      <4>3. CASE failed
        BY <2>2, <4>1, <4>2, <4>3 DEF EndOngoing, Published
      <4>4. CASE ~failed
        <5>1. err BY <2>1, <4>1, <4>4 DEF After
        <5>2. QED BY <2>2, <4>2, <5>1 DEF AbortsExplained
      <4>5. QED BY <4>3, <4>4
    <3>3. QED BY <2>1, <3>1, <3>2
  <2>6. CASE AnsweredBy(x, "error")
    <3>1. AnsweredBy(x, "error")' BY <2>3, <2>6, AnsweredKept
    <3>2. QED BY <2>4, <3>1, Names DEF Failed
  <2>7. CASE item' = NoReq /\ pub'[x] # "idle" BY <2>3, <2>4, <2>7, Names DEF Failed
  <2>8. QED BY <2>5, <2>6, <2>7
<1>5. ASSUME NEW r \in Execs, AnsweredBy(r, "abort")', ~AnsweredBy(r, "abort") PROVE epc \in AbortPcs
  <2>1. result # "abort" BY DEF SInv, TypeOK, TypeExec
  <2>2. AbortReply BY <1>5, <2>1, AnsweredNew
  <2>3. QED BY <2>2 DEF AbortReply, AbortPcs
<1>6. (epc' \in AbortPcs \/ \E r \in Execs : AnsweredBy(r, "abort")') => \E x \in StopOnError : Failed(x)'
  BY <1>3, <1>4, <1>5
<1>7. QED BY <1>1, <1>2, <1>6 DEF AbortsExplained

-----------------------------------------------------------------------------
(* The theorems *)

LEMMA AbortInit == Init => AbortInv
<1> SUFFICES ASSUME Init PROVE AbortInv
  OBVIOUS
<1> USE DEF Init
<1>1. /\ \A s \in Socks : Contents(inbox[s]) = {} /\ Distinct(inbox[s]) /\ held[s] = NoReq
      /\ Contents(queue) = {} /\ Distinct(queue)
  BY DEF Contents, Distinct
<1>2. Waiting \subseteq {NoReq} BY <1>1 DEF Waiting
<1>3. Placed BY <1>1 DEF Placed, AbortPcs
<1>4. Published BY DEF Published, WorkPcs
<1>5. DoomedStopped BY DEF DoomedStopped
<1>6. \A r, v : ~AnsweredBy(r, v) BY DEF AnsweredBy, Contents
<1>7. AbortsExplained BY <1>6 DEF AbortsExplained, AbortPcs
<1>8. QED BY <1>3, <1>4, <1>5, <1>7 DEF AbortInv

LEMMA AbortStutter == AbortInv /\ UNCHANGED vars => AbortInv'
<1> SUFFICES ASSUME AbortInv, UNCHANGED vars PROVE AbortInv'
  OBVIOUS
<1> USE DEF vars, clientVars, loopVars, wireVars, execVars
<1>1. Waiting' = Waiting BY DEF Waiting, Contents
<1>2. Placed' BY <1>1 DEF AbortInv, Placed, Distinct, Contents
<1>3. Published' BY <1>1 DEF AbortInv, Published
<1>4. DoomedStopped' BY <1>1 DEF AbortInv, DoomedStopped, Stopping, Contents
<1>5. \A r, v : AnsweredBy(r, v)' = AnsweredBy(r, v) BY DEF AnsweredBy, Contents
<1>6. \A x : Failed(x)' = Failed(x) BY <1>1, <1>5 DEF Failed
<1>7. AbortsExplained' BY <1>1, <1>5, <1>6 DEF AbortInv, AbortsExplained
<1>8. QED BY <1>2, <1>3, <1>4, <1>7 DEF AbortInv

\* The invariant of the kernel server but for the order of its requests: types and
\* replies, where every request is, what is published of it, what stopped the queue.
THEOREM AbortInvariance == Spec => [](SInv /\ AbortInv)
<1>1. Init => AbortInv BY AbortInit
<1>2. SInv /\ AbortInv /\ [Next]_vars => AbortInv'
  BY PlacedNext, PublishedNext, DoomedNext, ExplainedNext, AbortStutter DEF AbortInv
<1>3. QED BY <1>1, <1>2, Invariance, PTL DEF Spec

\* When a request with stop_on_error fails, none of those that were in the queue is ever
\* executed, although others may be sent and queued meanwhile (execute.go:46-70, 120-124).
THEOREM QueuedAreAborted == Spec => []QueuedAborted
<1>1. AbortInv => QueuedAborted
  BY DEF AbortInv, DoomedStopped, QueuedAborted
<1>2. QED BY <1>1, AbortInvariance, PTL

\* A request that was aborted has not been executed, and another one that asked for it
\* had failed (execute.go:118-125, shelsocket.go:79-87).
THEOREM AbortsAreJustified == Spec => []AbortJustified
<1>1. AbortInv => AbortJustified
  BY DEF AbortInv, AbortsExplained, AbortJustified
<1>2. QED BY <1>1, AbortInvariance, PTL
=============================================================================
