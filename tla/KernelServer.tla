---------------------------- MODULE KernelServer ----------------------------
(***************************************************************************)
(* The Jupyter kernel server of jupyter/gojupyterscaffold: two polling     *)
(* loops (shell and control), the goroutine that executes one request at   *)
(* a time, the goroutines of the other requests, the goroutines that       *)
(* await signals, and Server.Loop, which winds all of them up.             *)
(*                                                                         *)
(* A request is its own name.  The handlers are the program's business:    *)
(* they return a status whenever they like.  What a goroutine does without *)
(* reading or writing anything shared is part of the step before.          *)
(***************************************************************************)
EXTENDS Integers, Sequences, FiniteSets

CONSTANTS
  Execs,             \* bound: the execute requests clients may send
  StopOnError,       \* those of them with stop_on_error
  Queries,           \* bound: complete, inspect, is_complete, gofmt requests
  Infos,             \* bound: kernel_info requests
  Shutdowns,         \* bound: shutdown requests
  Routes,            \* bound: which request may be sent on which socket
  executeQueueSize,  \* the capacity of the channel of the queue
  MaxSignals,        \* bound: how many SIGINTs are received
  PublishFails,      \* may sending on the iopub socket fail?
  NoReq              \* no request

Requests == Execs \cup Queries \cup Infos \cup Shutdowns
Socks    == {"shell", "control"}

ASSUME RequestsAssumption ==
  /\ IsFiniteSet(Requests) /\ NoReq \notin Requests /\ StopOnError \subseteq Execs
  /\ Execs \cap (Queries \cup Infos \cup Shutdowns) = {}
  /\ Queries \cap (Infos \cup Shutdowns) = {} /\ Infos \cap Shutdowns = {}
ASSUME RoutesAssumption == Routes \subseteq Socks \X Requests
ASSUME SizesAssumption ==
  executeQueueSize \in Nat \ {0} /\ MaxSignals \in Nat /\ PublishFails \in BOOLEAN

VARIABLES
  inbox,       \* inbox[s]: requests on the ROUTER socket, not yet received
  origin,      \* origin[r]: the socket r was sent on, or "none"
  lpc,         \* lpc[s]: where the polling loop of s is
  todo,        \* todo[s]: the polled sockets it has not served yet
  held,        \* held[s]: the request it is pushing into the queue
  resq,        \* resq[s]: the inner sockets resultPush, resultPull
  sent,        \* sent[s]: the replies sent to clients
  queue,       \* executeQueue.queue
  epc,         \* where executeQueue.loop is
  item,        \* the request it works on
  err,         \* whether WithOngoingContext returns an error
  result,      \* the status HandleExecuteRequest returned
  currentCtx,  \* executeQueue.currentCtx, by its request
  cancelled,   \* the requests whose execution context was cancelled
  pub,         \* pub[r]: the last status published for the execute request r
  qpc,         \* qpc[r]: the goroutine that answers r
  serverDone,  \* the server context is done
  mpc,         \* where Server.Loop is
  sigBuf,      \* the channel of monitorSigint holds a signal
  sigTarget,   \* the context cancelCurrent is about to cancel
  signals,     \* how many SIGINTs have been received
  asked,       \* history: asked[s], the execute requests sent on s, in order
  ran,         \* history: the execute requests whose handler was called
  doomed,      \* history: the requests in the queue when a stopper failed
  late         \* history: those sent by then but not yet in the queue

clientVars == <<inbox, origin, asked>>
loopVars   == <<lpc, todo, held>>
wireVars   == <<resq, sent>>
execVars   == <<queue, epc, item, err, result, currentCtx, ran, doomed, late>>
signalVars == <<sigBuf, sigTarget, signals>>
vars == <<clientVars, loopVars, wireVars, execVars, pub, signalVars,
          cancelled, qpc, serverDone, mpc>>

END_OF_LOOP == [req |-> NoReq, status |-> "END_OF_LOOP"]

Contents(seq) == {seq[i] : i \in DOMAIN seq}

Init ==
  /\ inbox = [s \in Socks |-> <<>>] /\ origin = [r \in Requests |-> "none"]
  /\ lpc   = [s \in Socks |-> "loop"]
  /\ todo  = [s \in Socks |-> {}]   /\ held = [s \in Socks |-> NoReq]
  /\ resq  = [s \in Socks |-> <<>>] /\ sent = [s \in Socks |-> <<>>]
  /\ queue = <<>> /\ epc = "select" /\ item = NoReq /\ err = FALSE
  /\ result = "none" /\ currentCtx = NoReq /\ cancelled = {}
  /\ pub = [r \in Execs |-> "none"]
  /\ qpc = [r \in Queries |-> "none"]
  /\ serverDone = FALSE /\ mpc = "serving"
  /\ sigBuf = FALSE /\ sigTarget = NoReq /\ signals = 0
  /\ asked = [s \in Socks |-> <<>>] /\ ran = {} /\ doomed = {} /\ late = {}

-----------------------------------------------------------------------------
(* Clients and signals *)

Send(s, r) ==
  /\ origin[r] = "none" /\ <<s, r>> \in Routes
  /\ origin' = [origin EXCEPT ![r] = s]
  /\ inbox'  = [inbox EXCEPT ![s] = Append(@, r)]
  /\ asked'  = IF r \in Execs THEN [asked EXCEPT ![s] = Append(@, r)] ELSE asked
  /\ UNCHANGED <<loopVars, wireVars, execVars, pub, signalVars, cancelled,
                 qpc, serverDone, mpc>>

\* SIGTERM, SIGQUIT or SIGHUP: cancelCtx().
TerminationSignal ==
  /\ ~serverDone
  /\ serverDone' = TRUE
  /\ UNCHANGED <<clientVars, loopVars, wireVars, execVars, pub, signalVars,
                 cancelled, qpc, mpc>>

\* A SIGINT that finds the channel of monitorSigint full is dropped.
Interrupt ==
  /\ signals < MaxSignals
  /\ signals' = signals + 1
  /\ sigBuf' = TRUE
  /\ UNCHANGED <<clientVars, loopVars, wireVars, execVars, pub, sigTarget,
                 cancelled, qpc, serverDone, mpc>>

\* cancelCurrent reads currentCtx without any lock, once ...
ReadCurrent ==
  /\ sigBuf /\ sigTarget = NoReq
  /\ sigBuf' = FALSE
  /\ sigTarget' = currentCtx
  /\ UNCHANGED <<clientVars, loopVars, wireVars, execVars, pub, signals,
                 cancelled, qpc, serverDone, mpc>>

\* Mutant: the context read is not cancelled.
CancelsNothing ==
  /\ sigTarget # NoReq
  /\ sigTarget' = NoReq
  /\ UNCHANGED <<clientVars, loopVars, wireVars, execVars, pub, sigBuf,
                 signals, cancelled, qpc, serverDone, mpc>>

\* ... and cancels what it read, which may have ended meanwhile.
CancelCurrent ==
  /\ sigTarget # NoReq
  /\ cancelled' = cancelled \cup {sigTarget}
  /\ sigTarget' = NoReq
  /\ UNCHANGED <<clientVars, loopVars, wireVars, execVars, pub, sigBuf,
                 signals, qpc, serverDone, mpc>>

-----------------------------------------------------------------------------
(* shellSocket.loop, for both sockets *)

Ready(s) == {p \in {"socket", "pull"} :
               IF p = "socket" THEN inbox[s] # <<>> ELSE resq[s] # <<>>}

Poll(s) ==
  /\ lpc[s] = "loop" /\ todo[s] = {} /\ Ready(s) # {}
  /\ todo' = [todo EXCEPT ![s] = Ready(s)]
  /\ UNCHANGED <<clientVars, lpc, held, wireVars, execVars, pub, signalVars,
                 cancelled, qpc, serverDone, mpc>>

\* handleMessages receives one message; the socket comes first in the poller.
Receive(s, r) ==
  /\ lpc[s] = "loop" /\ "socket" \in todo[s] /\ r = Head(inbox[s])
  /\ inbox' = [inbox EXCEPT ![s] = Tail(@)]
  /\ todo'  = [todo EXCEPT ![s] = @ \ {"socket"}]

ReceiveExecute(s) == \E r \in Execs :
  /\ Receive(s, r)
  /\ lpc'  = [lpc EXCEPT ![s] = "push"]
  /\ held' = [held EXCEPT ![s] = r]
  /\ UNCHANGED <<origin, asked, wireVars, execVars, pub, signalVars, cancelled,
                 qpc, serverDone, mpc>>

ReceiveShutdown(s) == \E r \in Shutdowns :
  /\ Receive(s, r)
  /\ serverDone' = TRUE
  /\ UNCHANGED <<origin, asked, lpc, held, wireVars, execVars, pub, signalVars,
                 cancelled, qpc, mpc>>

ReceiveQuery(s) == \E r \in Queries :
  /\ Receive(s, r)
  /\ qpc' = [qpc EXCEPT ![r] = "run"]
  /\ UNCHANGED <<origin, asked, lpc, held, wireVars, execVars, pub, signalVars,
                 cancelled, serverDone, mpc>>

\* sendKernelInfo runs within the polling loop; no reply when busy cannot be
\* published.
ReceiveInfo(s) == \E r \in Infos :
  /\ Receive(s, r)
  /\ \/ sent' = [sent EXCEPT ![s] = Append(@, [req |-> r, status |-> "ok"])]
     \/ PublishFails /\ UNCHANGED sent
  /\ UNCHANGED <<origin, asked, lpc, held, resq, execVars, pub, signalVars, cancelled,
                 qpc, serverDone, mpc>>

\* Mutant: a full queue drops the request.
PushDrops(s) ==
  /\ lpc[s] = "push"
  /\ queue' = IF Len(queue) < executeQueueSize THEN Append(queue, held[s]) ELSE queue
  /\ held'  = [held EXCEPT ![s] = NoReq]
  /\ lpc'   = [lpc EXCEPT ![s] = "loop"]
  /\ UNCHANGED <<clientVars, todo, wireVars, epc, item, err, result, currentCtx, ran,
                 doomed, late, pub, signalVars, cancelled, qpc, serverDone, mpc>>

Push(s) ==                        \* q.queue <- item, blocking when full
  /\ lpc[s] = "push" /\ Len(queue) < executeQueueSize
  /\ queue' = Append(queue, held[s])
  /\ held'  = [held EXCEPT ![s] = NoReq]
  /\ lpc'   = [lpc EXCEPT ![s] = "loop"]
  /\ UNCHANGED <<clientVars, todo, wireVars, epc, item, err, result, currentCtx, ran,
                 doomed, late, pub, signalVars, cancelled, qpc, serverDone, mpc>>

\* handleResultPull forwards one message, or ends the loop.
Forward(s) ==
  /\ lpc[s] = "loop" /\ todo[s] = {"pull"}
  /\ resq' = [resq EXCEPT ![s] = Tail(@)]
  /\ todo' = [todo EXCEPT ![s] = {}]
  /\ IF Head(resq[s]) = END_OF_LOOP
     THEN lpc' = [lpc EXCEPT ![s] = "exited"] /\ UNCHANGED sent
     ELSE sent' = [sent EXCEPT ![s] = Append(@, Head(resq[s]))] /\ UNCHANGED lpc
  /\ UNCHANGED <<clientVars, held, execVars, pub, signalVars, cancelled, qpc,
                 serverDone, mpc>>

\* The goroutine of a complete, inspect, is_complete or gofmt request; once the
\* inner socket is closed its result goes nowhere.
AnswerQuery(r) ==
  /\ qpc[r] = "run"
  /\ qpc' = [qpc EXCEPT ![r] = "done"]
  /\ resq' = IF mpc = "returned" THEN resq
             ELSE [resq EXCEPT ![origin[r]] = Append(@, [req |-> r, status |-> "ok"])]
  /\ UNCHANGED <<clientVars, loopVars, sent, execVars, pub, signalVars,
                 cancelled, serverDone, mpc>>

-----------------------------------------------------------------------------
(* executeQueue.loop *)

\* Mutant: whatever socket a request came from, its result goes to shell.
PushResultToShell(r, status) ==
  resq' = [resq EXCEPT !["shell"] = Append(@, [req |-> r, status |-> status])]

\* pushResult: to the socket the request came from.
PushResult(r, status) ==
  resq' = [resq EXCEPT ![origin[r]] = Append(@, [req |-> r, status |-> status])]

\* Mutant: any failure aborts the queue, stop_on_error or not.
AfterAborts(e) == IF e THEN "abort" ELSE "select"

\* Where the loop goes when WithOngoingContext has returned e for the item.
After(e) == IF e /\ item \in StopOnError THEN "abort" ELSE "select"

TakeItem ==
  /\ epc = "select" /\ queue # <<>>
  /\ item' = Head(queue) /\ queue' = Tail(queue)
  /\ epc' = "busy"
  /\ UNCHANGED <<clientVars, loopVars, wireVars, err, result, currentCtx, ran, doomed,
                 late, pub, signalVars, cancelled, qpc, serverDone, mpc>>

LoopEnds ==                       \* select picks any case that is ready
  /\ epc = "select" /\ serverDone
  /\ epc' = "ended"
  /\ UNCHANGED <<clientVars, loopVars, wireVars, queue, item, err, result, currentCtx,
                 ran, doomed, late, pub, signalVars, cancelled, qpc,
                 serverDone, mpc>>

\* The status busy of WithOngoingContext; if it cannot be published f is never
\* called, and nobody answers the request.  (The set of ongoing contexts is left
\* out: only cancelOngoings reads it, which has no caller.)
PublishBusy ==
  /\ epc = "busy"
  /\ \/ /\ pub' = [pub EXCEPT ![item] = "busy"]
        /\ epc' = "start" /\ err' = FALSE /\ UNCHANGED item
     \/ /\ PublishFails /\ UNCHANGED <<pub, err>>
        /\ epc' = After(TRUE) /\ item' = NoReq
  /\ UNCHANGED <<clientVars, loopVars, wireVars, queue, result, currentCtx, ran,
                 doomed, late, signalVars, cancelled, qpc, serverDone, mpc>>

StartHandler ==
  /\ epc = "start"
  /\ currentCtx' = item
  /\ ran' = ran \cup {item}
  /\ epc' = "run"
  /\ UNCHANGED <<clientVars, loopVars, wireVars, queue, item, err, result, doomed, late,
                 pub, signalVars, cancelled, qpc, serverDone, mpc>>

HandlerReturns(v) ==
  /\ epc = "run"
  /\ result' = v
  /\ epc' = "reply"
  /\ IF v = "error" /\ item \in StopOnError
     THEN /\ doomed' = doomed \cup Contents(queue)
          /\ late' = late \cup {r \in Execs : \E s \in Socks :
                                   r = held[s] \/ r \in Contents(inbox[s])}
     ELSE UNCHANGED <<doomed, late>>
  /\ UNCHANGED <<clientVars, loopVars, wireVars, queue, item, err, currentCtx, ran,
                 pub, signalVars, cancelled, qpc, serverDone, mpc>>

\* Mutant: a failed request returns its error before it has pushed the reply.
PushReplyUnlessError ==
  /\ epc = "reply"
  /\ IF result = "error" THEN UNCHANGED resq ELSE PushResult(item, result)
  /\ err' = (result = "error")
  /\ result' = "none"
  /\ epc' = "cleanup"
  /\ UNCHANGED <<clientVars, loopVars, sent, queue, item, currentCtx, ran, doomed, late,
                 pub, signalVars, cancelled, qpc, serverDone, mpc>>

PushReply ==
  /\ epc = "reply"
  /\ PushResult(item, result)
  /\ err' = (result = "error")
  /\ result' = "none"
  /\ epc' = "cleanup"
  /\ UNCHANGED <<clientVars, loopVars, sent, queue, item, currentCtx, ran, doomed, late,
                 pub, signalVars, cancelled, qpc, serverDone, mpc>>

ClearCurrent ==                   \* the deferred cancel() and currentCtx = nil
  /\ epc = "cleanup"
  /\ cancelled' = cancelled \cup {item}
  /\ currentCtx' = NoReq
  /\ epc' = "idle"
  /\ UNCHANGED <<clientVars, loopVars, wireVars, queue, item, err, result, ran, doomed,
                 late, pub, signalVars, qpc, serverDone, mpc>>

\* The status idle, when WithOngoingContext returns.
EndOngoing(failed) ==
  /\ IF failed THEN PublishFails /\ UNCHANGED pub ELSE pub' = [pub EXCEPT ![item] = "idle"]
  /\ item' = NoReq

PublishIdle == \E failed \in BOOLEAN :
  /\ epc = "idle"
  /\ EndOngoing(failed)
  /\ epc' = After(err \/ failed)
  /\ err' = FALSE
  /\ UNCHANGED <<clientVars, loopVars, wireVars, queue, result, currentCtx, ran, doomed,
                 late, signalVars, cancelled, qpc, serverDone, mpc>>

-----------------------------------------------------------------------------
(* abortQueue: until a look into the queue finds it empty *)

AbortTake ==
  /\ epc = "abort" /\ queue # <<>>
  /\ item' = Head(queue) /\ queue' = Tail(queue)
  /\ epc' = "abortBusy"
  /\ UNCHANGED <<clientVars, loopVars, wireVars, err, result, currentCtx, ran, doomed,
                 late, pub, signalVars, cancelled, qpc, serverDone, mpc>>

AbortEnds ==
  /\ epc = "abort" /\ queue = <<>>
  /\ epc' = "select"
  /\ UNCHANGED <<clientVars, loopVars, wireVars, queue, item, err, result, currentCtx,
                 ran, doomed, late, pub, signalVars, cancelled, qpc,
                 serverDone, mpc>>

AbortBusy ==
  /\ epc = "abortBusy"
  /\ \/ /\ pub' = [pub EXCEPT ![item] = "busy"]
        /\ epc' = "abortReply" /\ UNCHANGED item
     \/ /\ PublishFails /\ UNCHANGED pub
        /\ epc' = "abort" /\ item' = NoReq
  /\ UNCHANGED <<clientVars, loopVars, wireVars, queue, err, result, currentCtx, ran,
                 doomed, late, signalVars, cancelled, qpc, serverDone, mpc>>

AbortReply ==
  /\ epc = "abortReply"
  /\ PushResult(item, "abort")
  /\ epc' = "abortIdle"
  /\ UNCHANGED <<clientVars, loopVars, sent, queue, item, err, result, currentCtx, ran,
                 doomed, late, pub, signalVars, cancelled, qpc, serverDone, mpc>>

\* Mutant: abortQueue aborts one request only.
AbortIdleOnce == \E failed \in BOOLEAN :
  /\ epc = "abortIdle"
  /\ EndOngoing(failed)
  /\ epc' = "select"
  /\ UNCHANGED <<clientVars, loopVars, wireVars, queue, err, result, currentCtx, ran,
                 doomed, late, signalVars, cancelled, qpc, serverDone, mpc>>

AbortIdle == \E failed \in BOOLEAN :
  /\ epc = "abortIdle"
  /\ EndOngoing(failed)
  /\ epc' = "abort"
  /\ UNCHANGED <<clientVars, loopVars, wireVars, queue, err, result, currentCtx, ran,
                 doomed, late, signalVars, cancelled, qpc, serverDone, mpc>>

-----------------------------------------------------------------------------
(* Server.Loop, after it has started everything *)

Notify(s) == resq' = [resq EXCEPT ![s] = Append(@, END_OF_LOOP)]

\* Mutant: Loop awaits the server context instead of executeQueue.loop.
NotifyShellEarly ==
  /\ mpc = "serving" /\ serverDone
  /\ Notify("shell")
  /\ mpc' = "notified shell"
  /\ UNCHANGED <<clientVars, loopVars, sent, execVars, pub, signalVars, cancelled,
                 qpc, serverDone>>

NotifyShell ==                    \* <-execDone; shell.notifyLoopEnd()
  /\ mpc = "serving" /\ epc = "ended"
  /\ Notify("shell")
  /\ mpc' = "notified shell"
  /\ UNCHANGED <<clientVars, loopVars, sent, execVars, pub, signalVars, cancelled,
                 qpc, serverDone>>

\* Mutant: shell is notified twice.
NotifyShellAgain ==
  /\ mpc = "notified shell"
  /\ Notify("shell")
  /\ mpc' = "notified both"
  /\ UNCHANGED <<clientVars, loopVars, sent, execVars, pub, signalVars, cancelled,
                 qpc, serverDone>>

NotifyControl ==
  /\ mpc = "notified shell"
  /\ Notify("control")
  /\ mpc' = "notified both"
  /\ UNCHANGED <<clientVars, loopVars, sent, execVars, pub, signalVars, cancelled,
                 qpc, serverDone>>

LoopReturns ==                    \* <-sockDone twice; the sockets are closed
  /\ mpc = "notified both" /\ \A s \in Socks : lpc[s] = "exited"
  /\ mpc' = "returned"
  /\ UNCHANGED <<clientVars, loopVars, wireVars, execVars, pub, signalVars,
                 cancelled, qpc, serverDone>>

-----------------------------------------------------------------------------
Environment  == \/ \E s \in Socks, r \in Requests : Send(s, r)
                \/ TerminationSignal \/ Interrupt
SignalStep   == ReadCurrent \/ CancelCurrent
SocketStep(s) == \/ Poll(s) \/ ReceiveExecute(s) \/ ReceiveShutdown(s)
                 \/ ReceiveQuery(s) \/ ReceiveInfo(s) \/ Push(s) \/ Forward(s)
ExecStep     == \/ TakeItem \/ LoopEnds \/ PublishBusy \/ StartHandler \/ PushReply
                \/ ClearCurrent \/ PublishIdle \/ AbortTake \/ AbortEnds
                \/ AbortBusy \/ AbortReply \/ AbortIdle
MainStep     == NotifyShell \/ NotifyControl \/ LoopReturns
Handler      == \E v \in {"ok", "error"} : HandlerReturns(v)

Next == \/ Environment \/ SignalStep \/ ExecStep \/ Handler \/ MainStep
        \/ \E s \in Socks : SocketStep(s)
        \/ \E r \in Queries : AnswerQuery(r)

Spec == Init /\ [][Next]_vars

\* Goroutines that can run do run; an execution whose context is done returns
\* (what ExecLgoEntryPoint promises).  Clients and signals owe nothing.
ItemDone == item \in cancelled \/ serverDone
Fairness ==
  /\ WF_vars(SignalStep) /\ WF_vars(ExecStep) /\ WF_vars(MainStep)
  /\ \A s \in Socks : WF_vars(SocketStep(s))
  /\ WF_vars(Handler /\ ItemDone)

FairSpec == Spec /\ Fairness
-----------------------------------------------------------------------------
(* Properties *)

Replies == [req : Requests, status : {"ok", "error", "abort"}]
ExecPcs == {"select", "busy", "start", "run", "reply", "cleanup", "idle", "ended"}
AbortPcs == {"abort", "abortBusy", "abortReply", "abortIdle"}

TypeClients ==
  /\ inbox \in [Socks -> Seq(Requests)] /\ origin \in [Requests -> Socks \cup {"none"}]
  /\ asked \in [Socks -> Seq(Execs)]
TypeLoops ==
  /\ lpc \in [Socks -> {"loop", "push", "exited"}]
  /\ todo \in [Socks -> SUBSET {"socket", "pull"}]
  /\ held \in [Socks -> Execs \cup {NoReq}]
TypeWire ==
  /\ resq \in [Socks -> Seq(Replies \cup {END_OF_LOOP})]
  /\ sent \in [Socks -> Seq(Replies)]
TypeExec ==
  /\ queue \in Seq(Execs) /\ Len(queue) <= executeQueueSize
  /\ epc \in ExecPcs \cup AbortPcs /\ item \in Execs \cup {NoReq} /\ err \in BOOLEAN
  /\ result \in {"none", "ok", "error"} /\ currentCtx \in Execs \cup {NoReq}
  /\ ran \subseteq Execs /\ doomed \subseteq Execs /\ late \subseteq Execs
TypeRest ==
  /\ pub \in [Execs -> {"none", "busy", "idle"}] /\ cancelled \subseteq Execs
  /\ sigBuf \in BOOLEAN /\ sigTarget \in Execs \cup {NoReq} /\ signals \in 0 .. MaxSignals
  /\ qpc \in [Queries -> {"none", "run", "done"}] /\ serverDone \in BOOLEAN
  /\ mpc \in {"serving", "notified shell", "notified both", "returned"}

\* Every variable stays in its range: the queue within its capacity, nothing but
\* replies on the wire before END_OF_LOOP.
TypeOK == TypeClients /\ TypeLoops /\ TypeWire /\ TypeExec /\ TypeRest

Delivered(r) == \E s \in Socks : \E i \in DOMAIN sent[s] : sent[s][i].req = r
Underway(r)  == \E s \in Socks : \E i \in DOMAIN resq[s] : resq[s][i].req = r
AnsweredBy(r, v) == \E s \in Socks :
  [req |-> r, status |-> v] \in Contents(sent[s]) \cup Contents(resq[s])

\* The status idle follows the reply: a client that has seen idle for an execute
\* request can count on its reply (shelsocket.go:82-88, execute.go:108-118).
IdleAfterReply == \A r \in Execs : pub[r] = "idle" => Delivered(r) \/ Underway(r)

\* The winding up loses no reply of a request that was executed: END_OF_LOOP
\* comes after all of them on both inner sockets (gojupyterscaffold.go:198-209).
RepliesKept == mpc = "returned" => \A r \in ran : Delivered(r)

\* When a request with stop_on_error fails, none of those in the queue is
\* executed (execute.go:46-70, 120-124).
QueuedAborted == doomed \cap ran = {}

\* A request is aborted instead of executed, and only after another one that
\* asked for it failed: it was answered "error", or one of its status messages
\* could not be published (execute.go:118-125, shelsocket.go:79-87).
Waiting == Contents(queue) \cup {held[s] : s \in Socks}
             \cup UNION {Contents(inbox[s]) : s \in Socks}
Failed(r) == /\ origin[r] # "none" /\ r \notin Waiting
             /\ AnsweredBy(r, "error") \/ (r # item /\ pub[r] # "idle")

AbortJustified == \A r \in Execs : AnsweredBy(r, "abort") =>
  r \notin ran /\ \E x \in StopOnError : Failed(x)

\* An interrupt that arrives while a request runs makes it end
\* (gojupyterscaffold.go:146-155, execute.go:72-77).
InterruptEnds == \A r \in Execs : (sigBuf /\ currentCtx = r) ~> pub[r] = "idle"

\* If handlers return, every execute request is answered unless the server is
\* shut down, even when the queue fills and blocks a polling loop.
ExecuteAnswered ==
  WF_vars(Handler) =>
    \A r \in Execs : origin[r] # "none" ~> (Delivered(r) \/ serverDone)

\* Server.Loop returns once the server context is done, although clients may go
\* on sending (gojupyterscaffold.go:198-212), unless a polling loop is stuck on a
\* queue that nobody reads any more.
Stuck == epc = "ended" /\ Len(queue) = executeQueueSize /\ \E s \in Socks : lpc[s] = "push"

ShutdownReturns == serverDone ~> (mpc = "returned" \/ Stuck)

-----------------------------------------------------------------------------
(* KernelServer implements ExecuteService. *)

IsExecute(reply) == reply.req \in Execs

\* The replies to execute requests in a sequence of messages.
ExecuteReplies(seq) ==
  LET chosen[i \in 0 .. Len(seq)] ==
        IF i = 0 THEN <<>>
        ELSE IF IsExecute(seq[i]) THEN Append(chosen[i - 1], seq[i]) ELSE chosen[i - 1]
  IN chosen[Len(seq)]

\* How many requests of socket s have been taken up: the first ones, and no other.
TakenUp(s) == CHOOSE n \in 0 .. Len(asked[s]) :
  \A i \in 1 .. Len(asked[s]) : i <= n <=> asked[s][i] \notin Waiting

Service == INSTANCE ExecuteService WITH
  taken     <- [s \in Socks |-> TakenUp(s)],
  serving   <- item,
  answered  <- item # NoReq /\ (Delivered(item) \/ Underway(item)),
  executing <- item \in ran,
  stopping  <- epc \in AbortPcs,
  answers   <- [s \in Socks |-> ExecuteReplies(sent[s] \o resq[s])]

\* Requests are served one by one, in order, at most once, and what is pushed
\* into an inner socket is what the clients get (the contract of execute.go:1-6).
ImplementsService == Service!Spec

-----------------------------------------------------------------------------
(* What comments of the repository say and the code does not do. *)

\* execute.go:4-7: since "the jupyter client sends successive execute_requests
\* to servers before previous execute_requests finishes", the kernel is
\* responsible to "abort them if one of them fails".
SentAborted == late \cap ran = {}

\* shelsocket.go:247: "notifyLoopEnd notifies the end of the loop to the goroutine
\* in loop()".  That goroutine never sees it when it is blocked in push, on a
\* full queue nobody reads any more (execute.go:40-42, 88-89).
LoopEndNotified == \A s \in Socks : END_OF_LOOP \in Contents(resq[s]) ~> lpc[s] = "exited"
=============================================================================
