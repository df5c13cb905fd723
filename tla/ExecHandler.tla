---------------------------- MODULE ExecHandler -----------------------------
(***************************************************************************)
(* HandleExecuteRequest of cmd/lgo-internal/kernel.go: os.Stdout and       *)
(* os.Stderr are redirected into two pipes around a run, two readers       *)
(* forward what comes out of them to the client, and the reply is sent     *)
(* when both have ended.                                                   *)
(*                                                                         *)
(* Requests have the numbers of h.execCount.  A chunk of output is known   *)
(* by the run whose code wrote it, or as the handler's message about a     *)
(* failed run, or as a child's.  The lgo code of a run may leave a         *)
(* goroutine behind, which goes on writing, and a child process, which     *)
(* holds copies of the pipes' write ends.  A pipe has room for one chunk.  *)
(***************************************************************************)
EXTENDS Runner, Sequences

CONSTANTS
  MaxWrites,  \* bound: how many chunks the code of one block writes
  CodeStreams, \* bound: the streams it writes to
  Lingerers   \* bound: the runs that leave a goroutine or a child process behind

Streams  == {"out", "err"}
Requests == 1 .. MaxRuns
Failure  == 0
Child    == -1
Chunks   == Runs \cup {Failure, Child}

ASSUME WritesAssumption == MaxWrites \in Nat /\ CodeStreams \subseteq Streams
                             /\ Lingerers \subseteq Runs

VARIABLES
  hcount,    \* h.execCount: the request at work
  hpc,       \* where HandleExecuteRequest is
  awaited,   \* how many readers it still waits for
  std,       \* std[s]: the request whose pipe is os.Stdout or os.Stderr, or 0
  origs,     \* origs[s]: what pipeOutput will restore
  writeEnd,  \* writeEnd[r][s]: "none", "open" or "closed"
  inPipe,    \* inPipe[r][s]: the chunks in the pipe
  reader,    \* reader[r][s]: where the goroutine that reads the pipe is
  buf,       \* buf[r][s]: the chunk it has read
  streamed,  \* streamed[r]: the chunks sent to the client, as messages of r
  accepted,  \* history: accepted[r]: the chunks written into a pipe of r
  children,  \* the requests whose child processes hold copies of write ends
  writing,   \* writing[e]: the file the goroutine of run e has read, or "no"
  written,   \* written[e]: how many chunks the code of run e has written
  late,      \* the runs that left a goroutine behind
  replied    \* replied[r]: the status of the reply

handlerVars == <<hcount, hpc, awaited, std, origs, replied>>
pipeVars    == <<writeEnd, inPipe, reader, buf, streamed, accepted>>
codeVars    == <<children, writing, written, late>>
execHandlerVars == <<handlerVars, pipeVars, codeVars>>

Idle == "idle"
NoFile == [s |-> "out", r |-> -1]

ExecHandlerMemory ==
  /\ hcount = 0 /\ hpc = Idle /\ awaited = 0
  /\ std = [s \in Streams |-> 0] /\ origs = std
  /\ writeEnd = [r \in Requests |-> [s \in Streams |-> "none"]]
  /\ inPipe = [r \in Requests |-> [s \in Streams |-> <<>>]]
  /\ reader = [r \in Requests |-> [s \in Streams |-> "none"]]
  /\ buf = [r \in Requests |-> [s \in Streams |-> Failure]]
  /\ streamed = [r \in Requests |-> {}] /\ accepted = streamed
  /\ children = {} /\ late = {}
  /\ writing = [e \in Runs |-> NoFile] /\ written = [e \in Runs |-> 0]
  /\ replied = [r \in Requests |-> "none"]

\* The process ends.
ExecHandlerForgets ==
  /\ hcount' = 0 /\ hpc' = Idle /\ awaited' = 0
  /\ std' = [s \in Streams |-> 0] /\ origs' = std'
  /\ writeEnd' = [r \in Requests |-> [s \in Streams |-> "none"]]
  /\ inPipe' = [r \in Requests |-> [s \in Streams |-> <<>>]]
  /\ reader' = [r \in Requests |-> [s \in Streams |-> "none"]]
  /\ buf' = [r \in Requests |-> [s \in Streams |-> Failure]]
  /\ streamed' = [r \in Requests |-> {}] /\ accepted' = streamed'
  /\ children' = {} /\ late' = {}
  /\ writing' = [e \in Runs |-> NoFile] /\ written' = [e \in Runs |-> 0]
  /\ replied' = [r \in Requests |-> "none"]

ExecHandlerTypeOK ==
  /\ hcount \in 0 .. MaxRuns /\ awaited \in 0 .. 2
  /\ hpc \in {Idle, "stderr", "run", "running", "closeOut", "closeErr", "wait"}
  /\ std \in [Streams -> 0 .. MaxRuns] /\ origs \in [Streams -> 0 .. MaxRuns]
  /\ writeEnd \in [Requests -> [Streams -> {"none", "open", "closed"}]]
  /\ \A r \in Requests, s \in Streams :
       /\ inPipe[r][s] \in {<<>>} \cup {<<c>> : c \in Chunks}
       /\ reader[r][s] \in {"none", "read", "send", "ended", "gone"} /\ buf[r][s] \in Chunks
  /\ streamed \in [Requests -> SUBSET Chunks] /\ accepted \in [Requests -> SUBSET Chunks]
  /\ children \subseteq Requests /\ late \subseteq Runs
  /\ written \in [Runs -> 0 .. MaxWrites]
  /\ replied \in [Requests -> {"none", "ok", "error"}]
-----------------------------------------------------------------------------
(* pipeOutput, lines 42-74.                                                *)

OpenPipe(r, s) ==
  /\ writeEnd' = [writeEnd EXCEPT ![r][s] = "open"]
  /\ reader' = [reader EXCEPT ![r][s] = "read"]
  /\ origs' = [origs EXCEPT ![s] = std[s]] /\ std' = [std EXCEPT ![s] = r]
  /\ UNCHANGED <<inPipe, buf, streamed, accepted>>

\* Mutant: the file is closed but stays os.Stdout or os.Stderr.
ClosePipeOnly(r, s) ==
  /\ UNCHANGED std
  /\ writeEnd' = [writeEnd EXCEPT ![r][s] = "closed"]
  /\ UNCHANGED <<inPipe, reader, buf, streamed, accepted>>

\* Mutant: the file is restored but the pipe is not closed.
RestoreOnly(r, s) ==
  /\ std' = [std EXCEPT ![s] = origs[s]]
  /\ UNCHANGED <<writeEnd, inPipe, reader, buf, streamed, accepted>>

ClosePipe(r, s) ==
  /\ std' = [std EXCEPT ![s] = origs[s]]
  /\ writeEnd' = [writeEnd EXCEPT ![r][s] = "closed"]
  /\ UNCHANGED <<inPipe, reader, buf, streamed, accepted>>

ReaderReads(r, s) ==
  /\ reader[r][s] = "read" /\ inPipe[r][s] # <<>>
  /\ reader' = [reader EXCEPT ![r][s] = "send"]
  /\ buf' = [buf EXCEPT ![r][s] = Head(inPipe[r][s])]
  /\ inPipe' = [inPipe EXCEPT ![r][s] = Tail(@)]
  /\ UNCHANGED <<writeEnd, streamed, accepted>>

ReaderSends(r, s) ==
  /\ reader[r][s] = "send"
  /\ streamed' = [streamed EXCEPT ![r] = @ \cup {buf[r][s]}]
  /\ reader' = [reader EXCEPT ![r][s] = "read"]
  /\ buf' = [buf EXCEPT ![r][s] = Failure]
  /\ UNCHANGED <<writeEnd, inPipe, accepted>>

\* End of file: no copy of the write end is left.
ReaderEnds(r, s) ==
  /\ reader[r][s] = "read" /\ inPipe[r][s] = <<>>
  /\ writeEnd[r][s] = "closed" /\ r \notin children
  /\ reader' = [reader EXCEPT ![r][s] = "ended"]
  /\ UNCHANGED <<writeEnd, inPipe, buf, streamed, accepted>>

WriteInto(r, s, chunk) ==
  /\ inPipe[r][s] = <<>>
  /\ inPipe' = [inPipe EXCEPT ![r][s] = <<chunk>>]
  /\ accepted' = [accepted EXCEPT ![r] = @ \cup {chunk}]
  /\ UNCHANGED <<writeEnd, reader, buf, streamed>>
-----------------------------------------------------------------------------
(* HandleExecuteRequest, lines 145-198.                                    *)

Reply(status) ==
  /\ replied' = [replied EXCEPT ![hcount'] = status] /\ hpc' = Idle

HandleExecuteRequest ==
  /\ hpc = Idle /\ hcount < MaxRuns /\ hcount' = hcount + 1
  /\ \/ /\ OpenPipe(hcount', "out") /\ hpc' = "stderr" /\ UNCHANGED replied
     \/ Reply("error") /\ UNCHANGED <<pipeVars, std, origs>>
  /\ UNCHANGED <<awaited, codeVars>>

\* When the second pipe fails, the first stays where it is.
OpenStderr ==
  /\ hpc = "stderr"
  /\ \/ OpenPipe(hcount, "err") /\ hpc' = "run" /\ UNCHANGED <<hcount, replied>>
     \/ hcount' = hcount /\ Reply("error") /\ UNCHANGED <<pipeVars, std, origs>>
  /\ UNCHANGED <<awaited, codeVars>>

CallRun ==
  /\ hpc = "run" /\ hpc' = "running"
  /\ UNCHANGED <<hcount, awaited, std, origs, replied, pipeVars, codeVars>>

\* Run returned, or panicked and the panic is recovered: both are told on stderr.
RunReturned ==
  /\ hpc = "running" /\ rpc = "returned"
  /\ IF outcome[execCount] = "nil"
     THEN UNCHANGED pipeVars
     ELSE WriteInto(std["err"], "err", Failure)
  /\ hpc' = "closeOut" /\ awaited' = 2
  /\ UNCHANGED <<hcount, std, origs, replied, codeVars>>

CloseOut ==
  /\ hpc = "closeOut" /\ ClosePipe(hcount, "out") /\ hpc' = "closeErr"
  /\ UNCHANGED <<hcount, awaited, origs, replied, codeVars>>

CloseErr ==
  /\ hpc = "closeErr" /\ ClosePipe(hcount, "err") /\ hpc' = "wait"
  /\ UNCHANGED <<hcount, awaited, origs, replied, codeVars>>

\* A receive of rDone, an unbuffered channel.
AwaitReader(s) ==
  /\ hpc = "wait" /\ awaited > 0 /\ reader[hcount][s] = "ended"
  /\ reader' = [reader EXCEPT ![hcount][s] = "gone"] /\ awaited' = awaited - 1
  /\ UNCHANGED <<hcount, hpc, std, origs, replied, codeVars,
                 writeEnd, inPipe, buf, streamed, accepted>>

\* Mutant: one receive of rDone is missing.
SendReplyEarly ==
  /\ hpc = "wait" /\ awaited < 2 /\ hcount' = hcount
  /\ Reply(IF outcome[execCount] = "error" THEN "error" ELSE "ok")
  /\ UNCHANGED <<awaited, std, origs, pipeVars, codeVars>>

\* The status is that of err, which a panic leaves nil.
SendReply ==
  /\ hpc = "wait" /\ awaited = 0 /\ hcount' = hcount
  /\ Reply(IF outcome[execCount] = "error" THEN "error" ELSE "ok")
  /\ UNCHANGED <<awaited, std, origs, pipeVars, codeVars>>

ReaderStep ==
  \E r \in Requests, s \in Streams : ReaderReads(r, s) \/ ReaderSends(r, s) \/ ReaderEnds(r, s)

HandlerStep ==
  \/ OpenStderr \/ RunReturned \/ CloseOut \/ CloseErr
  \/ (\E s \in Streams : AwaitReader(s)) \/ SendReply
-----------------------------------------------------------------------------
(* What lgo code does: it reads the variable os.Stdout or os.Stderr, and   *)
(* writes to the file it found there, which may be closed by then.         *)

Coding(e) == e \in late \/ (rpc = "exec" /\ execCount = e)

ReadFile(e, s) ==
  /\ Coding(e) /\ writing[e] = NoFile /\ written[e] < MaxWrites
  /\ writing' = [writing EXCEPT ![e] = [s |-> s, r |-> std[s]]]
  /\ written' = [written EXCEPT ![e] = @ + 1]
  /\ UNCHANGED <<handlerVars, pipeVars, children, late>>

WriteFile(e) ==
  /\ Coding(e) /\ writing[e] # NoFile
  /\ writing' = [writing EXCEPT ![e] = NoFile]
  /\ LET f == writing[e]
     IN  IF f.r # 0 /\ writeEnd[f.r][f.s] = "open"
         THEN WriteInto(f.r, f.s, e)
         ELSE UNCHANGED pipeVars
  /\ UNCHANGED <<handlerVars, children, written, late>>

LeaveGoroutine ==
  /\ rpc = "exec" /\ execCount \in Lingerers /\ late' = late \cup {execCount}
  /\ UNCHANGED <<handlerVars, pipeVars, children, writing, written>>

\* exec.Command(...).Start() with os.Stdout and os.Stderr as its output.
StartChild ==
  /\ rpc = "exec" /\ hpc = "running" /\ execCount \in Lingerers
  /\ children' = children \cup {hcount}
  /\ UNCHANGED <<handlerVars, pipeVars, writing, written, late>>

ChildWrites ==
  /\ \E r \in children, s \in CodeStreams : WriteInto(r, s, Child)
  /\ UNCHANGED <<handlerVars, codeVars>>

ChildEnds ==
  /\ \E r \in children : children' = children \ {r}
  /\ UNCHANGED <<handlerVars, pipeVars, writing, written, late>>

CodeStep ==
  \/ \E e \in Runs : WriteFile(e) \/ \E s \in CodeStreams : ReadFile(e, s)
  \/ LeaveGoroutine \/ StartChild \/ ChildWrites \/ ChildEnds
-----------------------------------------------------------------------------
\* The requests whose second pipe could not be opened.
Broken == {r \in Requests : writeEnd[r]["out"] = "open" /\ writeEnd[r]["err"] = "none"
                            /\ replied[r] = "error"}

\* When the reply of a request is sent, everything ever written into its pipes, by
\* whichever goroutine, has been sent to the client, and nothing is written any more.
\* Not so when its second pipe failed: see Broken.
OutputComplete ==
  \A r \in Requests \ Broken : replied[r] # "none" => streamed[r] = accepted[r]

\* A client is told of every failed run on stderr before the reply, even when the
\* failure was a panic and the reply says "ok".
FailuresTold ==
  \A r \in Requests :
    r = hcount /\ hpc = Idle /\ writeEnd[r]["err"] = "closed" /\ outcome[execCount] # "nil"
      => Failure \in streamed[r]

\* Between requests stdout and stderr are the process's own again, whatever the run
\* did, or belong to a request whose second pipe failed.
StdRestored ==
  hpc = Idle => std["err"] = 0 /\ std["out"] \in {0} \cup Broken

\* A reply comes when everything about its request is over: its output is with the
\* client, failures are told, stdout and stderr are restored (lines 69-73, 171-187),
\* although goroutines of any block and child processes write when they like.
ReplyComplete == OutputComplete /\ FailuresTold /\ StdRestored
=============================================================================
