------------------------------- MODULE AutoExit -------------------------------
(***************************************************************************)
(* The passes that make a converted block stoppable and its goroutines     *)
(* accountable: converter/autoexit.go (receives wrapped in functions, polls*)
(* of the execution context between calls) and capturePanicInGoRoutine of  *)
(* converter/converter.go, in the order finalCheckAndRename runs them.     *)
(***************************************************************************)
EXTENDS Ast

RECURSIVE ContainsCall(_), IsHeavyStmt(_)
(* A function literal is not entered: what it calls, it calls later.       *)
ContainsCall(e) == \/ e.op = "call"
                   \/ e.op # "funclit" /\ \E i \in DOMAIN e.kids : ContainsCall(e.kids[i])

IsHeavyStmt(s) ==
  \/ s.op \in {"assign", "define", "expr", "ret"} /\ ContainsCall(s)
  \/ s.op = "go" /\ \E i \in DOMAIN s.kids[1].kids : ContainsCall(s.kids[1].kids[i])
  \/ s.op \in {"for", "if", "switch"} /\ IsHeavyStmt(s.kids[1])
  \/ s.op \in {"if", "switch"} /\ ContainsCall(s.kids[2])
  \/ s.op = "switch" /\ \E i \in DOMAIN s.kids[3].kids : ContainsCall(s.kids[3].kids[i].kids[1])

(* case <-core.GetExecContext().Done(): panic(core.Bailout)                *)
ExitIfDoneCommClause ==
  Node("comm", <<"done">>, <<
    Stmt("expr", <<Node("commrecv", <<"one">>,
                        <<Call(Id(<<"Done">>), <<Call(Core("GetExecContext"), <<>>)>>)>>)>>),
    Stmt("body", <<Stmt("expr", <<Call(Id(<<"panic">>), <<Core("Bailout")>>)>>)>>)>>)

RECURSIVE InjectList(_, _), InjectStmt(_, _), InjectWalk(_)

(* The statements of a list, of which the last one before it was heavy or  *)
(* not; a send becomes a select that also waits for the context.           *)
InjectList(list, flag) ==
  IF list = <<>> THEN <<>>
  ELSE LET s == Head(list)  heavy == IsHeavyStmt(s) IN
       IF s.op = "send"
       THEN <<Node("select", <<"wrapped">>,
                   <<Block(<<Stmt("comm", <<s, Stmt("body", <<>>)>>), ExitIfDoneCommClause>>)>>)>>
              \o InjectList(Tail(list), FALSE)
       ELSE (IF heavy /\ flag THEN <<Poll>> ELSE <<>>) \o <<InjectStmt(s, flag)>>
              \o InjectList(Tail(list), flag \/ heavy)

InjectBlock(b, head, flag) ==
  [b EXCEPT !.kids = IF head THEN <<Poll>> \o InjectList(@, FALSE) ELSE InjectList(@, flag)]

(* The else branch of an if is not visited.                                *)
InjectStmt(s, prevHeavy) ==
  LET heavy == IsHeavyStmt(s)  k == s.kids IN
  CASE s.op = "for" ->
         [s EXCEPT !.kids = <<InjectWalk(k[1]), InjectWalk(k[2]), InjectWalk(k[3]),
                              InjectBlock(k[4], TRUE, heavy)>>]
    [] s.op = "if" ->
         [s EXCEPT !.kids = <<InjectWalk(k[1]), InjectWalk(k[2]), InjectBlock(k[3], FALSE, heavy), k[4]>>]
    [] s.op = "switch" ->
         [s EXCEPT !.kids = <<InjectWalk(k[1]), InjectWalk(k[2]),
            [k[3] EXCEPT !.kids = Map(LAMBDA c : [c EXCEPT !.kids[2].kids = InjectList(@, heavy)], @)]>>]
    [] s.op = "block" -> InjectBlock(s, TRUE, prevHeavy)
    [] s.op = "defer" -> s
    [] OTHER -> InjectWalk(s)

HasDefault(sel) == \E i \in DOMAIN sel.kids[1].kids : sel.kids[1].kids[i].kids[1] = Nil
InjectSelect(sel) == IF HasDefault(sel) THEN sel
                     ELSE [sel EXCEPT !.kids[1].kids = Append(@, ExitIfDoneCommClause)]

(* autoExitInjector: functions and selects, wherever the walk meets them.  *)
InjectWalk(n) ==
  LET walked == [n EXCEPT !.kids = Map(InjectWalk, @)] IN
  CASE n.op \in {"func", "funclit"} -> [n EXCEPT !.kids[1] = InjectBlock(@, TRUE, FALSE)]
    [] n.op = "select" -> InjectSelect(walked)
    [] OTHER -> walked

(***************************************************************************)
(* mayWrapRecvOp: selectCommExprRecorder marks the receives that are the   *)
(* operation of a comm clause; rewriteExpr, which reaches every expression *)
(* of the file, turns every other one into the call of a new function.     *)
(***************************************************************************)
RECURSIVE MarkComms(_), WrapRecvs(_, _, _)
MarkComms(n) ==
  LET kids == Map(MarkComms, n.kids) IN
  IF n.op = "comm" /\ n.kids[1].op \in {"assign", "define", "expr"}
  THEN [n EXCEPT !.kids = [kids EXCEPT ![1].kids[Len(kids[1].kids)] =
          IF @.op = "recv" THEN [@ EXCEPT !.op = "commrecv"] ELSE @]]
  ELSE [n EXCEPT !.kids = kids]

(* names[k + 1] goes to the first receive in n, outer ones first.          *)
WrapRecvs(n, names, k) ==
  LET here == IF n.op = "recv" THEN 1 ELSE 0
      before(i) == SumOf([j \in 1 .. (i - 1) |-> Count({"recv"}, n.kids[j])])
      kids == ByIndex(n.kids, LAMBDA i : WrapRecvs(n.kids[i], names, k + here + before(i)))
  IN IF here = 1 THEN Node("call", n.tag, <<Id(names[k + 1])>> \o kids)
     ELSE [n EXCEPT !.kids = kids]

(* func recvChan(c chan T) (x T) { select { case x = <-c: return } }       *)
MakeChanRecvWrapper(name) ==
  Node("func", name, <<Block(<<Stmt("select", <<Block(<<Stmt("comm", <<
    Stmt("assign", <<Id(<<"x">>), Node("commrecv", <<"one">>, <<Id(<<"c">>)>>)>>),
    Stmt("body", <<Stmt("ret", <<>>)>>)>>)>>)>>)>>)>>)

MayWrapRecvOp(file) ==
  LET marked == MarkComms(file)
      names == NewNames(DefsOf(file), "recvChan", Count({"recv"}, marked))
  IN [WrapRecvs(marked, names, 0) EXCEPT
        !.kids = @ \o Map(MakeChanRecvWrapper, names)]

(***************************************************************************)
(* wrapGoStmtVisitor: a go statement of a block's list becomes a block     *)
(* that binds the function and the arguments, registers the goroutine and  *)
(* starts a literal that unregisters it when it ends.  Names are taken in  *)
(* the order of the walk, those of inner statements first.                 *)
(***************************************************************************)
ArgSize(arg) == IF arg.tag = <<"two">> THEN 2 ELSE 1
RECURSIVE Gos(_), GoArgs(_), WrapGos(_, _, _, _)
ArgsOfGo(g) == SumOf([i \in 1 .. (Len(g.kids[1].kids) - 1) |-> ArgSize(g.kids[1].kids[i + 1])])
(* How many go statements of n are wrapped, and how many arguments bound.  *)
Gos(n) == SumOf(Map(LAMBDA kid :
            Gos(kid) + IF n.op = "block" /\ kid.op = "go" THEN 1 ELSE 0, n.kids))
GoArgs(n) == SumOf(Map(LAMBDA kid :
               GoArgs(kid) + IF n.op = "block" /\ kid.op = "go" THEN ArgsOfGo(kid) ELSE 0, n.kids))

(* Mutant: the goroutine registers itself, when it runs.                   *)
ManagedGoLate(g, names, k, a) ==
  LET call == g.kids[1].kids
      start(i) == a + SumOf([j \in 1 .. (i - 2) |-> ArgSize(call[j + 1])])
      bound(i) == SubSeq(names.goarg, start(i) + 1, start(i) + ArgSize(call[i]))
      ectx == names.ectx[k + 1]
      all == FlattenSeq(ByIndex(Tail(call), LAMBDA i : bound(i + 1)))
  IN Node("block", <<"managed">>,
       <<Stmt("define", <<Id(names.gofn[k + 1]), call[1]>>)>>
       \o ByIndex(Tail(call), LAMBDA i : Stmt("define", Map(Id, bound(i + 1)) \o <<call[i + 1]>>))
       \o <<Stmt("go", <<Call(Node("funclit", <<>>, <<Block(<<
              Stmt("define", <<Id(ectx), Call(Core("InitGoroutine"), <<>>)>>),
              Stmt("defer", <<Call(Core("FinalizeGoroutine"), <<Id(ectx)>>)>>),
              Stmt("expr", <<Call(Id(names.gofn[k + 1]), Map(Id, all))>>)>>)>>), <<>>)>>)>>)

ManagedGo(g, names, k, a) ==
  LET call == g.kids[1].kids
      start(i) == a + SumOf([j \in 1 .. (i - 2) |-> ArgSize(call[j + 1])])
      bound(i) == SubSeq(names.goarg, start(i) + 1, start(i) + ArgSize(call[i]))
      ids(s) == Map(Id, s)
      ectx == names.ectx[k + 1]
      all == FlattenSeq(ByIndex(Tail(call), LAMBDA i : bound(i + 1)))
  IN Node("block", <<"managed">>,
       <<Stmt("define", <<Id(names.gofn[k + 1]), call[1]>>)>>
       \o ByIndex(Tail(call), LAMBDA i : Stmt("define", ids(bound(i + 1)) \o <<call[i + 1]>>))
       \o <<Stmt("define", <<Id(ectx), Call(Core("InitGoroutine"), <<>>)>>),
            Stmt("go", <<Call(Node("funclit", <<>>, <<Block(<<
              Stmt("defer", <<Call(Core("FinalizeGoroutine"), <<Id(ectx)>>)>>),
              Stmt("expr", <<Call(Id(names.gofn[k + 1]), ids(all))>>)>>)>>), <<>>)>>)>>)

WrapGos(n, names, k, a) ==
  LET inBlock == n.op = "block"
      (* what the statements before the i-th took *)
      gos(i) == k + Gos([n EXCEPT !.kids = SubSeq(@, 1, i - 1)])
      args(i) == a + GoArgs([n EXCEPT !.kids = SubSeq(@, 1, i - 1)])
      kid(i) == WrapGos(n.kids[i], names, gos(i), args(i))
  IN [n EXCEPT !.kids = ByIndex(@, LAMBDA i :
        IF inBlock /\ n.kids[i].op = "go"
        THEN ManagedGo(kid(i), names, gos(i) + Gos(n.kids[i]), args(i) + GoArgs(n.kids[i]))
        ELSE kid(i))]

CapturePanicInGoRoutine(file) ==
  LET names == [gofn  |-> NewNames(DefsOf(file), "gofn", Gos(file)),
                goarg |-> NewNames(DefsOf(file), "goarg", GoArgs(file)),
                ectx  |-> NewNames(DefsOf(file), "ectx", Gos(file))]
  IN WrapGos(file, names, 0, 0)

(* conf.AutoExitCode is set for every block a session runs.                *)
MakeStoppable(file) == CapturePanicInGoRoutine(InjectWalk(MayWrapRecvOp(file)))

(***************************************************************************)
(* What the rewritten file must be like.  Whether a statement calls some-  *)
(* thing itself is said here without isHeavyStmt: a call is among the      *)
(* nodes of its parts, function literals and lists of statements apart.    *)
(***************************************************************************)
RECURSIVE Evaluated(_), Parts(_)
Evaluated(n) == {n} \cup UNION {Evaluated(m) : m \in {k \in ToSet(n.kids) : k.op \notin {"block", "body", "funclit"}}}
Parts(s) ==
  CASE s.op \in {"assign", "define", "expr", "ret"} -> {s}
    [] s.op = "go" -> ToSet(s.kids[1].kids)
    [] s.op = "for" -> Parts(s.kids[1])
    [] s.op = "if" -> Parts(s.kids[1]) \cup {s.kids[2]}
    [] s.op = "switch" -> Parts(s.kids[1]) \cup {s.kids[2]} \cup {c.kids[1] : c \in ToSet(s.kids[3].kids)}
    [] OTHER -> {}
CallsItself(s) == \E part \in Parts(s) : \E n \in Evaluated(part) : n.op = "call"

(* The lists of statements that the rules of autoexit.go govern, with what *)
(* they demand of each: head, that it begins with a poll; after, that it   *)
(* follows a call.  Bodies of range loops, else branches and type switches,*)
(* clauses of selects and what has a label are not governed: of these only *)
(* the functions in them are walked.                                       *)
RECURSIVE Walked(_), GovernedIn(_)
Governed(head, after, list) ==
  {[head |-> head, after |-> after, list |-> list]} \cup UNION {GovernedIn(list[i]) : i \in DOMAIN list}
Walked(n) == IF n.op \in {"func", "funclit"} THEN Governed(TRUE, FALSE, n.kids[1].kids)
             ELSE UNION {Walked(n.kids[i]) : i \in DOMAIN n.kids}
GovernedIn(s) ==
  LET k == s.kids  header == {"for", "if", "switch"} IN
  (IF s.op \in header THEN UNION {Walked(k[i]) : i \in 1 .. (IF s.op = "for" THEN 3 ELSE 2)} ELSE {})
  \cup CASE s.op = "for" -> Governed(TRUE, FALSE, k[4].kids)
         [] s.op = "if" -> Governed(FALSE, CallsItself(s), k[3].kids)
         [] s.op = "switch" ->
              UNION {Governed(FALSE, CallsItself(s), k[3].kids[i].kids[2].kids) : i \in DOMAIN k[3].kids}
         [] s.op = "block" -> Governed(TRUE, FALSE, s.kids)
         [] s.op = "defer" \/ s.tag = <<"wrapped">> -> {}
         [] OTHER -> Walked(s)

(* Functions, blocks and loops over a condition poll before anything else: *)
(* neither such a loop nor a recursion can go on for ever without a poll.  *)
PollsAtTops(injected) ==
  \A g \in Walked(injected) : g.head => g.list # <<>> /\ g.list[1] = Poll

(* Of two statements of one list that call something themselves, and of a  *)
(* header and such a statement in its body, the second comes after a poll  *)
(* or a wait for the context, and no poll follows a poll.  Calls on both   *)
(* sides of a brace are not kept apart: in  f(); if x { f() }  the body    *)
(* begins with a call, whatever came before the if.                        *)
PollSpacing(injected) ==
  \A g \in Walked(injected) :
    LET stops(i) == g.list[i] = Poll \/ g.list[i].tag = <<"wrapped">>
        calls == {i \in DOMAIN g.list : ~stops(i) /\ CallsItself(g.list[i])}
    IN /\ \A j \in calls : \A i \in (calls \cup (IF g.after THEN {0} ELSE {})) \cap 0 .. (j - 1) :
            \E m \in (i + 1) .. (j - 1) : stops(m)
       /\ \A i \in 1 .. (Len(g.list) - 1) : ~(g.list[i] = Poll /\ g.list[i + 1] = Poll)

(* No goroutine waits for a channel alone: every receive is the operation  *)
(* of a select that also waits for the context or has a default, or a call *)
(* of a function, under a name nothing else has, that consists of one.     *)
Stoppable(sel) ==
  HasDefault(sel) \/ \E i \in DOMAIN sel.kids[1].kids : sel.kids[1].kids[i] = ExitIfDoneCommClause
RECURSIVE Seen(_)
Seen(n) == IF n.op \in {"defer", "send"} \/ n.tag = <<"wrapped">> THEN {n}
           ELSE {n} \cup UNION {Seen(n.kids[i]) : i \in IF n.op = "if" THEN 1 .. 3 ELSE DOMAIN n.kids}
ChannelOpsStoppable(in, injected) ==
  LET added == SubSeq(injected.kids, Len(in.kids) + 1, Len(injected.kids))
      wrappers == {added[i].tag : i \in DOMAIN added}
  IN /\ \A n \in NodesOf(injected) : n.op # "recv"
     /\ \A n \in Seen(injected) : n.op = "select" => Stoppable(n)
     /\ \A g \in Walked(injected) : \A i \in DOMAIN g.list : g.list[i].op # "send"
     /\ Cardinality(wrappers) = Len(added) /\ wrappers \cap DefsOf(in) = {}
     /\ Count({"recv"}, MarkComms(in)) = Len(added)

(* A go statement in the list of a block is registered before it starts    *)
(* and unregistered as the last thing it does; what it calls and with what *)
(* is evaluated before, once, under names that are free in the whole file. *)
(* The only others are those directly in a clause of a switch or select or *)
(* under a label: wrapGoStmtVisitor looks at the lists of blocks.          *)
BoundIn(g) == FlattenSeq([i \in 1 .. (Len(g.kids) - 1) |->
                SelectSeq([j \in DOMAIN g.kids[i].kids |-> g.kids[i].kids[j]],
                          LAMBDA x : x.op = "id" /\ Len(g.kids[i].kids) > 1 /\ x # Last(g.kids[i].kids))])
GoroutinesManaged(in, final) ==
  LET managed == {n \in NodesOf(final) : n.tag = <<"managed">>}
      names(g) == Map(LAMBDA x : x.tag, BoundIn(g))
  IN /\ \A n \in NodesOf(final) : \A i \in DOMAIN n.kids : n.kids[i].op = "go" =>
          \/ n.tag = <<"managed">> /\ i = Len(n.kids)
          \/ n.op \in {"body", "labeled"}
     /\ \A g \in managed :
          LET ns == names(g)
              body == Last(g.kids).kids[1].kids[1].kids[1].kids
          IN /\ IsInjective(ns) /\ ToSet(ns) \cap DefsOf(in) = {}
             /\ g.kids[Len(g.kids) - 1].kids[2] = Call(Core("InitGoroutine"), <<>>)
             /\ body = <<Stmt("defer", <<Call(Core("FinalizeGoroutine"), <<Id(Last(ns))>>)>>),
                         Stmt("expr", <<Call(Id(ns[1]), Map(Id, SubSeq(ns, 2, Len(ns) - 1)))>>)>>
     /\ \A g, h \in managed : g # h => ToSet(names(g)) \cap ToSet(names(h)) = {}

(* Without what was generated the file is what it was: no statement is     *)
(* lost, moved, or evaluated twice.                                        *)
RECURSIVE Erase(_, _), EraseAll(_, _)
EraseAll(list, wrappers) ==
  Map(LAMBDA n : Erase(n, wrappers), SelectSeq(list, LAMBDA n : n # Poll /\ n.tag # <<"done">>))
Erase(n, wrappers) ==
  CASE n.tag = <<"wrapped">> -> Erase(n.kids[1].kids[1].kids[1], wrappers)
    [] n.tag = <<"managed">> ->
         Stmt("go", <<Stmt("call", <<>> \o [i \in 1 .. (Len(n.kids) - 2) |-> Erase(Last(n.kids[i].kids), wrappers)])>>)
    [] n.op = "call" /\ n.kids[1].tag \in wrappers -> Node("recv", n.tag, EraseAll(Tail(n.kids), wrappers))
    [] OTHER -> [n EXCEPT !.op = IF @ = "commrecv" THEN "recv" ELSE @, !.kids = EraseAll(@, wrappers)]
OriginalKept(in, final) ==
  LET own == Len(in.kids)
      wrappers == {final.kids[i].tag : i \in (own + 1) .. Len(final.kids)}
  IN Erase([final EXCEPT !.kids = SubSeq(@, 1, own)], wrappers) = in
===============================================================================
