--------------------------------- MODULE Ast ---------------------------------
(***************************************************************************)
(* The syntax trees of go/ast, as far as the passes of converter/ tell     *)
(* their nodes apart.  A node is a kind, a tag (the name of an identifier, *)
(* the number of values of an expression, the origin of a generated node)  *)
(* and its children in the order in which ast.Walk visits them; an absent  *)
(* optional child is Nil.  The shapes:                                     *)
(*   expressions  id, call(fun, args), recv(x), paren(x), funclit(block)   *)
(*   statements   expr, assign, define, ret, send, go(call), defer(call),  *)
(*     block, labeled(s), if(init, cond, block, else), comm(comm, body),   *)
(*     for(init, cond, post, block), range(x, block), case(list, body),    *)
(*     switch(init, tag, block of case), typeswitch(init, assign, block),  *)
(*     select(block of comm), where list and body only hold their elements *)
(*   files        file(declarations), func(block)                          *)
(***************************************************************************)
EXTENDS Integers, Sequences, FiniteSets, SequencesExt

Node(op, tag, kids) == [op |-> op, tag |-> tag, kids |-> kids]
Nil == Node("nil", <<>>, <<>>)
Id(name) == Node("id", name, <<>>)
Def(name) == Node("def", name, <<>>)            \* an identifier that checker.Defs holds
Call(fun, args) == Node("call", <<>>, <<fun>> \o args)
Stmt(op, kids) == Node(op, <<>>, kids)
Block(list) == Stmt("block", list)

(* The names of the package core that generated code uses.                 *)
Core(name) == Id(<<"core", name>>)
Poll == Node("expr", <<"poll">>, <<Call(Core("ExitIfCtxDone"), <<>>)>>)

(* The sequence of op(i) for the positions of s, and of op(s[i]).  (\o makes TLC
   compute the elements once, where it would compute a function's at each use.) *)
ByIndex(s, op(_)) == <<>> \o [i \in DOMAIN s |-> op(i)]
Map(op(_), s) == <<>> \o [i \in DOMAIN s |-> op(s[i])]

RECURSIVE SumOf(_), Count(_, _), NodesOf(_)
SumOf(s) == IF s = <<>> THEN 0 ELSE Head(s) + SumOf(Tail(s))

(* Count(ops, n): how many nodes of these kinds n has, itself included.    *)
Count(ops, n) == SumOf(Map(LAMBDA kid : Count(ops, kid), n.kids))
                   + (IF n.op \in ops THEN 1 ELSE 0)

(* All the nodes of a tree, as a set.                                      *)
NodesOf(n) == {n} \cup UNION {NodesOf(n.kids[i]) : i \in DOMAIN n.kids}

(***************************************************************************)
(* namePicker: a name that is not taken is used as it is, otherwise with   *)
(* the first number that makes it free.  NewNames is what count successive *)
(* calls of NewName(base) return when the names in used were defined.      *)
(***************************************************************************)
RECURSIVE NewNames(_, _, _)
NewNames(used, base, count) ==
  IF count = 0 THEN <<>>
  ELSE LET name == IF <<base>> \notin used THEN <<base>>
                   ELSE LET free == {i \in 0 .. Cardinality(used) : <<base, i>> \notin used}
                        IN <<base, CHOOSE i \in free : \A j \in free : i <= j>>
       IN <<name>> \o NewNames(used \cup {name}, base, count - 1)

DefsOf(n) == {d.tag : d \in {m \in NodesOf(n) : m.op \in {"def", "func"}}}
===============================================================================
