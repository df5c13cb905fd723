---------------------------- MODULE MCWorkbench ----------------------------
(* The inputs: every nesting of two statements, every session of two       *)
(* blocks, every short source, and so on; see the README for the bounds.   *)
EXTENDS Workbench, TLC, SequencesExt

(***************************************************************************)
(* AutoExit: statements, what they are nested in, and lists of them.       *)
(***************************************************************************)
F == AE!Id(<<"f">>)
V == AE!Id(<<"x">>)
Recv(n) == AE!Node("recv", <<n>>, <<V>>)
CallF(args) == AE!Call(F, args)
CallTwo == [CallF(<<>>) EXCEPT !.tag = <<"two">>]
St(op, kids) == AE!Stmt(op, kids)
Lit(list) == AE!Node("funclit", <<>>, <<AE!Block(list)>>)
Select(clauses) == St("select", <<AE!Block(clauses)>>)
Case(list) == AE!Block(<<St("case", <<St("list", list[1]), St("body", list[2])>>)>>)
Leaves == {
  St("expr", <<CallF(<<>>)>>), St("expr", <<V>>), St("send", <<V, CallF(<<>>)>>),
  St("define", <<AE!Def(<<"recvChan">>), AE!Def(<<"gofn">>), Recv("two")>>),
  St("assign", <<V, CallF(<<AE!Node("recv", <<"one">>, <<Recv("one")>>)>>)>>),
  St("ret", <<Recv("one")>>), St("go", <<CallF(<<CallTwo, Recv("one")>>)>>) }
Compounds(b) ==
  {St("if", <<AE!Nil, c, AE!Block(b), e>>) : c \in {V, CallF(<<>>)}, e \in {AE!Nil, AE!Block(b)}}
  \cup {St("for", <<i, V, AE!Nil, AE!Block(b)>>) :
          i \in {AE!Nil, St("define", <<AE!Def(<<"i">>), CallF(<<>>)>>)}}
  \cup {St("range", <<V, AE!Block(b)>>), AE!Block(b),
        St("labeled", b), St("labeled", <<St("for", <<AE!Nil, V, AE!Nil, AE!Block(b)>>)>>),
        St("switch", <<AE!Nil, V, Case(<<<<CallF(<<>>)>>, b>>)>>),
        St("typeswitch", <<AE!Nil, V, Case(<<<<>>, b>>)>>),
        Select(<<St("comm", <<St("expr", <<Recv("one")>>), St("body", b)>>)>>),
        Select(<<St("comm", <<St("send", <<V, Recv("one")>>), St("body", b)>>),
                 St("comm", <<AE!Nil, St("body", b)>>)>>),
        St("go", <<AE!Call(Lit(b), <<>>)>>), St("defer", <<AE!Call(Lit(b), <<>>)>>),
        St("send", <<V, CallF(<<Lit(b)>>)>>), St("assign", <<V, Lit(b)>>)}
Singles == UNION {Compounds(<<l>>) : l \in Leaves}
Lists == {<<a>> : a \in UNION {Compounds(<<s>>) : s \in Singles}}
           \cup {<<a, b>> : a \in Leaves, b \in Leaves \cup Singles}
           \cup {<<a, b>> : a \in Singles, b \in Leaves}
           \cup {<<a, b, c>> : a, b, c \in Leaves}
MCFiles == {St("file", <<AE!Node("func", <<"lgo_init">>, <<AE!Block(l)>>)>>) : l \in Lists}

(***************************************************************************)
(* Conversion: two names (X is exported), a function and a package.        *)
(***************************************************************************)
Use(n) == [name |-> <<n>>, qual |-> FALSE]
Dot(n) == [name |-> <<n>>, qual |-> TRUE]
Tuples(names) == [j \in DOMAIN names |-> <<names[j]>>]
Lgo(k, names, uses) == [k |-> k, names |-> Tuples(names), uses |-> uses]
Import(n) == Lgo("import", <<n>>, <<>>) @@ [path |-> <<"lib">>]
Var(names, uses, init) == Lgo("var", names, uses) @@ [init |-> init]
Func(locals, uses) == Lgo("func", <<"f">>, uses) @@ [locals |-> {<<n>> : n \in locals}]
Expr(uses) == Lgo("call", <<>>, uses) @@ [values |-> TRUE]
Pkg0(s) == [s EXCEPT !.names = <<PkgName(0)>>]
Statements ==
  { Import("p"), Import("x"), Lgo("const", <<"x">>, <<Use("X")>>), Lgo("type", <<"X">>, <<Use("x")>>),
    Var(<<"x">>, <<>>, FALSE), Var(<<"X">>, <<>>, FALSE), Var(<<"x", "X">>, <<Use("x")>>, TRUE), Var(<<"_">>, <<>>, FALSE),
    Pkg0(Var(<<"x">>, <<>>, FALSE)), Var(<<"p">>, <<Dot("p")>>, TRUE),
    Pkg0(Import("p")), Lgo("assign", <<>>, <<[name |-> PkgName(0), qual |-> TRUE]>>),
    Func({}, <<Use("x")>>), Func({"x"}, <<Use("x"), Use("X")>>), Func({}, <<Dot("p"), Use("_ctx")>>),
    Lgo("define", <<"x">>, <<>>), Lgo("define", <<"x">>, <<Use("x")>>), Lgo("define", <<"x", "X">>, <<Use("X")>>),
    Lgo("assign", <<>>, <<Use("x"), Use("X")>>), Lgo("value", <<>>, <<Use("x")>>),
    Lgo("value", <<>>, <<Use("_ctx")>>), Expr(<<Use("f")>>), Expr(<<Dot("p")>>), Expr(<<Dot("x")>>) }
MCFirstBlocks == {<<>>} \cup {<<s>> : s \in Statements} \cup {<<Var(<<"x">>, <<>>, FALSE), t>> : t \in Statements}
                  \cup {<<Lgo("define", <<"x">>, <<>>), Var(<<"X">>, <<>>, FALSE)>>}
MCBlocks == {<<s>> : s \in Statements} \cup {<<s, t>> : s, t \in Statements}
MCIdentifiers == {<<"x">>, <<"X">>, <<"p">>, <<"f">>, PkgName(0)}
MCExported == {<<"X">>}
MCWithMember == {Obj(Exec(1), <<"x">>), Obj(Exec(2), <<"p">>)}

(***************************************************************************)
(* Completion.                                                             *)
(***************************************************************************)
MCCodes == UNION {[1 .. n -> {"g", "d", "w", "1", " ", "."}] : n \in 1 .. 4}
E(op, kids) == [op |-> op, kids |-> kids]
Literal == E("lit", <<>>)
Calls(fs, xs) ==
  {E("call", <<f>> \o a) : f \in fs, a \in {<<>>} \cup {<<x>> : x \in xs} \cup {<<Literal, x>> : x \in xs}}
    \cup {E("sel", <<f, E("id", <<>>)>>) : f \in fs}
Atoms == {E("id", <<>>), Literal}
Nested == Atoms \cup Calls(Atoms, Atoms)
MCExpressions == Calls(Nested, Nested)

(***************************************************************************)
(* Candidates: the universe 1, the package 2, with the body of lgo_init 3, *)
(* a function 4 with a block 5 in it, and a function 6; all names fit but  *)
(* the first type's.                                                       *)
(***************************************************************************)
NamesAt(n, at) == {<<>>} \cup {[x \in {n} |-> a] : a \in at}
MCScopeTrees ==
  {[around |-> <<{1}, {1, 2}, {1, 2, 3}, {1, 2, 4}, {1, 2, 4, 5}, {1, 2, 6}>>, pkg |-> 2, init |-> i,
    range |-> <<<<0, 0>>, <<0, 0>>, <<0, 1>>, <<1, 5>>, <<2, 4>>, <<6, 9>>>>,
    names |-> <<universe, package, body, function, block, other>>] :
     i \in {0, 3}, universe \in NamesAt("x", {0}), package \in NamesAt("y", {0}),
     body \in NamesAt("x", {3}) \cup {[x |-> 3, y |-> 6]}, function \in NamesAt("x", {1, 3}),
     block \in NamesAt("y", {2, 3}), other \in NamesAt("y", {7})}
Struct(embeds) == [kind : {"struct"}, fields : {{}, {"a"}}, methods : {{}, {"m"}}, embeds : SUBSET embeds, to : {"A"}]
Interface == [kind : {"interface"}, fields : {{}}, methods : {{}, {"m"}}, embeds : {{}}, to : {"A"}]
PointerTo(t) == [kind : {"pointer"}, fields : {{}}, methods : {{}}, embeds : {{}}, to : {t}]
MCTypeGraphs == [A : Struct({"B", "C"}) \cup PointerTo("B") \cup Interface,
                 B : Struct({"A", "C"}) \cup Interface, C : Struct({"B"}) \cup Interface]
MCPlaces == 0 .. 9
MCFits == {{"x", "y", "a", "m", "B", "C"}}

(***************************************************************************)
(* SOInstaller: the patterns are 2 and 1, which import some of 2, 3 and 4, *)
(* in either order; at most two packages are anything but fine.            *)
(***************************************************************************)
Ascending(set) == SetToSortSeq(set, <)
TwoWays(set) == {Ascending(set), Reverse(Ascending(set))}
AnyOf(set) == UNION {TwoWays(s) : s \in SUBSET set}
Graphs == {[p \in 0 .. 4 |-> CASE p = 0 -> <<2, 1>> [] p = 1 -> a [] p = 2 -> b [] p = 3 -> c [] p = 4 -> <<>>] :
             a \in AnyOf(2 .. 4), b \in AnyOf(3 .. 4), c \in AnyOf({4})}
Unlike(k) == {p \in 1 .. 4 : k[p] # "fine"}
MCWorlds == [imports : Graphs, kind : {k \in [1 .. 4 -> PackageKinds] : Cardinality(Unlike(k)) <= 2}]

(***************************************************************************)
(* Parser: short sources, and trees of statements of expressions.          *)
(***************************************************************************)
Common == {"x", "(", ")", "{", "}", ",", ":", ":=", "<-", "chan", "nl"}
Tokens == Common \cup {"s", "[", "]", "=", ".", "...", "*", "func", "if", "for", "range", "switch", "select",
                       "case", "go", "return", "break", "type", "var", "import", "struct", "interface", ";"}
MCSources == [1 .. 4 -> Common] \cup UNION {[1 .. n -> Tokens] : n \in 1 .. 3}

T(op, kids) == P!Node(op, 0, kids)
X == T("id", <<>>)
Of(l) == T("list", l)
Composite(t, l) == T("complit", <<t>> \o l)
Blk(l) == T("block", l)
FuncOf(l) == T("funclit", <<T("functype", <<T("params", <<>>), P!Nil>>), Blk(l)>>)
Ex(e) == T("exprstmt", <<e>>)
Define(l, r) == T(":=", <<Of(l), Of(r)>>)
Operands ==
  {X, T("1", <<>>), Composite(X, <<X>>), Composite(T("sel", <<X, X>>), <<>>), FuncOf(<<>>),
   Composite(T("array", <<P!Nil, X>>), <<Composite(P!Nil, <<X>>)>>),
   Composite(T("map", <<X, X>>), <<T("keyvalue", <<X, Composite(X, <<>>)>>)>>)}
Wrapped(e) ==
  {T("paren", <<e>>), T("call", <<X, e>>), T("call...", <<X, X, e>>), T("call", <<e>>), T("index", <<X, e>>),
   T("slice3", <<e, P!Nil, X, X>>), T("slice", <<X, e, P!Nil>>), T("sel", <<e, X>>), T("assert", <<e, X>>),
   T("==", <<X, e>>), T("==", <<e, X>>), T("recv", <<X>>), T("unary&", <<Composite(X, <<>>)>>), T("star", <<X>>),
   FuncOf(<<Ex(e)>>), Composite(X, <<e, T("keyvalue", <<X, e>>)>>),
   T("call", <<T("paren", <<T("<-chan", <<X>>)>>), e>>),
   T("call", <<X, T("<-chan", <<T("<-chan", <<X>>)>>), e>>)}
Expressions1 == Operands \cup UNION {Wrapped(e) : e \in Operands}
Operand(e) == IF e.op \in {"==", "recv", "unary&", "star"} THEN T("paren", <<e>>) ELSE e
Field(names, t) == T("field", <<Of(names), t, P!Nil>>)
Anywhere(e) ==
  {Ex(e), Define(<<X, X>>, <<e>>), T("=", <<Of(<<X>>), Of(<<e, X>>)>>), T("send", <<X, e>>), T("return", <<e>>),
   T("labeled", <<X, Ex(e)>>), T("go", <<T("call", <<FuncOf(<<Ex(e)>>)>>)>>), T("incdec", <<T("index", <<X, e>>)>>),
   T("var", <<T("values", <<Of(<<X, X>>), X, Of(<<e>>)>>)>>),
   T("constgroup", <<T("values", <<Of(<<X>>), P!Nil, Of(<<e>>)>>), T("values", <<Of(<<X>>), P!Nil, Of(<<>>)>>)>>),
   T("funcdecl", <<T("params", <<Field(<<X>>, T("star", <<X>>))>>), X,
       T("functype", <<T("params", <<Field(<<X, X>>, X), Field(<<X>>, T("ellipsis", <<X>>))>>), T("result", <<X>>)>>),
       Blk(<<T("return", <<e>>)>>)>>),
   T("select", <<Blk(<<T("comm", <<Define(<<X>>, <<T("recv", <<Operand(e)>>)>>), Of(<<Ex(e)>>)>>),
       T("comm", <<T("send", <<X, e>>), Of(<<>>)>>), T("comm", <<P!Nil, Of(<<>>)>>)>>)>>),
   T("switch", <<P!Nil, P!Nil, Blk(<<T("case", <<Of(<<e>>), Of(<<Ex(e), Ex(X)>>)>>),
       T("default", <<Of(<<>>), Of(<<T("fallthrough", <<P!Nil>>)>>)>>)>>)>>)}
InClauses(e) ==
  {T("if", <<P!Nil, e, Blk(<<Ex(e)>>), P!Nil>>),
   T("if", <<Define(<<X>>, <<e>>), X, Blk(<<>>), Blk(<<Ex(Composite(X, <<>>))>>)>>),
   T("for", <<P!Nil, e, P!Nil, Blk(<<Ex(Composite(X, <<>>))>>)>>),
   T("for", <<Define(<<X>>, <<e>>), P!Nil, T("incdec", <<X>>), Blk(<<>>)>>),
   T("forrange", <<Define(<<X, X>>, <<T("rangeof", <<e>>)>>), Blk(<<>>)>>),
   T("forrange", <<T("range", <<Of(<<>>), Of(<<T("rangeof", <<e>>)>>)>>), Blk(<<>>)>>),
   T("switch", <<P!Nil, e, Blk(<<T("case", <<Of(<<e, X>>), Of(<<>>)>>)>>)>>),
   T("typeswitch", <<P!Nil, Define(<<X>>, <<T("assert", <<Operand(e), P!Nil>>)>>),
       Blk(<<T("case", <<Of(<<T("star", <<X>>)>>), Of(<<Ex(e)>>)>>)>>)>>)}
(* A func at the start of a statement is a declaration in a block of lgo.  *)
BeginsFunc(s) == Head(P!Unparse(s)) = "func" /\ s.op # "funcdecl"
Stmts == UNION {Anywhere(e) \cup (IF P!Ambiguous(e) THEN {} ELSE InClauses(e)) : e \in Expressions1}
MCPrograms == {<<s, Ex(Composite(X, <<X>>))>> : s \in {t \in Stmts : ~BeginsFunc(t)}}

(***************************************************************************)
(* Utf8Reader: characters of every width, and texts that end with a byte   *)
(* of a character that was not finished; Liner: every kind of line.        *)
(***************************************************************************)
ValidTexts(max) == UNION {[1 .. n -> 1 .. 4] : n \in 1 .. max}
MCTexts == {FlattenSeq([i \in DOMAIN t |-> BytesOfRune(t[i])]) :
              t \in ValidTexts(4) \cup {Append(t, 0) : t \in ValidTexts(3)}}
MCLines == Kinds
===============================================================================
