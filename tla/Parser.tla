------------------------------- MODULE Parser -------------------------------
(***************************************************************************)
(* parser/parser.go and parser/custom.go: the recursive descent parser of  *)
(* Go with the entry for lgo blocks, a sequence of statements in which     *)
(* imports and functions may stand anywhere.  It is modelled on tokens:    *)
(* an operator Foo is parseFoo, takes the state of the parser and returns  *)
(* it with the node it built in field n.  Left out: comments, the scopes   *)
(* names are looked up in, the wording of errors, tracing.                 *)
(*                                                                         *)
(* Tokens are themselves; "x" is any identifier, "1" and "s" a number and  *)
(* a string, "nl" the semicolon the scanner inserts at a line's end.       *)
(***************************************************************************)
EXTENDS Integers, Sequences, FiniteSets, SequencesExt

Node(op, at, kids) == [op |-> op, at |-> at, kids |-> kids]
Nil == Node("nil", 0, <<>>)
List(at, nodes) == Node("list", at, nodes)

(***************************************************************************)
(* The state: the tokens and the next one (tok, pos); the lines of the     *)
(* errors so far; exprLev, negative in a control clause; inRhs; syncPos    *)
(* and syncCnt; the identifiers that have an object (ast.Ident.Obj); and   *)
(* how parsing was abandoned, if it was: after a bailout or a failed       *)
(* assertion nothing that is parsed is used any more.                      *)
(***************************************************************************)
Begin(toks) == [toks |-> toks, i |-> 1, n |-> Nil, errs |-> <<>>, lev |-> 0, rhs |-> FALSE,
                syncPos |-> 0, syncCnt |-> 0, objs |-> {}, wrong |-> ""]

Tok(s) == IF s.wrong # "" \/ s.i > Len(s.toks) THEN "eof" ELSE s.toks[s.i]
Advance(s) == IF Tok(s) = "eof" THEN s ELSE [s EXCEPT !.i = @ + 1]
Got(s, node) == [s EXCEPT !.n = node]
Ret(s, op, at, kids) == Got(s, Node(op, at, kids))
Deeper(s, d) == [s EXCEPT !.lev = @ + d]

(* One error per line, unless an error on another line came between; after *)
(* eleven the parser gives up.                                             *)
Line(s, at) == Cardinality({j \in 1 .. (at - 1) : j < Len(s.toks) /\ s.toks[j] = "nl"})
Error(s, at) ==
  CASE s.wrong # "" \/ (s.errs # <<>> /\ Last(s.errs) = Line(s, at)) -> s
    [] OTHER -> IF Len(s.errs) > 10 THEN [s EXCEPT !.wrong = "bailout"]
                ELSE [s EXCEPT !.errs = Append(@, Line(s, at))]

Expect(s, tok) == Advance(IF Tok(s) = tok THEN s ELSE Error(s, s.i))
ExpectClosing(s, tok) == Expect(IF Tok(s) = "nl" THEN Advance(Error(s, s.i)) ELSE s, tok)

RECURSIVE SyncStmt(_)
SyncStmt(s) ==
  LET stops == Tok(s) \in {"break", "const", "continue", "defer", "fallthrough", "for", "go", "goto", "if",
                           "return", "select", "switch", "type", "var"}
  IN CASE Tok(s) = "eof" -> s
       [] stops /\ s.i = s.syncPos /\ s.syncCnt < 10 -> [s EXCEPT !.syncCnt = @ + 1]
       [] stops /\ s.i > s.syncPos -> [s EXCEPT !.syncPos = s.i, !.syncCnt = 0]
       [] OTHER -> SyncStmt(Advance(s))

ExpectSemi(s) ==
  CASE Tok(s) \in {")", "}"} -> s
    [] Tok(s) = "," -> Advance(Error(s, s.i))
    [] Tok(s) \in {";", "nl"} -> Advance(s)
    [] OTHER -> SyncStmt(Error(s, s.i))

(* atComma and the p.next() after it: whatever stands there is skipped.    *)
Comma(s) == Advance(IF Tok(s) = "," THEN s ELSE Error(s, s.i))

(* declare, resolve and shortVarDecl give an identifier its object and     *)
(* assert that it had none.                                                *)
Settle(s, x) ==
  CASE x.op # "id" \/ s.wrong # "" -> s
    [] OTHER -> IF x.at \in s.objs THEN [s EXCEPT !.wrong = "assert"] ELSE [s EXCEPT !.objs = @ \cup {x.at}]
SettleAll(s, xs) == FoldLeft(Settle, s, xs)
TryKey(s, x) == IF x.op = "id" /\ x.at \in s.objs /\ s.wrong = "" THEN [s EXCEPT !.wrong = "assert"] ELSE s
ShortVarDecl(s, xs) ==
  FoldLeft(LAMBDA t, x : IF x.op = "id" THEN Settle(t, x) ELSE IF x.op = "blank" THEN t ELSE Error(t, x.at), s, xs)

Ident(s) == IF Tok(s) = "x" THEN Ret(Advance(s), "id", s.i, <<>>) ELSE Ret(Expect(s, "x"), "blank", s.i, <<>>)

(***************************************************************************)
(* What may stand where: checkExpr, checkExprOrType, isTypeName and        *)
(* isLiteralType; StarExpr is both a pointer type and a dereference.       *)
(***************************************************************************)
RECURSIVE Unparen(_)
Unparen(x) == IF x.op = "paren" THEN Unparen(x.kids[1]) ELSE x
BinaryOps == {"||", "&&", "==", "+", "-", "*", "&"}
Calls == {"call", "call..."}
Slices == {"index", "slice", "slice3"}
Unaries == {"unary+", "unary-", "unary!", "unary&", "recv"}
ExprOps == {"bad", "id", "blank", "1", "s", "funclit", "complit", "sel", "assert", "star"}
             \cup Slices \cup Calls \cup Unaries \cup BinaryOps
Bad(s, at) == Ret(s, "bad", at, <<>>)
CheckExpr(s) == IF Unparen(s.n).op \in ExprOps THEN s ELSE Bad(Error(s, s.n.at), s.n.at)
CheckExprOrType(s) ==
  LET x == Unparen(s.n) IN
  IF x.op = "array" /\ x.kids[1].op = "ellipsis" THEN Bad(Error(s, x.kids[1].at), s.n.at) ELSE s
IsTypeName(x) == x.op \in {"bad", "id", "blank"} \/ (x.op = "sel" /\ x.kids[1].op \in {"id", "blank"})
IsLiteralType(x) == IsTypeName(x) \/ x.op \in {"array", "struct", "map"}
Chans == {"chan", "chan<-", "<-chan"}

Precedence(tok) ==
  CASE tok = "||" -> 1 [] tok = "&&" -> 2 [] tok = "==" -> 3 [] tok \in {"+", "-"} -> 4
    [] tok \in {"*", "&"} -> 5 [] OTHER -> 0
AssignToks == {":=", "=", "+="}

RECURSIVE TryType(_), TryIdentOrType(_), ParamList(_, _, _), Expr(_, _), UnaryExpr(_, _), Postfix(_, _),
  Binary(_, _, _), BinaryTail(_, _, _), Args(_, _), Elements(_, _), LiteralValue(_, _), Reassociate(_, _, _),
  Colons(_, _, _), Stmt(_, _), StmtList(_, _, _), Fields(_, _), Methods(_, _), Clauses(_, _, _),
  Specs(_, _, _), IfStmt(_), Comma1(_, _, _)

(* The lists of elements that commas separate.                             *)
Type(s) ==
  LET t == TryType(s) IN IF t.n # Nil THEN t ELSE Bad(Advance(Error(s, s.i)), s.i)
TryVarType(s, isParam) ==
  IF ~(isParam /\ Tok(s) = "...") THEN TryIdentOrType(s)
  ELSE LET t == TryIdentOrType(Advance(s))
           u == IF t.n # Nil THEN Settle(t, t.n) ELSE Bad(Error(t, s.i), s.i)
       IN Ret(u, "ellipsis", s.i, <<u.n>>)
VarType(s, isParam) ==
  LET t == TryVarType(s, isParam) IN IF t.n # Nil THEN t ELSE Bad(Advance(Error(t, s.i)), s.i)

Element(kind, s) ==
  CASE kind = "ident" -> Ident(s)
    [] kind = "type" -> Type(s)
    [] kind = "field" -> VarType(s, FALSE)
    [] kind = "param" -> VarType(s, TRUE)
    [] kind = "result" -> VarType(s, FALSE)
    [] kind = "lhs" -> CheckExpr(Expr(s, TRUE))
    [] kind = "rhs" -> CheckExpr(Expr(s, FALSE))
Comma1(kind, s, acc) ==
  LET e == Element(kind, s)  all == Append(acc, e.n) IN
  CASE Tok(e) # "," -> Got(e, all)
    [] OTHER -> IF kind \in {"param", "result"} /\ Tok(Advance(e)) = ")" THEN Got(Advance(e), all)
                ELSE Comma1(kind, Advance(e), all)
CommaList(kind, s) == Comma1(kind, s, <<>>)

InRhs(s, rhs) == [s EXCEPT !.rhs = rhs]
(* Mutant: the names on the left of := are looked up as well.              *)
LhsListEager(s) ==
  LET a == CommaList("lhs", InRhs(s, FALSE)) IN InRhs(SettleAll(a, a.n), s.rhs)

LhsList(s) ==
  LET a == CommaList("lhs", InRhs(s, FALSE)) IN
  InRhs(IF Tok(a) \in {":=", ":"} THEN a ELSE SettleAll(a, a.n), s.rhs)
RhsList(s) == InRhs(CommaList("rhs", InRhs(s, TRUE)), s.rhs)
Rhs(s) == InRhs(CheckExpr(Expr(InRhs(s, TRUE), FALSE)), s.rhs)
RhsOrType(s) == InRhs(CheckExprOrType(Expr(InRhs(s, TRUE), FALSE)), s.rhs)

(***************************************************************************)
(* Types.                                                                  *)
(***************************************************************************)
TypeName(s) ==
  LET a == Ident(s) IN
  IF Tok(a) # "." THEN a
  ELSE LET b == Ident(Settle(Advance(a), a.n)) IN Ret(b, "sel", s.i, <<a.n, b.n>>)

ArrayType(s) ==
  LET a == Deeper(Expect(s, "["), 1)
      b == CASE Tok(a) = "..." -> Ret(Advance(a), "ellipsis", a.i, <<>>)
             [] Tok(a) = "]" -> Got(a, Nil)
             [] OTHER -> Rhs(a)
      c == Type(Expect(Deeper(b, -1), "]"))
  IN Ret(c, "array", s.i, <<b.n, c.n>>)

IdentList(s, xs) ==
  FoldLeft(LAMBDA t, x : CASE x.op \in {"id", "blank"} -> Got(t, Append(t.n, x))
                           [] x.op = "bad" -> Got(t, Append(t.n, Node("blank", x.at, <<>>)))
                           [] OTHER -> Got(Error(t, x.at), Append(t.n, Node("blank", x.at, <<>>))),
           Got(s, <<>>), xs)

FieldDecl(s) ==
  LET a == CommaList("field", s)
      first == a.n[1]
      t == TryVarType(a, FALSE)
      names == IF t.n = Nil THEN Got(t, <<>>) ELSE IdentList(t, a.n)
      typed == CASE t.n # Nil -> Got(names, t.n)
                 [] t.n = Nil /\ Len(a.n) > 1 -> Bad(Error(t, t.i), t.i)
                 [] OTHER -> IF IsTypeName(IF first.op = "star" THEN first.kids[1] ELSE first) THEN Got(t, first)
                             ELSE Bad(Error(t, first.at), first.at)
      tag == IF Tok(typed) = "s" THEN Ret(Advance(typed), "s", typed.i, <<>>) ELSE Got(typed, Nil)
      e == Settle(SettleAll(ExpectSemi(tag), names.n), typed.n)
  IN Ret(e, "field", s.i, <<List(s.i, names.n), typed.n, tag.n>>)
Fields(s, acc) ==
  IF Tok(s) \in {"x", "*", "("} THEN LET f == FieldDecl(s) IN Fields(f, Append(acc, f.n)) ELSE Got(s, acc)
StructType(s) ==
  LET f == Fields(Expect(Expect(s, "struct"), "{"), <<>>) IN Ret(Expect(f, "}"), "struct", s.i, f.n)

(* parseParameterList: identifiers look like types until a type follows.   *)
ParamList(s, kind, acc) ==
  IF Tok(s) \in {")", "eof"} THEN Got(s, acc)
  ELSE LET a == CommaList("ident", s)
           b == VarType(a, kind = "param")
           c == Settle(SettleAll(b, a.n), b.n)
           all == Append(acc, Node("field", s.i, <<List(s.i, a.n), b.n, Nil>>))
       IN IF Tok(c) = ")" THEN Got(c, all) ELSE ParamList(Comma(c), kind, all)
Parameters(s, kind) ==
  LET a == Expect(s, "(")
      list == CommaList(kind, a)
      t == TryVarType(list, kind = "param")
      names == IdentList(t, list.n)
      c == Settle(SettleAll(names, names.n), t.n)
      first == <<Node("field", a.i, <<List(a.i, names.n), t.n, Nil>>)>>
      b == CASE Tok(a) = ")" -> Got(a, <<>>)
             [] Tok(a) # ")" /\ t.n # Nil -> IF Tok(c) = ")" THEN Got(c, first) ELSE ParamList(Comma(c), kind, first)
             [] OTHER -> Got(SettleAll(t, list.n),
                             [j \in DOMAIN list.n |-> Node("field", list.n[j].at, <<List(0, <<>>), list.n[j], Nil>>)])
  IN Ret(Expect(b, ")"), "params", s.i, b.n)
Result(s) ==
  IF Tok(s) = "(" THEN Parameters(s, "result")
  ELSE LET t == TryType(s) IN IF t.n = Nil THEN t ELSE Ret(t, "result", s.i, <<t.n>>)
Signature(s, at) ==
  LET p == Parameters(s, "param")  r == Result(p) IN Ret(r, "functype", at, <<p.n, r.n>>)
FuncType(s) == Signature(Expect(s, "func"), s.i)

MethodSpec(s) ==
  LET x == TypeName(s)
      isMethod == x.n.op \in {"id", "blank"} /\ Tok(x) = "("
      t == IF isMethod THEN Signature(x, 0) ELSE Settle(x, x.n)
      e == ExpectSemi(t)
  IN Ret(IF isMethod THEN Settle(e, x.n) ELSE e, "field", s.i,
         <<List(s.i, IF isMethod THEN <<x.n>> ELSE <<>>), t.n, Nil>>)
Methods(s, acc) ==
  IF Tok(s) = "x" THEN LET m == MethodSpec(s) IN Methods(m, Append(acc, m.n)) ELSE Got(s, acc)
InterfaceType(s) ==
  LET m == Methods(Expect(Expect(s, "interface"), "{"), <<>>) IN Ret(Expect(m, "}"), "interface", s.i, m.n)

MapType(s) ==
  LET k == Type(Expect(Expect(s, "map"), "["))  v == Type(Expect(k, "]")) IN Ret(v, "map", s.i, <<k.n, v.n>>)
ChanType(s) ==
  LET sends == Tok(s) = "chan" /\ Tok(Advance(s)) = "<-"
      v == Type(CASE Tok(s) # "chan" -> Expect(Expect(s, "<-"), "chan")
                  [] OTHER -> IF sends THEN Advance(Advance(s)) ELSE Advance(s))
  IN Ret(v, IF Tok(s) # "chan" THEN "<-chan" ELSE IF sends THEN "chan<-" ELSE "chan", s.i, <<v.n>>)

TryIdentOrType(s) ==
  CASE Tok(s) = "x" -> TypeName(s)
    [] Tok(s) = "[" -> ArrayType(s)
    [] Tok(s) = "struct" -> StructType(s)
    [] Tok(s) = "*" -> LET t == Type(Advance(s)) IN Ret(t, "star", s.i, <<t.n>>)
    [] Tok(s) = "func" -> FuncType(s)
    [] Tok(s) = "interface" -> InterfaceType(s)
    [] Tok(s) = "map" -> MapType(s)
    [] Tok(s) \in {"chan", "<-"} -> ChanType(s)
    [] Tok(s) = "(" -> LET t == Type(Advance(s)) IN Ret(Expect(t, ")"), "paren", s.i, <<t.n>>)
    [] OTHER -> Got(s, Nil)
TryType(s) == LET t == TryIdentOrType(s) IN Settle(t, t.n)

(***************************************************************************)
(* Expressions.                                                            *)
(***************************************************************************)
BlockStmt(s) == LET l == StmtList(Expect(s, "{"), FALSE, <<>>) IN Ret(Expect(l, "}"), "block", s.i, l.n)

FuncTypeOrLit(s) ==
  LET t == FuncType(s)  b == BlockStmt(Deeper(t, 1)) IN
  IF Tok(t) # "{" THEN t ELSE Ret(Deeper(b, -1), "funclit", s.i, <<t.n, b.n>>)

Operand(s, lhs) ==
  CASE Tok(s) = "x" -> LET x == Ident(s) IN IF lhs THEN x ELSE Settle(x, x.n)
    [] Tok(s) \in {"1", "s"} -> Ret(Advance(s), Tok(s), s.i, <<>>)
    [] Tok(s) = "(" -> LET x == RhsOrType(Deeper(Advance(s), 1))
                       IN Ret(Expect(Deeper(x, -1), ")"), "paren", s.i, <<x.n>>)
    [] Tok(s) = "func" -> FuncTypeOrLit(s)
    [] OTHER -> LET t == TryIdentOrType(s) IN IF t.n # Nil THEN t ELSE Bad(SyncStmt(Error(s, s.i)), s.i)

TypeAssertion(s, at) ==
  LET a == Expect(s, "(")
      t == IF Tok(a) = "type" THEN Got(Advance(a), Nil) ELSE Type(a)
  IN Ret(Expect(t, ")"), "assert", at, <<s.n, t.n>>)

Colons(s, parts, colons) ==
  IF Tok(s) # ":" \/ Len(colons) = 2 THEN [s EXCEPT !.n = [parts |-> parts, colons |-> colons]]
  ELSE LET a == Advance(s)
           b == IF Tok(a) \in {":", "]", "eof"} THEN Got(a, Nil) ELSE Rhs(a)
       IN Colons(b, Append(parts, b.n), Append(colons, s.i))
IndexOrSlice(s, at) ==
  LET a == Deeper(Expect(s, "["), 1)
      first == IF Tok(a) = ":" THEN Got(a, Nil) ELSE Rhs(a)
      c == Colons(first, <<first.n>>, <<>>)
      parts == c.n.parts  colons == c.n.colons
      d == Expect(Deeper(c, -1), "]")
      second == IF Len(colons) = 2 /\ parts[2] = Nil THEN Error(d, colons[1]) ELSE d
      third == IF Len(colons) = 2 /\ parts[3] = Nil THEN Error(second, colons[2]) ELSE second
  IN Ret(third, CASE Len(colons) = 0 -> "index" [] Len(colons) = 1 -> "slice" [] OTHER -> "slice3",
         at, <<s.n>> \o parts)

Args(s, acc) ==
  IF Tok(s) \in {")", "eof"} THEN Got(s, [args |-> acc, dots |-> FALSE])
  ELSE LET a == RhsOrType(s)
           dots == Tok(a) = "..."
           b == IF dots THEN Advance(a) ELSE a
           all == Append(acc, a.n)
       IN CASE Tok(b) = ")" -> Got(b, [args |-> all, dots |-> dots])
            [] OTHER -> IF dots THEN Got(Comma(b), [args |-> all, dots |-> TRUE]) ELSE Args(Comma(b), all)
CallOrConversion(s, at) ==
  LET a == Args(Deeper(Expect(s, "("), 1), <<>>)
  IN Ret(ExpectClosing(Deeper(a, -1), ")"), IF a.n.dots THEN "call..." ELSE "call", at, <<s.n>> \o a.n.args)

Value(s, keyOk) ==
  LET x == CheckExpr(Expr(s, keyOk)) IN
  CASE Tok(s) = "{" -> LiteralValue(Got(s, Nil), s.i)
    [] Tok(s) # "{" /\ ~keyOk -> x
    [] OTHER -> IF Tok(x) = ":" THEN TryKey(x, x.n) ELSE Settle(x, x.n)
KeyedElement(s) ==
  LET k == Value(s, TRUE)  v == Value(Advance(k), FALSE) IN
  IF Tok(k) = ":" THEN Ret(v, "keyvalue", s.i, <<k.n, v.n>>) ELSE k
Elements(s, acc) ==
  IF Tok(s) \in {"}", "eof"} THEN Got(s, acc)
  ELSE LET e == KeyedElement(s)  all == Append(acc, e.n) IN
       IF Tok(e) = "}" THEN Got(e, all) ELSE Elements(Comma(e), all)
LiteralValue(s, at) ==
  LET e == Elements(Deeper(Expect(s, "{"), 1), <<>>)
  IN Ret(ExpectClosing(Deeper(e, -1), "}"), "complit", at, <<s.n>> \o e.n)

(* Mutant: a brace after a type name always begins a literal.              *)
LiteralAlways(s) == Tok(s) = "{" /\ IsLiteralType(s.n)

(* After an operand: selectors, assertions, indices, calls, and a brace,   *)
(* which begins a literal unless a control clause makes it a block.        *)
LiteralFollows(s) == Tok(s) = "{" /\ IsLiteralType(s.n) /\ (s.lev >= 0 \/ ~IsTypeName(s.n))
Postfix(s, lhs) ==
  LET at == s.n.at
      known(t) == IF lhs THEN Settle(t, s.n) ELSE t
      a == known(Advance(s))
      sel == Ident(CheckExprOrType(a))
  IN CASE Tok(s) = "." -> Postfix(
            CASE Tok(a) = "x" -> Ret(sel, "sel", at, <<CheckExprOrType(a).n, sel.n>>)
              [] Tok(a) = "(" -> TypeAssertion(CheckExpr(a), at)
              [] OTHER -> Ret(Advance(Error(a, a.i)), "sel", at, <<s.n, Node("blank", a.i, <<>>)>>), FALSE)
       [] Tok(s) = "[" -> Postfix(IndexOrSlice(CheckExpr(known(s)), at), FALSE)
       [] Tok(s) = "(" -> Postfix(CallOrConversion(CheckExprOrType(known(s)), at), FALSE)
       [] LiteralFollows(s) -> Postfix(LiteralValue(known(s), at), FALSE)
       [] OTHER -> s

(* <- (chan T) is the type <-chan T: the arrow moves from type to type.    *)
Reassociate(s, arrow, typ) ==
  LET a == IF typ.op = "<-chan" THEN Error(s, typ.at) ELSE s
      inner == typ.kids[1]
      b == CASE typ.op # "chan<-" -> Got(a, inner)
             [] OTHER -> IF inner.op \in Chans THEN Reassociate(a, typ.at + 1, inner)
                         ELSE Got(Error(a, typ.at + 1), inner)
  IN Ret(b, "<-chan", arrow, <<b.n>>)

UnaryExpr(s, lhs) ==
  LET x == UnaryExpr(Advance(s), FALSE) IN
  CASE Tok(s) \in {"+", "-", "!", "&"} -> LET c == CheckExpr(x) IN Ret(c, "unary" \o Tok(s), s.i, <<c.n>>)
    [] Tok(s) = "<-" -> IF x.n.op \in Chans THEN Reassociate(x, s.i, x.n)
                        ELSE LET c == CheckExpr(x) IN Ret(c, "recv", s.i, <<c.n>>)
    [] Tok(s) = "*" -> LET c == CheckExprOrType(x) IN Ret(c, "star", s.i, <<c.n>>)
    [] OTHER -> Postfix(Operand(s, lhs), lhs)

Operator(s) == IF s.rhs /\ Tok(s) = "=" THEN "==" ELSE Tok(s)
BinaryTail(s, lhs, prec) ==
  LET op == Operator(s)
      a == Expect(s, op)
      y == Binary(IF lhs THEN Settle(a, s.n) ELSE a, FALSE, Precedence(op) + 1)
      left == CheckExpr(Got(y, s.n))
      right == CheckExpr(Got(left, y.n))
  IN IF Precedence(op) < prec THEN s ELSE BinaryTail(Ret(right, op, s.n.at, <<left.n, right.n>>), FALSE, prec)
Binary(s, lhs, prec) == BinaryTail(UnaryExpr(s, lhs), lhs, prec)
Expr(s, lhs) == Binary(s, lhs, 1)

(***************************************************************************)
(* Statements.                                                             *)
(***************************************************************************)
IsRange(x) == x.op \in AssignToks \cup {"range"} /\ x.kids[2].kids # <<>> /\ x.kids[2].kids[1].op = "rangeof"
RangeOf(s) == LET x == Rhs(Advance(s)) IN Got(x, <<Node("rangeof", s.i, <<x.n>>)>>)

SimpleStmt(s, mode) ==
  LET x == LhsList(s)
      a == Advance(x)
      y == IF mode = "range" /\ Tok(a) = "range" /\ Tok(x) \in {":=", "="} THEN RangeOf(a) ELSE RhsList(a)
      one == IF Len(x.n) > 1 THEN Error(x, x.n[1].at) ELSE x
      b == Advance(one)
      first == x.n[1]
      labeled == Stmt(b, FALSE)
      sent == Rhs(b)
  IN CASE Tok(x) \in AssignToks ->
            Ret(IF Tok(x) = ":=" THEN ShortVarDecl(y, x.n) ELSE y, Tok(x), s.i, <<List(s.i, x.n), List(x.i, y.n)>>)
       [] Tok(x) = ":" /\ mode = "label" /\ first.op \in {"id", "blank"} ->
            Ret(Settle(labeled, first), "labeled", s.i, <<first, labeled.n>>)
       [] Tok(x) = ":" /\ ~(mode = "label" /\ first.op \in {"id", "blank"}) -> Ret(Error(b, x.i), "badstmt", s.i, <<>>)
       [] Tok(x) = "<-" -> Ret(sent, "send", s.i, <<first, sent.n>>)
       [] Tok(x) = "++" -> Ret(b, "incdec", s.i, <<first>>)
       [] OTHER -> Ret(one, "exprstmt", s.i, <<first>>)

CallStmt(s, word) ==
  LET x == RhsOrType(Advance(s))
      isCall == x.n.op \in Calls
      e == ExpectSemi(IF isCall \/ x.n.op = "bad" THEN x ELSE Error(x, x.i - 1))
  IN IF isCall THEN Ret(e, word, s.i, <<x.n>>) ELSE Ret(e, "badstmt", s.i, <<>>)
ReturnStmt(s) ==
  LET a == Advance(s)  x == IF Tok(a) \in {";", "nl", "}"} THEN Got(a, <<>>) ELSE RhsList(a)
  IN Ret(ExpectSemi(x), "return", s.i, x.n)
BranchStmt(s) ==
  LET a == Advance(s)  l == IF Tok(s) # "fallthrough" /\ Tok(a) = "x" THEN Ident(a) ELSE Got(a, Nil)
  IN Ret(ExpectSemi(l), Tok(s), s.i, <<l.n>>)

(* makeExpr: of a control clause's statement, its expression.              *)
MakeExpr(s, x) ==
  CASE x = Nil -> Got(s, Nil)
    [] x.op = "exprstmt" -> CheckExpr(Got(s, x.kids[1]))
    [] OTHER -> Bad(Error(s, x.at), x.at)
InClause(s) == [s EXCEPT !.lev = -1]
OutOfClause(s, before) == [s EXCEPT !.lev = before.lev]

IfStmt(s) ==
  LET a == InClause(Advance(s))
      init == IF Tok(a) \in {";", "nl"} THEN Got(a, Nil) ELSE SimpleStmt(a, "basic")
      two == Tok(init) \in {";", "nl"}
      cond == IF two THEN Rhs(Advance(init)) ELSE MakeExpr(init, init.n)
      body == BlockStmt(OutOfClause(cond, s))
      e == Advance(body)
      else == CASE Tok(e) = "if" -> IfStmt(e)
                [] Tok(e) = "{" -> LET b == BlockStmt(e) IN Got(ExpectSemi(b), b.n)
                [] OTHER -> Ret(Error(e, e.i), "badstmt", e.i, <<>>)
      rest == IF Tok(body) = "else" THEN else ELSE Got(ExpectSemi(body), Nil)
  IN Ret(rest, "if", s.i, <<IF two THEN init.n ELSE Nil, cond.n, body.n, rest.n>>)

CaseClause(s, typeSwitch) ==
  LET l == CASE Tok(s) # "case" -> Got(Expect(s, "default"), <<>>)
             [] OTHER -> IF typeSwitch THEN CommaList("type", Advance(s)) ELSE RhsList(Advance(s))
      b == StmtList(Expect(l, ":"), FALSE, <<>>)
  IN Ret(b, Tok(s), s.i, <<List(s.i, l.n), List(b.i, b.n)>>)
CommClause(s) ==
  LET l == LhsList(Advance(s))
      one == IF Len(l.n) > 1 THEN Error(l, l.n[1].at) ELSE l
      two == IF Len(l.n) > 2 THEN Error(l, l.n[1].at) ELSE l
      lhs == SubSeq(l.n, 1, IF Len(l.n) > 2 THEN 2 ELSE Len(l.n))
      sent == Rhs(Advance(one))
      recv == Rhs(Advance(two))
      comm == CASE Tok(s) # "case" -> Got(Expect(s, "default"), Nil)
                [] Tok(s) = "case" /\ Tok(l) = "<-" -> Ret(sent, "send", s.i + 1, <<l.n[1], sent.n>>)
                [] Tok(s) = "case" /\ Tok(l) \in {":=", "="} ->
                     Ret(IF Tok(l) = ":=" THEN ShortVarDecl(recv, lhs) ELSE recv, Tok(l), s.i + 1,
                         <<List(s.i, lhs), List(s.i, <<recv.n>>)>>)
                [] OTHER -> Ret(one, "exprstmt", s.i + 1, <<l.n[1]>>)
      b == StmtList(Expect(comm, ":"), FALSE, <<>>)
  IN Ret(b, "comm", s.i, <<comm.n, List(b.i, b.n)>>)
Clauses(s, kind, acc) ==
  IF Tok(s) \notin {"case", "default"} THEN Got(s, acc)
  ELSE LET c == IF kind = "select" THEN CommClause(s) ELSE CaseClause(s, kind = "typeswitch")
       IN Clauses(c, kind, Append(acc, c.n))
ClauseBlock(s, kind) ==
  LET c == Clauses(Expect(s, "{"), kind, <<>>)
  IN Ret(ExpectSemi(Expect(c, "}")), "block", s.i, c.n)

(* x.(type), v := x.(type), and v = x.(type) with a complaint.             *)
IsTypeAssert(x) == x.op = "assert" /\ x.kids[2] = Nil
GuardAssigns(x) == x.op \in {":=", "="} /\ Len(x.kids[1].kids) = 1 /\ Len(x.kids[2].kids) = 1 /\ IsTypeAssert(x.kids[2].kids[1])
SwitchStmt(s) ==
  LET a == Advance(s)
      c == InClause(a)
      one == IF Tok(c) \in {";", "nl"} THEN Got(c, Nil) ELSE SimpleStmt(c, "basic")
      semi == Tok(a) # "{" /\ Tok(one) \in {";", "nl"}
      b == Advance(one)
      two == IF Tok(b) = "{" THEN Got(b, Nil) ELSE SimpleStmt(b, "basic")
      head == CASE Tok(a) = "{" -> Got(a, Nil) [] semi -> OutOfClause(two, s) [] OTHER -> OutOfClause(one, s)
      tag == head.n
      isGuard == (tag.op = "exprstmt" /\ IsTypeAssert(tag.kids[1])) \/ GuardAssigns(tag)
      told == IF tag.op = "=" /\ isGuard THEN Error(head, tag.kids[2].at) ELSE head
      body == ClauseBlock(told, IF isGuard THEN "typeswitch" ELSE "switch")
      expr == IF isGuard THEN Got(body, tag) ELSE MakeExpr(body, tag)
  IN Ret(expr, IF isGuard THEN "typeswitch" ELSE "switch", s.i, <<IF semi THEN one.n ELSE Nil, expr.n, body.n>>)
SelectStmt(s) == LET b == ClauseBlock(Advance(s), "select") IN Ret(b, "select", s.i, <<b.n>>)

ForStmt(s) ==
  LET a == InClause(Advance(s))
      noLhs == RangeOf(a)
      one == CASE Tok(a) = "{" \/ Tok(a) \in {";", "nl"} -> Got(a, Nil)
               [] Tok(a) = "range" -> Ret(noLhs, "range", a.i, <<List(a.i, <<>>), List(a.i, noLhs.n)>>)
               [] OTHER -> SimpleStmt(a, "range")
      three == Tok(a) # "{" /\ ~IsRange(one.n) /\ Tok(one) \in {";", "nl"}
      b == Advance(one)
      cond == IF Tok(b) \in {";", "nl"} THEN Got(b, Nil) ELSE SimpleStmt(b, "basic")
      c == ExpectSemi(cond)
      post == IF Tok(c) = "{" THEN Got(c, Nil) ELSE SimpleStmt(c, "basic")
      body == BlockStmt(OutOfClause(IF three THEN post ELSE one, s))
      e == ExpectSemi(body)
      lhs == one.n.kids[1].kids
      x == MakeExpr(e, IF three THEN cond.n ELSE one.n)
  IN CASE IsRange(one.n) /\ Len(lhs) > 2 -> Ret(Error(e, Last(lhs).at), "badstmt", s.i, <<>>)
       [] IsRange(one.n) /\ Len(lhs) <= 2 -> Ret(e, "forrange", s.i, <<one.n, body.n>>)
       [] OTHER -> Ret(x, "for", s.i, <<IF three THEN one.n ELSE Nil, x.n, IF three THEN post.n ELSE Nil, body.n>>)

(***************************************************************************)
(* Declarations.                                                           *)
(***************************************************************************)
ImportSpec(s) ==
  LET name == CASE Tok(s) = "." -> Ret(Advance(s), "dot", s.i, <<>>) [] Tok(s) = "x" -> Ident(s) [] OTHER -> Got(s, Nil)
  IN Ret(ExpectSemi(Expect(name, "s")), "importspec", s.i, <<name.n, Node("s", name.i, <<>>)>>)
ValueSpec(s, word, iota) ==
  LET names == CommaList("ident", s)
      typ == TryType(names)
      values == IF Tok(typ) = "=" THEN RhsList(Advance(typ)) ELSE Got(typ, <<>>)
      missing == IF word = "var" THEN typ.n = Nil /\ values.n = <<>>
                 ELSE values.n = <<>> /\ (iota = 0 \/ typ.n # Nil)
      e == ExpectSemi(values)
  IN Ret(SettleAll(IF missing THEN Error(e, s.i) ELSE e, names.n), "values", s.i,
         <<List(s.i, names.n), typ.n, List(s.i, values.n)>>)
TypeSpec(s) ==
  LET name == Ident(s)
      a == Settle(name, name.n)
      alias == Tok(a) = "="
      typ == Type(IF alias THEN Advance(a) ELSE a)
  IN Ret(ExpectSemi(typ), IF alias THEN "alias" ELSE "typespec", s.i, <<name.n, typ.n>>)
Spec(s, word, iota) ==
  CASE word = "import" -> ImportSpec(s) [] word = "type" -> TypeSpec(s) [] OTHER -> ValueSpec(s, word, iota)
Specs(s, word, acc) ==
  IF Tok(s) \in {")", "eof"} THEN Got(s, acc)
  ELSE LET p == Spec(s, word, Len(acc)) IN Specs(p, word, Append(acc, p.n))
GenDecl(s) ==
  LET a == Advance(s)
      group == Specs(Advance(a), Tok(s), <<>>)
      one == Spec(a, Tok(s), 0)
  IN IF Tok(a) = "(" THEN Ret(ExpectSemi(Expect(group, ")")), Tok(s) \o "group", s.i, group.n)
     ELSE Ret(one, Tok(s), s.i, <<one.n>>)

FuncDecl(s) ==
  LET a == Advance(s)
      recv == IF Tok(a) = "(" THEN Parameters(a, "result") ELSE Got(a, Nil)
      name == Ident(recv)
      sig == Signature(name, s.i)
      body == IF Tok(sig) = "{" THEN BlockStmt(sig) ELSE Got(sig, Nil)
      e == ExpectSemi(body)
  IN Ret(IF recv.n = Nil THEN Settle(e, name.n) ELSE e, "funcdecl", s.i, <<recv.n, name.n, sig.n, body.n>>)

(* parseStmtWithFuncDeclImport: at the top of a block (top) a function is  *)
(* a declaration and imports are allowed.                                  *)
Starts == {"x", "1", "s", "(", "[", "struct", "map", "chan", "interface", "+", "-", "*", "&", "<-", "!", "func"}
Simple(s) == LET x == SimpleStmt(s, "label") IN IF x.n.op = "labeled" THEN x ELSE Got(ExpectSemi(x), x.n)
Stmt(s, top) ==
  CASE Tok(s) = "import" /\ top -> GenDecl(s)
    [] Tok(s) = "func" /\ top -> FuncDecl(s)
    [] Tok(s) \in {"const", "type", "var"} -> GenDecl(s)
    [] Tok(s) \in Starts /\ ~(Tok(s) = "func" /\ top) -> Simple(s)
    [] Tok(s) \in {"go", "defer"} -> CallStmt(s, Tok(s))
    [] Tok(s) = "return" -> ReturnStmt(s)
    [] Tok(s) \in {"break", "continue", "goto", "fallthrough"} -> BranchStmt(s)
    [] Tok(s) = "{" -> LET b == BlockStmt(s) IN Got(ExpectSemi(b), b.n)
    [] Tok(s) = "if" -> IfStmt(s)
    [] Tok(s) = "switch" -> SwitchStmt(s)
    [] Tok(s) = "select" -> SelectStmt(s)
    [] Tok(s) = "for" -> ForStmt(s)
    [] Tok(s) \in {";", "nl"} -> Ret(Advance(s), "empty", s.i, <<>>)
    [] Tok(s) = "}" -> Ret(s, "empty", s.i, <<>>)
    [] OTHER -> Ret(SyncStmt(Error(s, s.i)), "badstmt", s.i, <<>>)
StmtList(s, top, acc) ==
  IF Tok(s) \in {"case", "default", "}", "eof"} THEN Got(s, acc)
  ELSE LET x == Stmt(s, top) IN StmtList(x, top, Append(acc, x.n))

(* ParseLesserGoFile.                                                      *)
ParseBlock(toks) ==
  LET s == StmtList(Begin(toks), TRUE, <<>>)
  IN [ok |-> s.errs = <<>> /\ s.wrong = "", stmts |-> IF s.wrong = "" THEN s.n ELSE <<>>,
      at |-> s.i, errs |-> s.errs, objs |-> s.objs, wrong |-> s.wrong]

(* What the scanner makes of tokens and line ends (go/scanner): a newline  *)
(* is a semicolon after what may end a statement, and nothing elsewhere.   *)
EndsStatement == {"x", "1", "s", ")", "]", "}", "return", "break", "continue", "fallthrough", "++"}
Scan(source) ==
  FoldLeft(LAMBDA toks, t : IF t # "nl" THEN Append(toks, t)
                            ELSE IF toks # <<>> /\ Last(toks) \in EndsStatement THEN Append(toks, t) ELSE toks,
           <<>>, Append(source, "nl"))

(***************************************************************************)
(* The reference: the text a tree stands for (the grammar of the Go        *)
(* specification), every statement ended by a semicolon.                   *)
(***************************************************************************)
Joined(parts, sep) ==
  FoldLeft(LAMBDA acc, p : IF acc.first THEN [first |-> FALSE, text |-> p]
                           ELSE [acc EXCEPT !.text = @ \o <<sep>> \o p], [first |-> TRUE, text |-> <<>>], parts).text
RECURSIVE Unparse(_)
Unparse(n) ==
  LET all == [j \in DOMAIN n.kids |-> Unparse(n.kids[j])]
      one == all[1]  two == all[2]  three == all[3]
      tail == Tail(all)
      keyword == <<n.op>>
      headed(init) == IF init = <<>> THEN <<>> ELSE init \o <<";">>
      stmts(list) == Joined(list, ";")
      body == FoldLeft(LAMBDA acc, m : acc \o Unparse(m) \o <<";">>, <<>>, n.kids[2].kids)
      clauses == n.kids # <<>> /\ n.kids[1].op \in {"case", "default", "comm"}
      members == FoldLeft(LAMBDA acc, m : acc \o
                   (IF n.op = "interface" /\ m.kids[2].op = "functype" THEN Unparse(m.kids[1]) \o Tail(Unparse(m.kids[2]))
                    ELSE Unparse(m)) \o <<";">>, <<>>, n.kids)
  IN CASE n.op = "id" -> <<"x">>
       [] n.op \in {"1", "s"} -> keyword
       [] n.op \in {"nil", "empty"} -> <<>>
       [] n.op = "dot" -> <<".">>
       [] n.op = "list" -> Joined(all, ",")
       [] n.op = "paren" -> <<"(">> \o one \o <<")">>
       [] n.op = "sel" -> one \o <<".">> \o two
       [] n.op = "assert" -> one \o <<".", "(">> \o (IF two = <<>> THEN <<"type">> ELSE two) \o <<")">>
       [] n.op = "ellipsis" -> <<"...">> \o Joined(all, ",")
       [] n.op = "array" -> <<"[">> \o one \o <<"]">> \o two
       [] n.op = "map" -> <<"map", "[">> \o one \o <<"]">> \o two
       [] n.op \in {"struct", "interface"} -> keyword \o <<"{">> \o members \o <<"}">>
       [] n.op \in {"star", "recv"} -> <<IF n.op = "star" THEN "*" ELSE "<-">> \o one
       [] n.op = "chan" -> <<"chan">> \o one
       [] n.op = "chan<-" -> <<"chan", "<-">> \o one
       [] n.op = "<-chan" -> <<"<-", "chan">> \o one
       [] n.op = "field" -> one \o two \o three
       [] n.op = "params" -> <<"(">> \o Joined(all, ",") \o <<")">>
       [] n.op \in {"result", "exprstmt", "typespec", "importspec"} -> one \o (IF Len(all) = 1 THEN <<>> ELSE two)
       [] n.op = "alias" -> one \o <<"=">> \o two
       [] n.op = "functype" -> <<"func">> \o one \o two
       [] n.op \in {"funclit"} -> one \o two
       [] n.op = "block" -> <<"{">> \o (IF clauses THEN FlattenSeq(all) ELSE stmts(all)) \o <<"}">>
       [] n.op = "index" -> one \o <<"[">> \o two \o <<"]">>
       [] n.op \in {"slice", "slice3"} -> one \o <<"[">> \o Joined(tail, ":") \o <<"]">>
       [] n.op \in Calls -> one \o <<"(">> \o Joined(tail, ",") \o (IF n.op = "call" THEN <<>> ELSE <<"...">>) \o <<")">>
       [] n.op = "complit" -> one \o <<"{">> \o Joined(tail, ",") \o <<"}">>
       [] n.op \in {"keyvalue", "labeled"} -> one \o <<":">> \o two
       [] n.op = "unary+" -> <<"+">> \o one
       [] n.op = "unary-" -> <<"-">> \o one
       [] n.op = "unary!" -> <<"!">> \o one
       [] n.op = "unary&" -> <<"&">> \o one
       [] n.op \in BinaryOps \cup AssignToks -> one \o keyword \o two
       [] n.op = "range" -> two
       [] n.op = "rangeof" -> <<"range">> \o one
       [] n.op = "send" -> one \o <<"<-">> \o two
       [] n.op = "incdec" -> one \o <<"++">>
       [] n.op \in {"go", "defer", "select", "break", "continue", "goto", "fallthrough", "const", "var", "type", "import"} ->
            keyword \o one
       [] n.op = "return" -> keyword \o Joined(all, ",")
       [] n.op = "if" -> keyword \o headed(one) \o two \o three \o (IF all[4] = <<>> THEN <<>> ELSE <<"else">> \o all[4])
       [] n.op = "switch" -> keyword \o headed(one) \o two \o three
       [] n.op = "typeswitch" -> <<"switch">> \o headed(one) \o two \o three
       [] n.op \in {"case", "default"} -> keyword \o one \o <<":">> \o body
       [] n.op = "comm" -> (IF one = <<>> THEN <<"default">> ELSE <<"case">> \o one) \o <<":">> \o body
       [] n.op = "for" -> keyword \o (IF one \o three = <<>> THEN two ELSE one \o <<";">> \o two \o <<";">> \o three) \o all[4]
       [] n.op = "forrange" -> <<"for">> \o one \o two
       [] n.op = "values" -> one \o two \o (IF three = <<>> THEN <<>> ELSE <<"=">> \o three)
       [] n.op \in {"constgroup", "vargroup", "typegroup", "importgroup"} ->
            <<CASE n.op = "constgroup" -> "const" [] n.op = "vargroup" -> "var" [] n.op = "typegroup" -> "type" [] OTHER -> "import">>
              \o <<"(">> \o stmts(all) \o <<")">>
       [] n.op = "funcdecl" -> <<"func">> \o one \o two \o Tail(three) \o all[4]
       [] OTHER -> <<n.op>>

Text(stmts) == Joined([j \in DOMAIN stmts |-> Unparse(stmts[j])], ";")
Words(toks) == SelectSeq(toks, LAMBDA t : t \notin {";", "nl", ","})

(* Nothing a user typed disappears: when a block is accepted, the tree     *)
(* holds every token up to the place where the parser stopped, in order    *)
(* (the three indices of a slice, the arrow that moves from an expression  *)
(* to a channel type, the parts of control clauses), and it stopped at the *)
(* end, or at a closing brace, case or default that belongs to no block    *)
(* (parseLgoStmtList), what follows being dropped without an error.        *)
NothingLost(toks, out) ==
  out.ok => /\ Words(SubSeq(toks, 1, out.at - 1)) = Words(Text(out.stmts))
            /\ out.at > Len(toks) \/ toks[out.at] \in {"}", "case", "default"}

(* Identifiers get their object once: no input makes an assertion of the   *)
(* parser fail, which would be a panic and no error (custom.go:85), and in *)
(* an accepted block every identifier that may denote something has one.   *)
RECURSIVE Denoting(_)
Denoting(n) ==
  LET of(k) == UNION {Denoting(n.kids[j]) : j \in k}
      bare(x) == x.op \in {"id", "exprstmt"} /\ (x.op = "exprstmt" => x.kids[1].op = "id")
  IN CASE n.op = "id" -> {n.at}
       [] n.op = "sel" -> of({1})
       [] n.op \in {"break", "continue", "goto", "importspec"} -> {}
       [] n.op \in {"keyvalue", "comm"} -> IF bare(n.kids[1]) THEN of({2}) ELSE of({1, 2})
       [] n.op = "funcdecl" -> IF n.kids[1] = Nil THEN of({2, 3, 4}) ELSE of({1, 3, 4})
       [] OTHER -> of(DOMAIN n.kids)
IdentsSettled(toks, out) ==
  /\ out.wrong # "assert"
  /\ out.ok => out.objs = UNION {Denoting(out.stmts[j]) : j \in DOMAIN out.stmts}

(* Every block of the language is accepted, as what it is: a composite     *)
(* literal before the block of a control clause needs parentheses only     *)
(* where the specification says so, newlines end statements and nothing    *)
(* else, control clauses are left as they were entered (exprLev).          *)
RECURSIVE Ambiguous(_), Shape(_)
Ambiguous(n) ==                   \* a literal T{...} outside brackets of any kind
  CASE n.op = "complit" -> IsTypeName(n.kids[1])
    [] n.op \in Calls \cup Slices \cup {"sel", "assert"} -> Ambiguous(n.kids[1])
    [] n.op \in {"paren", "funclit", "array"} -> FALSE
    [] OTHER -> \E j \in DOMAIN n.kids : Ambiguous(n.kids[j])
Shape(n) == Node(n.op, 0, [j \in DOMAIN n.kids |-> Shape(n.kids[j])])
LanguageAccepted(stmts, out) ==
  out.ok /\ [j \in DOMAIN out.stmts |-> Shape(out.stmts[j])] = [j \in DOMAIN stmts |-> Shape(stmts[j])]
===============================================================================
