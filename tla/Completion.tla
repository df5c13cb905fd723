----------------------------- MODULE Completion -----------------------------
(***************************************************************************)
(* What a completion or an inspection is about: the positions of           *)
(* converter/complete.go, findIdentVisitor of converter/converter.go, and  *)
(* the handlers of cmd/lgo-internal/kernel.go between the positions of the *)
(* front end and those of the source.                                      *)
(*                                                                         *)
(* Code is a sequence of runes: "g " and "d " stand for the keywords "go " *)
(* and "defer ", "w" for a letter that takes two bytes, "1" for a digit.   *)
(* The source is its bytes, where "~" is the second byte of a "w".         *)
(***************************************************************************)
EXTENDS Integers, Sequences, FiniteSets, SequencesExt

IdentBytes == {"g", "d", "w", "~", "1"}
Space == " "
BytesOf(code) == FlattenSeq([i \in DOMAIN code |-> IF code[i] = "w" THEN <<"w", "~">> ELSE <<code[i]>>])
RuneCount(bytes) == Len(SelectSeq(bytes, LAMBDA b : b # "~"))
LeastOf(S) == CHOOSE x \in S : \A y \in S : x <= y
GreatestOf(S) == CHOOSE x \in S : \A y \in S : x >= y

RuneOffsetToByteOffset(code, roff) ==
  IF roff < Len(code) THEN Len(BytesOf(SubSeq(code, 1, roff))) ELSE Len(BytesOf(code))

(* The run of identifier runes around an offset, if it is an identifier.   *)
NoRange == <<-1, -1>>
IdentifierAt(src, idx) ==
  LET end == GreatestOf({e \in idx .. Len(src) : \A i \in (idx + 1) .. e : src[i] \in IdentBytes})
      start == LeastOf({s \in 0 .. idx : \A i \in (s + 1) .. idx : src[i] \in IdentBytes})
  IN IF start = end \/ src[start + 1] = "1" THEN NoRange ELSE <<start, end>>

(* The dot before the identifier at an offset, and that identifier.        *)
FindLastDot(src, idx) ==
  LET id == IdentifierAt(src, idx)
      from == IF id = NoRange THEN idx ELSE id[1]
      s == LeastOf({t \in 0 .. from : \A i \in (t + 1) .. from : src[i] = Space})
      dot == IF s > 0 /\ src[s] = "." THEN s - 1 ELSE s
  IN IF dot < Len(src) /\ src[dot + 1] = "."
     THEN [dot |-> dot, range |-> IF id = NoRange THEN <<idx, idx>> ELSE id]
     ELSE [dot |-> -1, range |-> NoRange]

(***************************************************************************)
(* removePrefixesFromSource: "^|[\n\t ]+(go )" first matches the empty     *)
(* string at 0, so that a keyword counts after blanks from 1 on; of the    *)
(* matches, which do not overlap, the last one loses its keyword.          *)
(***************************************************************************)
RECURSIVE LastKeyword(_, _, _, _)
LastKeyword(src, kw, from, limit) ==
  LET at == {j \in (from + 1) .. (limit - Len(kw)) :
               src[j] = Space /\ SubSeq(src, j + 1, j + Len(kw)) = kw}
  IN IF at = {} THEN -1
     ELSE LET j == LeastOf(at)  later == LastKeyword(src, kw, j + Len(kw), limit)
          IN IF later >= 0 THEN later ELSE j

RemovePrefix(src, off, kw) ==
  LET j == LastKeyword(src, kw, 1, off) IN
  IF j < 0 THEN [src |-> src, off |-> off]
  ELSE [src |-> SubSeq(src, 1, j) \o SubSeq(src, j + Len(kw) + 1, Len(src)), off |-> off - Len(kw)]

(* What HandleComplete replies to a cursor, in runes, when something       *)
(* matches: the range that the chosen candidate replaces.                  *)
CompleteRange(code, cursor) ==
  LET src == BytesOf(code)
      off == RuneOffsetToByteOffset(code, cursor)
      noGo == RemovePrefix(src, off, <<"g", Space>>)
      noDefer == RemovePrefix(noGo.src, noGo.off, <<"d", Space>>)
      dotted == FindLastDot(noDefer.src, noDefer.off)
      id == IdentifierAt(noDefer.src, noDefer.off)
      range == IF dotted.dot >= 0 THEN dotted.range
               ELSE IF id # NoRange THEN id ELSE <<noDefer.off, noDefer.off>>
      start == range[1] + (off - noDefer.off)
      end == range[2] + (off - noDefer.off)
      runeStart == RuneCount(SubSeq(src, 1, start))
  IN <<runeStart, runeStart + RuneCount(SubSeq(src, start + 1, end))>>

(***************************************************************************)
(* Expressions with their extents in the source: id, call(fun, args),      *)
(* sel(x, id) and lit, a literal.  node.from is Pos, node.to is End.       *)
(***************************************************************************)
RECURSIVE Layout(_, _), LayoutArgs(_, _)
LayoutArgs(args, p) ==
  IF args = <<>> THEN <<>>
  ELSE LET a == Layout(Head(args), p) IN <<a>> \o LayoutArgs(Tail(args), a.to + 1)
Layout(t, p) ==
  LET first == Layout(t.kids[1], p)
      rest == LayoutArgs(Tail(t.kids), first.to + 1)
      to == IF rest = <<>> THEN first.to + 1 ELSE Last(rest).to
  IN CASE t.kids = <<>> -> [op |-> t.op, kids |-> <<>>, from |-> p, to |-> p + 1]
       [] t.kids # <<>> /\ t.op = "sel" -> [op |-> "sel", kids |-> <<first>> \o rest, from |-> p, to |-> to]
       [] OTHER -> [op |-> "call", kids |-> <<first>> \o rest, from |-> p, to |-> to + 1]
Lparen(call) == call.kids[1].to
Rparen(call) == call.to - 1

NotFound == [op |-> "none", kids |-> <<>>, from |-> 0, to |-> 0]
RECURSIVE FindIdent(_, _), FindFirst(_, _)
FindFirst(nodes, pos) ==
  IF nodes = <<>> THEN NotFound
  ELSE LET id == FindIdent(Head(nodes), pos) IN
       IF id # NotFound THEN id ELSE FindFirst(Tail(nodes), pos)

(* findIdentVisitor: the identifier at pos, or else, in the arguments of a *)
(* call, the name of the function.                                         *)
FindIdent(n, pos) ==
  LET inner == FindFirst(n.kids, pos)
      fun == IF n.kids[1].op = "sel" THEN n.kids[1].kids[2] ELSE n.kids[1]
  IN CASE pos < n.from \/ n.to < pos -> NotFound
       [] n.from <= pos /\ pos <= n.to /\ n.op = "id" -> n
       [] n.from <= pos /\ pos <= n.to /\ n.op = "call" ->
            IF inner # NotFound THEN inner
            ELSE IF Lparen(n) <= pos /\ pos <= Rparen(n) /\ fun.op = "id" THEN fun ELSE NotFound
       [] OTHER -> inner

(* findDotBaseVisitor: the operand of the selector whose dot this is.      *)
RECURSIVE FindDotBase(_, _)
(* Mutant: Pos for End of the operand.                                     *)
FindDotBaseEarly(n, dot) ==
  LET found == {b \in {FindDotBase(n.kids[i], dot) : i \in DOMAIN n.kids} : b # NotFound} IN
  CASE dot < n.from \/ n.to <= dot -> NotFound
    [] n.from <= dot /\ dot < n.to /\ n.op = "sel" /\ n.kids[1].from <= dot /\ dot < n.kids[2].from -> n.kids[1]
    [] OTHER -> IF found = {} THEN NotFound ELSE CHOOSE b \in found : TRUE

FindDotBase(n, dot) ==
  LET found == {b \in {FindDotBase(n.kids[i], dot) : i \in DOMAIN n.kids} : b # NotFound} IN
  CASE dot < n.from \/ n.to <= dot -> NotFound
    [] n.from <= dot /\ dot < n.to /\ n.op = "sel" /\ n.kids[1].to <= dot /\ dot < n.kids[2].from -> n.kids[1]
    [] OTHER -> IF found = {} THEN NotFound ELSE CHOOSE b \in found : TRUE

(***************************************************************************)
(* The range that a candidate replaces is the identifier the cursor is at, *)
(* in the runes of the code as it was sent, whatever keywords were taken   *)
(* out of it and however many bytes its letters have; the place of the     *)
(* cursor where there is none.                                             *)
(***************************************************************************)
RangeIsWord(code, cursor, range) ==
  LET part(s, e) == \A i \in (s + 1) .. e : code[i] \in IdentBytes
      start == LeastOf({s \in 0 .. cursor : part(s, cursor)})
      end == GreatestOf({e \in cursor .. Len(code) : part(cursor, e)})
  IN range = IF start < end /\ code[start + 1] # "1" THEN <<start, end>> ELSE <<cursor, cursor>>

RECURSIVE NodesUnder(_)
NodesUnder(n) == {n} \cup UNION {NodesUnder(n.kids[i]) : i \in DOMAIN n.kids}

(* An inspection is about the identifier the cursor touches, else about    *)
(* the function whose arguments it is among, the innermost with a name.    *)
InspectsNearest(expr, pos, id) ==
  LET nodes == NodesUnder(expr)
      touched == {n \in nodes : n.op = "id" /\ n.from <= pos /\ pos <= n.to}
      name(c) == IF c.kids[1].op = "sel" THEN c.kids[1].kids[2] ELSE c.kids[1]
      around == {c \in nodes : c.op = "call" /\ Lparen(c) <= pos /\ pos <= Rparen(c) /\ name(c).op = "id"}
      innermost == {c \in around : \A d \in around : d.to - Lparen(d) >= c.to - Lparen(c)}
  IN id \in IF touched # {} THEN touched
            ELSE IF around # {} THEN {name(c) : c \in innermost} ELSE {NotFound}

(* After a dot, the members of what stands before that dot are offered.    *)
CompletesThatOperand(expr, dot, base) ==
  LET before == {n.kids[1] : n \in {s \in NodesUnder(expr) : s.op = "sel" /\ s.kids[2].from = dot + 1}}
  IN base \in IF before = {} THEN {NotFound} ELSE before
===============================================================================
