-------------------------------- MODULE Liner --------------------------------
(***************************************************************************)
(* cmd/lgo-internal/liner/liner.go: reading a block line by line until the *)
(* parser finds nothing missing.  A line is the one token that matters:    *)
(* "for" opens a brace and "end" closes one, "x" is an operand and         *)
(* "operator" one that an operator follows, "quote" begins or ends a raw   *)
(* string, "type" and "method" are complete declarations, "error" is no    *)
(* Go, "empty" has no character and "blank" has spaces.                    *)
(***************************************************************************)
EXTENDS Integers, Sequences, FiniteSets

Kinds == {"for", "end", "x", "operator", "quote", "type", "method", "error", "empty", "blank"}
Blank == {"empty", "blank"}

CONSTANTS Lines,       \* what is typed at the prompt
          MaxLines     \* bound: lines of a block

ASSUME LinesAssumption == Lines \subseteq Kinds

(* What reading the lines one after the other makes of start.              *)
ReadAll(step, start, lns) ==
  LET read[i \in 0 .. Len(lns)] == IF i = 0 THEN start ELSE step[lns[i]][read[i - 1]]
  IN read[Len(lns)]

(***************************************************************************)
(* The parser, as far as the liner looks at it: errs are the lines with an *)
(* error, decls the declarations outside of braces.  A closing brace too   *)
(* many ends it without an error (parseLgoStmtList, parser/custom.go).     *)
(***************************************************************************)
ParserStates ==
  [line : Nat, depth : Nat, raw : BOOLEAN, operand : BOOLEAN, over : BOOLEAN, errs : SUBSET Nat,
   decls : SUBSET {"type", "method"}]
Begin == [line |-> 0, depth |-> 0, raw |-> FALSE, operand |-> FALSE, over |-> FALSE,
          errs |-> {}, decls |-> {}]

(* The line t where a statement may begin, or go on after an operator.     *)
Deeper(p, t) == IF t = "for" THEN p.depth + 1
                ELSE IF t = "end" /\ p.depth > 0 THEN p.depth - 1 ELSE p.depth
Misplaced(p, t) == \/ t = "error"
                   \/ p.operand /\ t \in {"for", "end", "type", "method"}
                   \/ t = "method" /\ p.depth > 0
ParseToken(p, t) ==
  [p EXCEPT !.line = @ + 1,
            !.raw = t = "quote",
            !.operand = t = "operator",
            !.depth = Deeper(p, t),
            !.over = t = "end" /\ p.depth = 0 /\ ~Misplaced(p, t),
            !.errs = IF Misplaced(p, t) THEN @ \cup {p.line + 1} ELSE @,
            !.decls = IF t \in {"type", "method"} /\ p.depth = 0 /\ ~Misplaced(p, t) THEN @ \cup {t} ELSE @]
ParseLine ==
  [t \in Kinds |-> [p \in ParserStates |->
     IF p.over \/ t \in Blank \/ (p.raw /\ t # "quote") THEN [p EXCEPT !.line = @ + 1]
     ELSE IF p.raw THEN [p EXCEPT !.line = @ + 1, !.raw = FALSE]
     ELSE ParseToken(p, t)]]
Parse(lns) == ReadAll(ParseLine, Begin, lns)

(* Only the first error of a line is kept (ErrorList.RemoveMultiples).     *)
MissingAtEnd(p) == ~p.over /\ (p.depth > 0 \/ p.operand) /\ p.line \notin p.errs
Errors(p) == p.errs # {} \/ p.raw \/ MissingAtEnd(p)

(* Mutant: a string that is not terminated is any syntax error.            *)
IsUnexpectedEOFStrict(p) == MissingAtEnd(p)

IsUnexpectedEOF(p) == p.raw \/ MissingAtEnd(p)

(* The braces outside of strings that are open, none below zero.           *)
BraceStates == [raw : BOOLEAN, indent : Nat]
ScanLine ==
  [t \in Kinds |-> [s \in BraceStates |->
     IF t = "quote" THEN [s EXCEPT !.raw = (@ = FALSE)]
     ELSE IF t = "for" /\ ~s.raw THEN [s EXCEPT !.indent = @ + 1]
     ELSE IF t = "end" /\ ~s.raw /\ s.indent > 0 THEN [s EXCEPT !.indent = @ - 1]
     ELSE s]]
Braces(lns) == ReadAll(ScanLine, [raw |-> FALSE, indent |-> 0], lns)
NextIndent(lns) == Braces(lns).indent

KeepLine == [t \in Kinds |-> [r \in Seq(Kinds) |-> IF t = "empty" THEN r ELSE Append(r, t)]]
DropEmptyLine(lns) == ReadAll(KeepLine, <<>>, lns)
HasTypeOrMethodDecl(p) == p.decls # {}

(* After a type or a method, methods may follow until a blank line.        *)
ContinueForMethods(p, lns) ==
  [cont |-> lns # <<>> /\ HasTypeOrMethodDecl(p) /\ lns[Len(lns)] \notin Blank, indent |-> 0]

ContinueLine(lns) ==
  LET dropped == DropEmptyLine(lns)  p == Parse(dropped) IN
  IF ~Errors(p) \/ ~IsUnexpectedEOF(p) THEN ContinueForMethods(p, lns)
  ELSE [cont |-> TRUE, indent |-> NextIndent(dropped)]

(***************************************************************************)
(* Next: lines are read until one completes the block, which is returned;  *)
(* Ctrl-D returns an empty block, or the end of the input.                 *)
(***************************************************************************)
VARIABLES lines,      \* l.lines
          indent,     \* the indentation of the prompt
          returned    \* what Next returned last

linerVars == <<lines, indent, returned>>
Nothing == [is |-> "nothing", lines |-> <<>>]
Content(lns) == [is |-> "content", lines |-> lns]
EOF == [is |-> "EOF", lines |-> <<>>]

LinerInit == lines = <<>> /\ indent = 0 /\ returned = Nothing

PromptReturns(line) ==
  LET next == ContinueLine(Append(lines, line)) IN
  /\ lines' = Append(lines, line)
  /\ indent' = next.indent
  /\ returned' = IF next.cont THEN Nothing ELSE Content(lines')

CtrlD == /\ lines' = lines /\ indent' = indent
         /\ returned' = IF lines = <<>> THEN EOF ELSE Content(<<>>)

LinerNext == /\ returned = Nothing
             /\ \/ Len(lines) < MaxLines /\ \E line \in Lines : PromptReturns(line)
                \/ CtrlD
LinerSpec == LinerInit /\ [][LinerNext]_linerVars

(***************************************************************************)
(* What the user types, read without the parser: in the first n lines, how *)
(* many strings begin or end, braces open and close, and whether an        *)
(* operator has no operand yet.                                            *)
(***************************************************************************)
Ticks(lns, n) == Cardinality({i \in 1 .. n : lns[i] = "quote"})
Outside(lns, i) == Ticks(lns, i - 1) % 2 = 0
Opened(lns, n) == Cardinality({i \in 1 .. n : lns[i] = "for" /\ Outside(lns, i)})
Shut(lns, n) == Cardinality({i \in 1 .. n : lns[i] = "end" /\ Outside(lns, i)})
Dangling(lns, n) == \E i \in 1 .. n : lns[i] = "operator" /\ \A j \in i + 1 .. n : lns[j] \in Blank

(* What Go allows: no brace closes what is not open, an operator is        *)
(* followed by an operand, methods are not nested.                         *)
Allowed(lns) ==
  \A i \in 1 .. Len(lns) : Outside(lns, i) =>
    /\ lns[i] # "error"
    /\ lns[i] \in {"for", "end", "type", "method"} => ~Dangling(lns, i - 1)
    /\ lns[i] = "method" => Opened(lns, i - 1) = Shut(lns, i - 1)
    /\ lns[i] = "end" => Opened(lns, i - 1) > Shut(lns, i - 1)

Open(lns) == \/ Ticks(lns, Len(lns)) % 2 = 1
             \/ Opened(lns, Len(lns)) > Shut(lns, Len(lns))
             \/ Dangling(lns, Len(lns))
Declares(lns) == \E i \in 1 .. Len(lns) : /\ lns[i] \in {"type", "method"} /\ Outside(lns, i)
                                          /\ Opened(lns, i - 1) = Shut(lns, i - 1)
Waits(lns) == Open(lns) \/ (Declares(lns) /\ lns[Len(lns)] \notin Blank)

(* The block ends with the first line at which nothing is open, but with   *)
(* a blank line once it declares a type or a method: no block is cut short *)
(* and no finished block waits.                                            *)
EndsWhenComplete ==
  Allowed(lines) /\ lines # <<>> /\ returned \notin {EOF, Content(<<>>)} =>
    returned = IF Waits(lines) THEN Nothing ELSE Content(lines)

(* The prompt is indented as deep as the braces are.                       *)
IndentMatches ==
  returned = Nothing /\ Allowed(lines) =>
    indent = Opened(lines, Len(lines)) - Shut(lines, Len(lines))

(* cmd/lgo-internal/liner, Next: a block that Go allows ends with the line *)
(* that completes it, and until then the prompt is indented as deep as     *)
(* braces are open.                                                        *)
LinesContinued == EndsWhenComplete /\ IndentMatches
===============================================================================
