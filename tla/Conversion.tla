----------------------------- MODULE Conversion -----------------------------
(***************************************************************************)
(* A session of blocks through the converter: the runner keeps the names   *)
(* and the imports of the blocks that were accepted (LgoRunner.vars and    *)
(* .imports, cmd/runner/runner.go) and gives them to the next conversion.  *)
(***************************************************************************)
EXTENDS Converter

CONSTANTS Identifiers,     \* the names blocks declare and use
          FirstBlocks,     \* what the session may begin with
          Blocks,          \* what it may go on with
          MaxBlocks        \* how many blocks it may have

VARIABLES vars,            \* rn.vars: what the session declared last under a name
          imports,         \* rn.imports: the package imported last under a name
          history          \* of every Run so far: the block, and what Convert returned

conversionVars == <<vars, imports, history>>
AllNames == Identifiers \cup {LgoInit, CtxName}

(* Blocks that the theorems are about: lgo_init and _ctx are not declared, *)
(* neither core nor the packages of blocks are imported by hand, and names *)
(* of the form pkg<n> do not occur in functions, where they would capture  *)
(* the qualifiers that the converter inserts.                              *)
Numbered(n) == n[1] = "pkg"
StatementOK(s) ==
  /\ s.k \in InitKinds \cup {"import", "type", "func"}
  /\ Len(s.names) \in Nat /\ DOMAIN s.names = 1 .. Len(s.names)
  /\ \A j \in DOMAIN s.names : s.names[j] \in Identifiers \cup {BlankName}
  /\ \A j \in DOMAIN s.uses : s.uses[j].name \in Identifiers \cup {CtxName} /\ s.uses[j].qual \in BOOLEAN
  /\ s.k = "import" => /\ DOMAIN s.names = {1} /\ s.names[1] # BlankName
                       /\ s.path # CorePath /\ \A i \in 1 .. MaxBlocks : s.path # Exec(i)
  /\ s.k = "func" => /\ s.locals \subseteq Identifiers /\ \A n \in s.locals : ~Numbered(n)
                     /\ \A j \in DOMAIN s.uses : ~Numbered(s.uses[j].name)
BlockOK(b) == Len(b) \in Nat /\ DOMAIN b = 1 .. Len(b) /\ \A i \in DOMAIN b : StatementOK(b[i])

ASSUME SessionAssumption ==
  /\ IsFiniteSet(Identifiers) /\ {Unqualified, BlankName, LgoInit, CtxName} \cap Identifiers = {}
  /\ MaxBlocks \in Nat
  /\ \A b \in FirstBlocks \cup Blocks : BlockOK(b)

ConversionInit ==
  /\ vars = [n \in AllNames |-> None]
  /\ imports = [n \in AllNames |-> None]
  /\ history = <<>>

Run(b) ==
  LET conf == [path |-> Exec(Len(history) + 1), olds |-> vars, oldImports |-> imports]
      result == Convert(b, conf)
  IN /\ history' = Append(history, [block |-> b, conf |-> conf, result |-> result])
     /\ IF result.err THEN UNCHANGED <<vars, imports>>
        ELSE /\ vars' = [n \in AllNames |-> IF n \in result.scope THEN Obj(conf.path, n) ELSE vars[n]]
             /\ imports' = [n \in AllNames |->
                  IF \E im \in result.imports : im.name = n
                  THEN Pkg((CHOOSE im \in result.imports : im.name = n).path) ELSE imports[n]]

ConversionNext ==
  /\ Len(history) < MaxBlocks
  /\ \E b \in IF history = <<>> THEN FirstBlocks ELSE Blocks : Run(b)
ConversionSpec == ConversionInit /\ [][ConversionNext]_conversionVars

(***************************************************************************)
(* What the author of a block means.  In the statements that run, a name   *)
(* is what the block declared above it; in a function, what the block      *)
(* declares anywhere; then a package the block imports; and else what the  *)
(* session declared last, or else imported last, under that name.          *)
(***************************************************************************)
Accepted(k) == ~history[k].result.err
NewScope(b) == Declared(b, At(b, {"const", "var", "define", "type", "func"}))
Latest(S) == CHOOSE j \in S : \A i \in S : i <= j
DeclaredBefore(k, n) == {j \in 1 .. (k - 1) : Accepted(j) /\ n \in NewScope(history[j].block)}
ImportedBefore(k, n) == {j \in 1 .. (k - 1) : Accepted(j) /\ \E im \in ImportsOf(history[j].block) : im.name = n}
PathOf(b, n) == (CHOOSE im \in ImportsOf(b) : im.name = n).path

Means(k, n, locals, above) ==
  LET b == history[k].block IN
  CASE n \in locals -> Local
    [] n \in above \ locals -> Obj(Exec(k), n)
    [] n \notin locals \cup above /\ \E im \in ImportsOf(b) : im.name = n -> Pkg(PathOf(b, n))
    [] OTHER -> IF DeclaredBefore(k, n) # {} THEN Obj(Exec(Latest(DeclaredBefore(k, n))), n)
                ELSE IF ImportedBefore(k, n) # {}
                     THEN Pkg(PathOf(history[Latest(ImportedBefore(k, n))].block, n))
                ELSE IF n = CtxName THEN Ctx ELSE None

Above(b, i) ==
  CASE b[i].k = "func" -> NewScope(b)
    [] b[i].k = "type" -> Declared(b, At(b, {"type", "func"}))
    [] OTHER -> Before(b, i) \cup Declared(b, At(b, {"type", "func"}))
Meant(k, i) ==
  LET b == history[k].block
  IN [j \in DOMAIN b[i].uses |-> Means(k, b[i].uses[j].name, Locals(b, i), Above(b, i))]

(* What the text of the source denotes to the Go compiler, which sees the  *)
(* packages of the session under the names their sources define.           *)
PackageOf(src, name) == {im \in src.imports : im.name = name}
Member(path, id) ==
  IF \E j \in DOMAIN history : Accepted(j) /\ path = Exec(j) /\ id \in history[j].result.src.defs
  THEN Obj(path, id.name) ELSE None
Denotes(src, locals, t) ==
  LET id == [name |-> t.name, prefix |-> t.prefix]
      im == PackageOf(src, IF t.q # Unqualified THEN t.q ELSE t.name)
  IN CASE t.obj = Ctx -> IF PackageOf(src, src.core) # {} /\ src.core \notin locals THEN Ctx ELSE None
       [] t.obj # Ctx /\ t.q # Unqualified ->
            IF t.q \in locals \/ im = {} THEN None ELSE Member((CHOOSE p \in im : TRUE).path, id)
       [] t.obj # Ctx /\ t.q = Unqualified /\ t.name \in locals /\ ~t.prefix -> Local
       [] t.obj # Ctx /\ t.q = Unqualified /\ (t.name \notin locals \/ t.prefix) /\ id \in src.defs ->
            Obj(src.path, t.name)
       [] OTHER -> IF im # {} THEN Pkg((CHOOSE p \in im : TRUE).path) ELSE None

(* The one way to lose a meaning.  Old values are qualified before the     *)
(* variables of the block move to the package, but packages that only the  *)
(* session imports are not: with rand imported by an earlier block,        *)
(*   rand.Intn(3); rand := T{}                                             *)
(* is accepted if T has a method Intn, and both rand are then the variable *)
(* (prependPkgToOlds, convertToPhase2).                                    *)
Captured(k, i, j) ==
  LET b == history[k].block IN Meant(k, i)[j].is = "package" /\ b[i].uses[j].name \in NewScope(b)
Understood(k, i) ==
  [j \in DOMAIN Meant(k, i) |->
     IF Captured(k, i, j) THEN Obj(Exec(k), history[k].block[i].uses[j].name) ELSE Meant(k, i)[j]]

(* Every name in the source of a block denotes what its author meant, but  *)
(* for the names of packages that are captured as above: variables are     *)
(* hoisted out of the sequence that gave them their scope, old values are  *)
(* qualified and renamed in two passes, in another package than the one    *)
(* they are defined in (convertToPhase2, prependPkgToOlds,                 *)
(* finalCheckAndRename).                                                   *)
MeaningKept ==
  \A k \in DOMAIN history : Accepted(k) =>
    LET b == history[k].block  src == history[k].result.src IN
    \A i \in DOMAIN b \ At(b, {"import"}) :
      Understood(k, i) = [j \in DOMAIN src.texts[i] |-> Denotes(src, Locals(b, i), src.texts[i][j])]

(* The source is a package the Go compiler takes: one import per name, no  *)
(* import and definition of one name, every qualifier imported, no named   *)
(* import unused (importManager, the renaming of unused imports).          *)
Qualifiers(src) ==
  LET texts == TextsOf(src.texts)
  IN {t.q : t \in texts} \cup {t.name : t \in {u \in texts : u.obj.is = "package"}} \cup {src.core}
ImportsFit(src) ==
  LET named == {im \in src.imports : im.name # BlankName}
      used == Qualifiers(src) \ {Unqualified}
  IN /\ \A a, c \in named : a.name = c.name => a = c
     /\ \A im \in named : [name |-> im.name, prefix |-> FALSE] \notin src.defs /\ im.name \in used
     /\ used \subseteq {im.name : im \in named}
ValidSource == \A k \in DOMAIN history : Accepted(k) => ImportsFit(history[k].result.src)

(* Every new variable of a block is registered once, before the first of   *)
(* its statements runs, and the statements keep their order; the value of  *)
(* a last expression is printed.                                           *)
Registers(init) == {r \in DOMAIN init : init[r].k = "register"}
Others(init) == DOMAIN init \ Registers(init)
RegisteredOnce(b, init) ==
  /\ \A n \in Declared(b, At(b, {"var", "define"})) \cup {NameAt(b, init[r].at) : r \in Registers(init)} :
          \E r \in Registers(init) : \A s \in Registers(init) : NameAt(b, init[s].at) = n <=> s = r
  /\ \A r \in Registers(init), s \in Others(init) : r < s
StatementsInOrder(b, init) ==
  /\ \A r, s \in Others(init) : r < s => init[r].at[1] < init[s].at[1]
  /\ \A i \in At(b, InitKinds \ {"const"}) :
        (b[i].k = "var" => b[i].init) <=> \E r \in Others(init) : init[r].at[1] = i
  /\ \A r \in Others(init) : init[r].k = "print" => r = Len(init)
  /\ \A i \in At(b, {"value"}) : \E r \in Others(init) : init[r].k = "print" /\ init[r].at[1] = i
RegisteredFirst ==
  \A k \in DOMAIN history : Accepted(k) =>
    LET b == history[k].block  init == history[k].result.src.init
    IN RegisteredOnce(b, init) /\ StatementsInOrder(b, init)
PackageSound == ValidSource /\ RegisteredFirst
=============================================================================
