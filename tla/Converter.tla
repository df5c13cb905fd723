------------------------------ MODULE Converter ------------------------------
(***************************************************************************)
(* converter.Convert: how a block of lgo statements becomes a Go package   *)
(* that shares its names with the packages of the blocks before it.  Of a  *)
(* statement we keep what it declares and the identifiers it uses; the     *)
(* type checker (vendor/go/types) is external and modelled by its scopes.  *)
(*                                                                         *)
(* A name is a tuple, so that generated names differ from the others.  A   *)
(* block is a sequence of statements, and what becomes of a statement is   *)
(* kept under its position there.  A statement is a record:  k, its kind;  *)
(* names, what it declares; uses, the identifiers it mentions, qual        *)
(* meaning that a selector follows; and, where the kind has it,            *)
(*   import  path            var   init (it has values)                    *)
(*   func    locals (what its body declares; the body's uses are uses)     *)
(*   call    values (the expression has results)                           *)
(***************************************************************************)
EXTENDS Integers, Sequences, FiniteSets

CONSTANTS
  Exported,      \* the names that begin with a capital letter
  WithMember     \* the objects whose values have what blocks select from them

BlankName == <<"_">>
LgoInit == <<"lgo_init">>
CtxName == <<"_ctx">>
PkgName(i) == <<"pkg", i>>

None == [is |-> "none"]
Obj(path, name) == [is |-> "object", path |-> path, name |-> name]
Pkg(path) == [is |-> "package", path |-> path]
Ctx == [is |-> "ctx"]
Local == [is |-> "local"]
Exec(n) == <<"exec", n>>                                   \* the packages of blocks
CorePath == <<"core">>

At(b, kinds) == {i \in DOMAIN b : b[i].k \in kinds}
Names(s) == {s.names[j] : j \in DOMAIN s.names} \ {BlankName}
Declared(b, at) == UNION {Names(b[i]) : i \in at}
InitKinds == {"const", "var", "define", "assign", "value", "call"}
ImportsOf(b) == {[name |-> b[i].names[1], path |-> b[i].path] : i \in At(b, {"import"})}

(***************************************************************************)
(* types.NewPackageWithOldValues and injectLgoContext: the scope around    *)
(* the package.  A name that is there already is not inserted again.       *)
(***************************************************************************)
OldValue(conf, n) ==
  CASE conf.olds[n] # None -> conf.olds[n]
    [] conf.olds[n] = None /\ conf.oldImports[n] # None -> conf.oldImports[n]
    [] OTHER -> IF n = CtxName THEN Ctx ELSE None
OldNames(conf) == {n \in DOMAIN conf.olds : OldValue(conf, n) # None}

(* A name in a body with these locals, over a package and a file scope.    *)
Resolve(n, locals, top, imports, conf) ==
  CASE n \in locals -> Local
    [] n \in top \ locals -> Obj(conf.path, n)
    [] n \notin locals \cup top /\ \E im \in imports : im.name = n ->
         Pkg((CHOOSE im \in imports : im.name = n).path)
    [] OTHER -> OldValue(conf, n)

(* A package only with a selector; a selector on a package, and on what    *)
(* has the member.                                                         *)
Sound(use, obj) == /\ obj # None
                   /\ obj.is = "package" => use.qual
                   /\ use.qual /\ obj.is = "object" => obj \in WithMember

(***************************************************************************)
(* convertToPhase1: imports, types and functions stay declarations, the    *)
(* rest is the body of lgo_init.  What the i-th statement sees of it: the  *)
(* names declared before are the block's variables to be, the other names  *)
(* are as in any function.                                                 *)
(***************************************************************************)
Before(b, i) == IF b[i].k = "type" THEN {}
                ELSE Declared(b, At(b, {"const", "var", "define"}) \cap 1 .. (i - 1))
New(b, i) == {j \in DOMAIN b[i].names : b[i].names[j] \notin Before(b, i) \cup {BlankName}}
Top1(b) == Declared(b, At(b, {"type", "func"})) \cup {LgoInit}
Meaning1(b, i, n, conf) ==
  IF n \in Before(b, i) THEN Obj(conf.path, n)
  ELSE Resolve(n, {}, Top1(b), ImportsOf(b), conf)

(* The first check looks into lgo_init but not into other functions.       *)
Check1(b, conf) ==
  LET decls == At(b, {"import", "type", "func"}) IN
  /\ LgoInit \notin Declared(b, decls)
  /\ \A i, j \in decls : i # j => Names(b[i]) \cap Names(b[j]) = {}
  /\ \A i \in At(b, {"const", "var"}) : Names(b[i]) \cap Before(b, i) = {}
  /\ \A i \in At(b, {"define"}) : /\ New(b, i) # {}
                                  /\ Names(b[i]) \cap Declared(b, At(b, {"const"}) \cap 1 .. (i - 1)) = {}
  /\ \A i \in At(b, {"value"}) : \A j \in At(b, InitKinds) : j <= i     \* used as it is printed
  /\ \A i \in At(b, InitKinds \cup {"type"}) : \A j \in DOMAIN b[i].uses :
       Sound(b[i].uses[j], Meaning1(b, i, b[i].uses[j].name, conf))

(***************************************************************************)
(* importManager: the short name of a package is the one the file imports  *)
(* it by, or else the first pkg<n> that is neither taken nor given, which  *)
(* is then imported.  The packages of a set are given names in some order. *)
(***************************************************************************)
(* Mutant: the names that are taken are not avoided.                       *)
NewImportManagerBlind(imports, taken) == [names |-> imports, injected |-> {}, taken |-> {}]

NewImportManager(imports, taken) == [names |-> imports, injected |-> {}, taken |-> taken]
NamesPkg(m, path) == \E im \in m.names : im.path = path
ShortName(m, path) == (CHOOSE im \in m.names : im.path = path).name
FreeNumber(taken) ==
  CHOOSE i \in 0 .. Cardinality(taken) :
    PkgName(i) \notin taken /\ \A j \in 0 .. (i - 1) : PkgName(j) \in taken
Demand(m, path) ==
  IF NamesPkg(m, path) THEN m
  ELSE LET im == [name |-> PkgName(FreeNumber(m.taken)), path |-> path]
       IN [names |-> m.names \cup {im}, injected |-> m.injected \cup {im}, taken |-> m.taken \cup {im.name}]

Listing(set) ==
  CHOOSE s \in [1 .. Cardinality(set) -> set] :
    \A x \in set : \E i \in DOMAIN s : \A j \in DOMAIN s : s[j] = x <=> j = i
DemandAll(m, paths) ==
  LET list == Listing(paths)
      after[i \in 0 .. Cardinality(paths)] == IF i = 0 THEN m ELSE Demand(after[i - 1], list[i])
  IN after[Cardinality(paths)]

(***************************************************************************)
(* prependPkgToOlds: a use of an old value becomes pkg.name, unless it is  *)
(* qualified already.  A use in the output is its text: q, the qualifier,  *)
(* name, and obj, what the checker says it refers to.                      *)
(***************************************************************************)
Unqualified == <<>>
IsOld(obj, conf) == obj.is = "object" /\ obj.path # conf.path
Text(u, obj) == [q |-> Unqualified, name |-> u.name, qual |-> u.qual, obj |-> obj, prefix |-> FALSE]
Prepend(m, t, conf) ==
  IF IsOld(t.obj, conf) /\ t.q = Unqualified THEN [t EXCEPT !.q = ShortName(m, t.obj.path)] ELSE t
TextsOf(texts) == UNION {{texts[i][j] : j \in DOMAIN texts[i]} : i \in DOMAIN texts}
OldPaths(texts, conf) ==
  {t.obj.path : t \in {u \in TextsOf(texts) : IsOld(u.obj, conf) /\ u.q = Unqualified}}
Qualify(m, texts, conf) ==
  [i \in DOMAIN texts |-> [j \in DOMAIN texts[i] |-> Prepend(m, texts[i][j], conf)]]

(***************************************************************************)
(* convertToPhase2: the variables move to the package, their definitions   *)
(* become assignments, constants move too; the last expression is printed, *)
(* and the variables are registered before anything else runs.             *)
(***************************************************************************)
(* <<i, j>>: the j-th name of the i-th statement is a variable's.          *)
VarSpecs(b) ==
  UNION {{i} \X (IF b[i].k = "var" THEN DOMAIN b[i].names ELSE New(b, i)) : i \in At(b, {"var", "define"})}
Printed(b) == {i \in At(b, {"value", "call"}) : /\ b[i].k = "call" => b[i].values
                                                /\ \A j \in At(b, InitKinds) : j <= i}
UsesCore(b) == VarSpecs(b) # {} \/ Printed(b) # {}

InOrder(set) ==
  CHOOSE s \in [1 .. Cardinality(set) -> set] :
    (\A i, j \in DOMAIN s : i < j => s[i] < s[j]) /\ \A x \in set : \E i \in DOMAIN s : s[i] = x
Stays(b) == {i \in At(b, InitKinds \ {"const"}) : b[i].k = "var" => b[i].init}
HasInit(b) == VarSpecs(b) # {} \/ Stays(b) # {}
(* The body of lgo_init: newInitBody = append(registers, newInitBody...).  *)
InitBody(registers, statements) == registers \o statements
Step(b, i) == [k |-> IF i \in Printed(b) THEN "print" ELSE "statement", at |-> <<i, 0>>]
Register(spec) == [k |-> "register", at |-> spec]
LgoInitBody(b) ==
  LET specs == Listing(VarSpecs(b))  stays == InOrder(Stays(b))
  IN InitBody([r \in 1 .. Cardinality(VarSpecs(b)) |-> Register(specs[r])],
              [r \in 1 .. Cardinality(Stays(b)) |-> Step(b, stays[r])])

(* Bodies of functions have not been checked yet: their uses stay.         *)
Texted(b) == DOMAIN b \ At(b, {"import"})
Phase1Texts(b, conf) ==
  [i \in Texted(b) |-> [j \in DOMAIN b[i].uses |->
     Text(b[i].uses[j], IF b[i].k = "func" THEN None ELSE Meaning1(b, i, b[i].uses[j].name, conf))]]
Phase2(b, conf) ==
  LET imports == ImportsOf(b)
      outer == {im.name : im \in imports} \cup Top1(b) \cup OldNames(conf)
      texts == Phase1Texts(b, conf)
      m1 == DemandAll(NewImportManager(imports, outer), OldPaths(texts, conf))
      m == IF UsesCore(b) THEN Demand(m1, CorePath) ELSE m1
  IN [imports |-> imports \cup m.injected, texts |-> Qualify(m, texts, conf)]

(***************************************************************************)
(* checkFileInPhase2: now every name of the block is the package's.  What  *)
(* the checker makes of a text, in a function with these locals.           *)
(***************************************************************************)
Definitions(b) ==
  VarSpecs(b) \cup
    UNION {{i} \X {j \in DOMAIN b[i].names : b[i].names[j] # BlankName} : i \in At(b, {"type", "func", "const"})}
NameAt(b, d) == b[d[1]].names[d[2]]
Top2(b) == ({NameAt(b, d) : d \in Definitions(b)} \ {BlankName})
             \cup (IF HasInit(b) THEN {LgoInit} ELSE {})
Locals(b, i) == IF b[i].k = "func" THEN b[i].locals ELSE {}
Meaning2(b, file, locals, n, conf) == Resolve(n, locals, Top2(b), file.imports, conf)
Recheck(b, file, locals, t, conf) ==
  IF t.q = Unqualified THEN [t EXCEPT !.obj = Meaning2(b, file, locals, t.name, conf)]
  ELSE IF Meaning2(b, file, locals, t.q, conf) = Pkg(t.obj.path) THEN t ELSE [t EXCEPT !.obj = None]
Rechecked(b, file, conf) ==
  [i \in DOMAIN file.texts |-> [j \in DOMAIN file.texts[i] |->
     Recheck(b, file, Locals(b, i), file.texts[i][j], conf)]]

Check2(b, file, conf) ==
  /\ \A d, e \in Definitions(b) : NameAt(b, d) = NameAt(b, e) => d = e
  /\ HasInit(b) => \A d \in Definitions(b) : NameAt(b, d) # LgoInit
  /\ {im.name : im \in file.imports} \cap Top2(b) = {}
  /\ \A a, c \in file.imports : a.name = c.name => a = c
  /\ \A d \in VarSpecs(b) : NameAt(b, d) # BlankName            \* &_ is not an expression
  /\ \A t \in TextsOf(Rechecked(b, file, conf)) : Sound(t, t.obj)

(***************************************************************************)
(* finalCheckAndRename: the bodies of functions are qualified too, what    *)
(* the package shares is renamed where it is defined and where it is used, *)
(* unused imports become blank and used imports of the session are added.  *)
(***************************************************************************)
DefPrefix(n) == n \notin Exported \cup {LgoInit}
RefPrefix(t) == t.obj.is = "object" /\ t.name \notin Exported
(* Mutant: a use that was qualified keeps the name it had.                 *)
RenameOwn(t) == [t EXCEPT !.prefix = RefPrefix(t) /\ t.q = Unqualified]

Rename(t) == [t EXCEPT !.prefix = RefPrefix(t)]

(* What the checker saw used: plain selectors on packages and pkg<n>.name. *)
UsedNames(b, file, texts) ==
  {t.name : t \in {u \in texts : u.obj.is = "package"}} \cup {t.q : t \in texts}
    \cup {im.name : im \in {j \in file.imports : j.path = CorePath /\ UsesCore(b)}}
SessionImports(file, texts) ==
  {[name |-> t.name, path |-> t.obj.path] :
     t \in {u \in texts : u.obj.is = "package" /\ u.name \notin {im.name : im \in file.imports}}}
Stops(b, texts) == At(b, {"func"}) # {} \/ HasInit(b) \/ \E t \in texts : t.obj = Ctx

FinalManager(b, file, texts, conf) ==
  LET outer == {im.name : im \in file.imports} \cup Top2(b) \cup OldNames(conf)
      m1 == DemandAll(NewImportManager(file.imports, outer), OldPaths(texts, conf))
  IN IF Stops(b, TextsOf(texts)) THEN Demand(m1, CorePath) ELSE m1

Final(b, file, conf) ==
  LET texts == Rechecked(b, file, conf)
      m == FinalManager(b, file, texts, conf)
      qualified == Qualify(m, texts, conf)
      blank(im) == IF im.name \in UsedNames(b, file, TextsOf(texts)) THEN im ELSE [im EXCEPT !.name = BlankName]
  IN [path |-> conf.path,
      imports |-> m.injected \cup SessionImports(file, TextsOf(texts)) \cup {blank(im) : im \in file.imports},
      defs |-> {[name |-> n, prefix |-> DefPrefix(n)] : n \in Top2(b)},
      core |-> IF Stops(b, TextsOf(texts)) THEN ShortName(m, CorePath) ELSE Unqualified,
      texts |-> [i \in DOMAIN texts |-> [j \in DOMAIN texts[i] |-> Rename(qualified[i][j])]],
      init |-> LgoInitBody(b)]

(* What Convert returns for a block: an error, or the source of a package, *)
(* the names it defines and the packages the block imports.                *)
Failed == [err |-> TRUE]
Convert(b, conf) ==
  LET file == Phase2(b, conf) IN
  IF ~Check1(b, conf) THEN Failed
  ELSE IF ~Check2(b, file, conf) THEN Failed
  ELSE [err |-> FALSE, scope |-> Top2(b), imports |-> ImportsOf(b), src |-> Final(b, file, conf)]
===============================================================================
