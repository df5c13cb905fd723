----------------------------- MODULE Candidates -----------------------------
(***************************************************************************)
(* What completion offers (converter/complete.go): the names of the scopes *)
(* around the cursor, found by findNearestScope and collected from there   *)
(* outwards by listCandidatesFromScope, one action per call; or, after a   *)
(* dot, the fields and methods of a type and of what it embeds, found by   *)
(* scanFieldOrMethod breadth first, one action per depth.                  *)
(*                                                                         *)
(* A tree of scopes is numbered in the order of the source, outer scopes   *)
(* first:  around[s], the scopes around s and s itself;  range[s], from    *)
(* where to where it extends in the source, with 0 for token.NoPos;        *)
(* names[s], from where on each of its names is visible;  pkg, the scope   *)
(* of the package;  init, that of lgo_init, or 0 when completion does not  *)
(* look there (in function bodies).                                        *)
(*                                                                         *)
(* types gives every named type its kind, its fields and methods, what it  *)
(* embeds, by value or by pointer, and what it points to.                  *)
(***************************************************************************)
EXTENDS Integers, FiniteSets

CONSTANTS ScopeTrees, TypeGraphs,
          Places,        \* where the word at the cursor may begin
          Fits           \* sets of names: what is exported, or begins as the word does

VARIABLES query,         \* what was asked
          scope,         \* s of listCandidatesFromScope
          current, seen, \* types, in scanFieldOrMethod
          candidates     \* what add was called with

candidatesVars == <<query, scope, current, seen, candidates>>

Ranged(tree, s) == tree.range[s][1] # 0 /\ tree.range[s][2] # 0
Covers(tree, s, pos) == tree.range[s][1] <= pos /\ pos < tree.range[s][2]

(* go/types: scopes nest, and those side by side do not overlap.           *)
TreeOK(tree) ==
  LET scopes == DOMAIN tree.around IN
  /\ IsFiniteSet(scopes) /\ scopes = 1 .. Cardinality(scopes)
  /\ tree.pkg \in scopes /\ tree.init \in scopes \cup {0}
  /\ \A s \in scopes :
       /\ s \in tree.around[s] /\ tree.around[s] \subseteq 1 .. s
       /\ tree.range[s][1] \in Nat /\ tree.range[s][2] \in Nat
       /\ \A t \in tree.around[s] : tree.around[t] = tree.around[s] \cap 1 .. t
  /\ \A s, t \in {u \in scopes : Ranged(tree, u)} :
       /\ t \in tree.around[s] => tree.range[t][1] <= tree.range[s][1] /\ tree.range[s][2] <= tree.range[t][2]
       /\ t \notin tree.around[s] /\ s \notin tree.around[t] =>
            tree.range[s][2] <= tree.range[t][1] \/ tree.range[t][2] <= tree.range[s][1]

TypesOK(types) ==
  IsFiniteSet(DOMAIN types) /\
  \A t \in DOMAIN types : /\ types[t].embeds \subseteq DOMAIN types
                          /\ types[t].kind # "struct" => types[t].embeds = {} /\ types[t].fields = {}
                          /\ types[t].kind = "pointer" => types[t].to \in DOMAIN types

ASSUME CandidatesAssumption ==
  /\ Places \subseteq Nat
  /\ \A tree \in ScopeTrees : TreeOK(tree)
  /\ \A types \in TypeGraphs : TypesOK(types)

(***************************************************************************)
(* Names.                                                                  *)
(***************************************************************************)
LeastOf(S) == CHOOSE x \in S : \A y \in S : x <= y
GreatestOf(S) == CHOOSE x \in S : \A y \in S : y <= x
Around(tree, s) == IF s = 0 THEN {} ELSE tree.around[s]
Parent(tree, s) == GreatestOf((tree.around[s] \ {s}) \cup {0})
Children(tree, s) == {c \in DOMAIN tree.around : Parent(tree, c) = s}

FindNearestScope(tree, pos) ==
  LET nearest[s \in DOMAIN tree.around] ==
        LET found == {c \in Children(tree, s) : nearest[c] # 0} IN
        IF Ranged(tree, s) /\ ~Covers(tree, s, pos) THEN 0
        ELSE IF found # {} THEN nearest[LeastOf(found)]
        ELSE IF Ranged(tree, s) THEN s ELSE 0
  IN nearest[tree.pkg]

(* Scope.LookupParent: the name is visible, here or further outside.       *)
LookupParent(tree, s, n, pos) ==
  \E t \in Around(tree, s) : n \in DOMAIN tree.names[t] /\ tree.names[t][n] <= pos

CompleteName ==
  /\ query.about = "nothing"
  /\ \E tree \in ScopeTrees, pos \in Places, fits \in Fits :
       /\ query' = [about |-> "name", tree |-> tree, pos |-> pos, fits |-> fits]
       /\ scope' = IF FindNearestScope(tree, pos) # 0 THEN FindNearestScope(tree, pos) ELSE tree.init
  /\ UNCHANGED <<current, seen, candidates>>

ListCandidatesFromScope ==
  /\ scope # 0
  /\ LET tree == query.tree IN
     /\ candidates' = candidates \cup
          {n \in DOMAIN tree.names[scope] \cap query.fits : LookupParent(tree, scope, n, query.pos)}
     /\ scope' = Parent(tree, scope)
  /\ UNCHANGED <<query, current, seen>>

(***************************************************************************)
(* Members.  The type of the operand is a named one or a pointer to it; a  *)
(* named type that is a pointer itself has the fields of what it points to *)
(* and no methods.                                                         *)
(***************************************************************************)
IgnoreMethod(types, pointer, t) == ~pointer /\ types[t].kind = "pointer"
Deref(types, pointer, t) == IF IgnoreMethod(types, pointer, t) THEN types[t].to ELSE t

ScanFieldOrMethod ==
  /\ query.about = "nothing"
  /\ \E types \in TypeGraphs, pointer \in BOOLEAN, fits \in Fits : \E t \in DOMAIN types :
       LET base == Deref(types, pointer, t)  isPtr == pointer \/ IgnoreMethod(types, pointer, t) IN
       /\ query' = [about |-> "member", types |-> types, pointer |-> pointer, type |-> t, fits |-> fits]
       /\ current' = IF isPtr /\ types[base].kind = "interface" THEN {} ELSE {base}
  /\ UNCHANGED <<scope, seen, candidates>>

Offered(types, ignoreMethod, t) ==
  CASE types[t].kind = "struct" ->
         types[t].fields \cup types[t].embeds \cup (IF ignoreMethod THEN {} ELSE types[t].methods)
    [] types[t].kind = "interface" -> types[t].methods
    [] OTHER -> IF ignoreMethod THEN {} ELSE types[t].methods
(* Mutant: embedded types are offered, what they bring along is not.       *)
EmbedsNothing(types, level) == {}

Embeds(types, level) == UNION {types[t].embeds : t \in {u \in level : types[u].kind = "struct"}}

ScanDepth ==
  /\ current # {}
  /\ LET types == query.types
         level == current \ seen
         ignoreMethod == IgnoreMethod(types, query.pointer, query.type)
     IN /\ seen' = seen \cup level
        /\ candidates' = candidates \cup (query.fits \cap UNION {Offered(types, ignoreMethod, t) : t \in level})
        /\ current' = Embeds(types, level)
  /\ UNCHANGED <<query, scope>>

CandidatesInit == query = [about |-> "nothing"] /\ scope = 0 /\ current = {} /\ seen = {} /\ candidates = {}
CandidatesNext == CompleteName \/ ListCandidatesFromScope \/ ScanFieldOrMethod \/ ScanDepth
CandidatesSpec == CandidatesInit /\ [][CandidatesNext]_candidatesVars

(***************************************************************************)
(* What should be offered, stated without searching.                       *)
(***************************************************************************)
Answered(about) == query.about = about /\ scope = 0 /\ current = {}

(* The scopes around the cursor; those around the body of lgo_init when it *)
(* is in no other.                                                         *)
Surrounding(tree, pos) ==
  LET holding == {s \in DOMAIN tree.around : tree.pkg \in tree.around[s] /\ Ranged(tree, s) /\ Covers(tree, s, pos)}
  IN IF holding # {} THEN UNION {tree.around[s] : s \in holding} ELSE Around(tree, tree.init)
Denotable(tree, pos) ==
  UNION {{n \in DOMAIN tree.names[s] : tree.names[s][n] <= pos} : s \in Surrounding(tree, pos)}

(* Paths of embedded types; Go selects a name at the least depth where it  *)
(* is found, if only one path leads to it there.                           *)
Paths(types, base, depth) ==
  {p \in [0 .. depth -> DOMAIN types] : p[0] = base /\ \A i \in 1 .. depth : p[i] \in types[p[i - 1]].embeds}
Selectable(types, pointer, t) ==
  LET base == Deref(types, pointer, t)
      members(u) == types[u].fields \cup types[u].embeds
                      \cup (IF IgnoreMethod(types, pointer, t) THEN {} ELSE types[u].methods)
      leading(n, depth) == {p \in Paths(types, base, depth) : n \in members(p[depth])}
  IN {n \in UNION {members(u) : u \in DOMAIN types} :
        /\ ~(pointer /\ types[base].kind = "interface")
        /\ \E depth \in 0 .. (Cardinality(DOMAIN types) - 1) :
             /\ \E p \in leading(n, depth) : leading(n, depth) = {p}
             /\ \A d \in 0 .. (depth - 1) : leading(n, d) = {}}
(* What some path leads to: the members of the least set of types that has *)
(* the base and what its elements embed.                                   *)
Promoted(types, pointer, t) ==
  LET closed == {S \in SUBSET DOMAIN types :
                   Deref(types, pointer, t) \in S /\ \A u \in S : types[u].embeds \subseteq S}
  IN {n \in UNION {types[u].fields \cup types[u].embeds \cup types[u].methods : u \in DOMAIN types} :
        \A S \in closed : \E u \in S : n \in types[u].fields \cup types[u].embeds \cup types[u].methods}

(* The names offered are exactly those that an identifier at the cursor    *)
(* can denote; every member that Go can select is offered, and nothing is  *)
(* that the type does not have through what it embeds, cycles included.    *)
OffersValid ==
  /\ Answered("name") => candidates = query.fits \cap Denotable(query.tree, query.pos)
  /\ Answered("member") =>
       /\ query.fits \cap Selectable(query.types, query.pointer, query.type) \subseteq candidates
       /\ candidates \subseteq query.fits \cap Promoted(query.types, query.pointer, query.type)
=============================================================================
