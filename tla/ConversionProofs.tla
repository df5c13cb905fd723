--------------------------- MODULE ConversionProofs ---------------------------
(***************************************************************************)
(* In a session of any number of blocks, of any statements that satisfy    *)
(* SessionAssumption, every name in a converted block denotes what its     *)
(* author meant, but for the packages of the session that a block          *)
(* captures, and the source is a package that Go accepts.                  *)
(*                                                                         *)
(* The argument goes through the converter in its own order. Ref is the    *)
(* reference reading of a use, and Reading what it becomes if variables    *)
(* that move capture it. Checked is a block that both checks have          *)
(* accepted, with the file of the second phase: TextIs says that each of   *)
(* its texts then refers to Reading. Made adds the source: FinalTextIs     *)
(* says how its texts are written, and SourceKeepsMeaning that they denote *)
(* Reading. The invariant of the session, ConversionInv, says that what a  *)
(* conversion is given is what was declared and imported before, and       *)
(* RefIsMeant that Ref is then what the author meant.                      *)
(***************************************************************************)
EXTENDS Conversion, Induction, FiniteSetTheorems, SequenceTheorems, TLAPS

-------------------------------------------------------------------------------
(* Numbers, finite sets and lists: what the operators of Converter choose. *)

\* What a function makes of a finite set is finite.
LEMMA ImageFinite ==
  ASSUME NEW S, IsFiniteSet(S), NEW f, DOMAIN f = S
  PROVE  IsFiniteSet({f[x] : x \in S})
<1> DEFINE T == {f[x] : x \in S}
           g == [x \in S |-> f[x]]
<1>1. g \in Surjection(S, T) BY DEF Surjection
<1>2. QED BY <1>1, FS_Surjection

\* A listing names each element of a finite set once.
Lists(s, S) ==
  /\ s \in [1 .. Cardinality(S) -> S]
  /\ \A x \in S : \E i \in DOMAIN s : \A j \in DOMAIN s : s[j] = x <=> j = i

\* Listing, the order in which DemandAll and LgoInitBody take a set, is one that exists.
LEMMA ListingIs ==
  ASSUME NEW S, IsFiniteSet(S)
  PROVE  Cardinality(S) \in Nat /\ Lists(Listing(S), S)
<1> DEFINE n == Cardinality(S)
<1>1. n \in Nat /\ ExistsBijection(1 .. n, S) BY FS_CardinalityType
<1>2. PICK f : f \in Bijection(1 .. n, S) BY <1>1 DEF ExistsBijection
<1>3. Lists(f, S)
  <2>1. f \in [1 .. n -> S] /\ DOMAIN f = 1 .. n BY <1>2 DEF Bijection, Injection
  <2>2. \A i, j \in 1 .. n : f[i] = f[j] => i = j BY <1>2, <2>1 DEF Bijection, Injection, IsInjective
  <2>3. \A x \in S : \E i \in 1 .. n : f[i] = x BY <1>2 DEF Bijection, Surjection
  <2>4. QED BY <2>1, <2>2, <2>3 DEF Lists
<1>4. Listing(S) = CHOOSE s : Lists(s, S) BY DEF Listing, Lists
<1>5. Lists(Listing(S), S) BY <1>3, <1>4
<1>6. QED BY <1>1, <1>5

\* The numbers up to m that are in a set can be put in ascending order.
Ascends(s, S) ==
  /\ s \in [1 .. Cardinality(S) -> S]
  /\ \A i, j \in DOMAIN s : i < j => s[i] < s[j]
  /\ \A x \in S : \E i \in DOMAIN s : s[i] = x

\* Such a list exists, one number after the other.
LEMMA AscendingExists ==
  ASSUME NEW m \in Nat, NEW S, S \subseteq 1 .. m
  PROVE  IsFiniteSet(S) /\ \E s : Ascends(s, S)
<1> DEFINE G == {n \in Nat : \A R \in SUBSET (1 .. n) : IsFiniteSet(R) /\ \E s : Ascends(s, R)}
<1>1. 0 \in G
  <2>1. SUFFICES ASSUME NEW R \in SUBSET (1 .. 0) PROVE IsFiniteSet(R) /\ \E s : Ascends(s, R) OBVIOUS
  <2>2. R = {} OBVIOUS
  <2>3. IsFiniteSet(R) /\ Cardinality(R) = 0 BY <2>2, FS_EmptySet
  <2>4. Ascends([i \in 1 .. 0 |-> i], R) BY <2>2, <2>3 DEF Ascends
  <2>5. QED BY <2>3, <2>4
<1>2. ASSUME NEW n \in Nat, n \in G PROVE n + 1 \in G
  <2>1. SUFFICES ASSUME NEW R \in SUBSET (1 .. n + 1) PROVE IsFiniteSet(R) /\ \E s : Ascends(s, R) OBVIOUS
  <2> DEFINE Q == R \ {n + 1}
  <2>2. Q \in SUBSET (1 .. n) OBVIOUS
  <2>3. IsFiniteSet(Q) BY <1>2, <2>2
  <2>4. PICK s : Ascends(s, Q) BY <1>2, <2>2
  <2>5. CASE n + 1 \notin R
    <3>1. Q = R BY <2>5
    <3>2. QED BY <2>3, <2>4, <3>1
  <2>6. CASE n + 1 \in R
    <3> DEFINE c == Cardinality(Q)
               t == [i \in 1 .. c + 1 |-> IF i = c + 1 THEN n + 1 ELSE s[i]]
    <3>1. R = Q \cup {n + 1} BY <2>6
    <3>2. c \in Nat BY <2>3, FS_CardinalityType
    <3>3. IsFiniteSet(R) /\ Cardinality(R) = c + 1 BY <2>3, <3>1, FS_AddElement
    <3>4. s \in [1 .. c -> Q] /\ DOMAIN s = 1 .. c BY <2>4 DEF Ascends
    <3> HIDE DEF c
    <3>5. t \in [1 .. c + 1 -> R] BY <3>1, <3>2, <3>4
    <3>6. ASSUME NEW i \in DOMAIN t, NEW j \in DOMAIN t, i < j PROVE t[i] < t[j]
      <4>1. i \in 1 .. c /\ t[i] = s[i] /\ s[i] \in Q BY <3>2, <3>4, <3>6
      <4>2. CASE j = c + 1
        <5>1. t[j] = n + 1 BY <4>2, <3>2
        <5>2. t[i] \in 1 .. n BY <4>1, <2>2
        <5>3. QED BY <5>1, <5>2
      <4>3. CASE j # c + 1
        <5>1. j \in 1 .. c /\ t[j] = s[j] BY <4>3, <3>2
        <5>2. QED BY <4>1, <5>1, <2>4, <3>4, <3>6 DEF Ascends
      <4>4. QED BY <4>2, <4>3
    <3>7. ASSUME NEW x \in R PROVE \E i \in DOMAIN t : t[i] = x
      <4>1. CASE x = n + 1 BY <4>1, <3>2
      <4>2. CASE x \in Q
        <5>1. PICK i \in 1 .. c : s[i] = x BY <4>2, <2>4, <3>4 DEF Ascends
        <5>2. i \in DOMAIN t /\ t[i] = x BY <5>1, <3>2
        <5>3. QED BY <5>2
      <4>3. QED BY <4>1, <4>2, <3>1
    <3>8. Ascends(t, R) BY <3>3, <3>5, <3>6, <3>7 DEF Ascends
    <3>9. QED BY <3>3, <3>8
  <2>7. QED BY <2>5, <2>6
<1> HIDE DEF G
<1>3. Nat \subseteq G BY <1>1, <1>2, SetInduction
<1>4. m \in G BY <1>3
<1>5. QED BY <1>4 DEF G

\* InOrder lists positions of a block in their order.
LEMMA InOrderIs ==
  ASSUME NEW m \in Nat, NEW S, S \subseteq 1 .. m
  PROVE  Cardinality(S) \in Nat /\ Ascends(InOrder(S), S)
<1>1. PICK s : Ascends(s, S) BY AscendingExists
<1>2. Ascends(InOrder(S), S) BY <1>1 DEF Ascends, InOrder
<1>3. Cardinality(S) \in Nat BY AscendingExists, FS_CardinalityType
<1>4. QED BY <1>2, <1>3

\* Among one more number than there are names taken, one gives a name that is not.
LEMMA FreeNumberIs ==
  ASSUME NEW taken, IsFiniteSet(taken)
  PROVE  FreeNumber(taken) \in Nat /\ PkgName(FreeNumber(taken)) \notin taken
<1> DEFINE n == Cardinality(taken)
           f == [i \in 0 .. n |-> PkgName(i)]
           free == {i \in 0 .. n : PkgName(i) \notin taken}
<1>1. n \in Nat BY FS_CardinalityType
<1>2. IsFiniteSet(0 .. n) /\ Cardinality(0 .. n) = n + 1 BY <1>1, FS_Interval
<1>3. \A i, j \in 0 .. n : PkgName(i) = PkgName(j) => i = j BY DEF PkgName
<1>4. free # {}
  <2>1. SUFFICES ASSUME free = {} PROVE FALSE OBVIOUS
  <2>2. f \in [0 .. n -> taken] BY <2>1
  <2>3. Cardinality(taken) < Cardinality(0 .. n) BY <1>1, <1>2
  <2> HIDE DEF n, f
  <2>4. \E x, y \in 0 .. n : x # y /\ f[x] = f[y] BY <1>2, <2>2, <2>3, FS_PigeonHole
  <2> USE DEF f
  <2>5. QED BY <2>4, <1>3
<1>5. free \subseteq Nat BY <1>1
<1>6. PICK i \in free : \A j \in free : i <= j BY <1>4, <1>5, LeastExists
<1>7. i \in 0 .. n /\ PkgName(i) \notin taken /\ \A j \in 0 .. (i - 1) : PkgName(j) \in taken
  <2>1. ASSUME NEW j \in 0 .. (i - 1), PkgName(j) \notin taken PROVE FALSE
    <3>1. j \in 0 .. n /\ j < i BY <1>1
    <3>2. j \in free BY <3>1, <2>1
    <3>3. QED BY <3>1, <3>2, <1>6, <1>5
  <2>2. QED BY <2>1
<1>8. FreeNumber(taken) \in 0 .. n /\ PkgName(FreeNumber(taken)) \notin taken BY <1>7 DEF FreeNumber
<1>9. QED BY <1>1, <1>8

-------------------------------------------------------------------------------
(* importManager: no name is given twice, or while something else has it.  *)

\* What an import manager has become of these imports and taken names, once the packages were demanded.
Managed(base, taken, m, paths) ==
  /\ m = [names |-> base \cup m.injected, injected |-> m.injected,
          taken |-> taken \cup {im.name : im \in m.injected}]
  /\ IsFiniteSet(m.taken)
  /\ \A im \in m.injected : /\ im = [name |-> im.name, path |-> im.path]
                            /\ \E i \in Nat : im.name = PkgName(i)
                            /\ im.name \notin taken /\ im.path \in paths
                            /\ \A c \in base : c.path # im.path
  /\ \A a, c \in m.injected : a.name = c.name \/ a.path = c.path => a = c
  /\ \A p \in paths : NamesPkg(m, p)

\* NewImportManager starts with what the file imports.
LEMMA NewManaged ==
  ASSUME NEW base, NEW taken, IsFiniteSet(taken)
  PROVE  Managed(base, taken, NewImportManager(base, taken), {})
BY DEF Managed, NewImportManager

\* A demand adds at most one package, under a name that is free (importManager.shortName).
LEMMA DemandManaged ==
  ASSUME NEW base, NEW taken, NEW m, NEW paths, NEW p, Managed(base, taken, m, paths)
  PROVE  Managed(base, taken, Demand(m, p), paths \cup {p})
<1>1. CASE NamesPkg(m, p)
  <2>1. Demand(m, p) = m BY <1>1 DEF Demand
  <2>2. QED BY <1>1, <2>1 DEF Managed
<1>2. CASE ~NamesPkg(m, p)
  <2> DEFINE im == [name |-> PkgName(FreeNumber(m.taken)), path |-> p]
             d == Demand(m, p)
  <2>1. d = [names |-> m.names \cup {im}, injected |-> m.injected \cup {im}, taken |-> m.taken \cup {im.name}]
    BY <1>2 DEF Demand
  <2>2. im.name = PkgName(FreeNumber(m.taken)) /\ im.path = p OBVIOUS
  <2>3. FreeNumber(m.taken) \in Nat /\ im.name \notin m.taken BY <2>2, FreeNumberIs DEF Managed
  <2>4. m.names = base \cup m.injected /\ m.taken = taken \cup {a.name : a \in m.injected} BY DEF Managed
  <2>5. \A c \in m.names : c.path # p BY <1>2 DEF NamesPkg
  <2>6. im = [name |-> im.name, path |-> im.path] BY <2>2
  <2>7. \E i \in Nat : im.name = PkgName(i) BY <2>2, <2>3
  <2> HIDE DEF im, d
  <2>8. /\ d.names = base \cup d.injected /\ d.injected = m.injected \cup {im}
        /\ d.taken = taken \cup {a.name : a \in d.injected}
    BY <2>1, <2>4
  <2>9. d = [names |-> base \cup d.injected, injected |-> d.injected, taken |-> taken \cup {a.name : a \in d.injected}]
    BY <2>1, <2>8
  <2>10. IsFiniteSet(d.taken)
    <3>1. IsFiniteSet(m.taken) BY DEF Managed
    <3>2. d.taken = m.taken \cup {im.name} BY <2>1
    <3>3. QED BY <3>1, <3>2, FS_AddElement
  <2>11. ASSUME NEW a \in d.injected
         PROVE  /\ a = [name |-> a.name, path |-> a.path] /\ \E i \in Nat : a.name = PkgName(i)
                /\ a.name \notin taken /\ a.path \in paths \cup {p} /\ \A c \in base : c.path # a.path
    <3>1. CASE a \in m.injected BY <3>1 DEF Managed
    <3>2. CASE a = im BY <3>2, <2>2, <2>3, <2>4, <2>5, <2>6, <2>7
    <3>3. QED BY <3>1, <3>2, <2>8
  <2>12. ASSUME NEW a \in d.injected, NEW c \in d.injected, a.name = c.name \/ a.path = c.path PROVE a = c
    <3>1. \A x \in m.injected : x.name # im.name /\ x.path # im.path BY <2>2, <2>3, <2>4, <2>5
    <3>2. CASE a \in m.injected /\ c \in m.injected BY <3>2, <2>12 DEF Managed
    <3>3. QED BY <3>1, <3>2, <2>8, <2>12
  <2>13. \A q \in paths \cup {p} : NamesPkg(d, q)
    <3>1. d.names = m.names \cup {im} BY <2>1
    <3>2. \A q \in paths : NamesPkg(m, q) BY DEF Managed
    <3>3. QED BY <3>1, <3>2, <2>2 DEF NamesPkg
  <2>14. QED BY <2>9, <2>10, <2>11, <2>12, <2>13 DEF Managed, d
<1>3. QED BY <1>1, <1>2

\* The recursion of DemandAll over a listing has a solution.
IsDemanded(f, m, list, n) == f = [i \in 0 .. n |-> IF i = 0 THEN m ELSE Demand(f[i - 1], list[i])]

\* It has one for every number of packages.
LEMMA DemandedExists ==
  ASSUME NEW m, NEW list, NEW n \in Nat
  PROVE  \E f : IsDemanded(f, m, list, n)
<1> DEFINE G == {l \in Nat : \E f : IsDemanded(f, m, list, l)}
<1>1. 0 \in G
  <2> DEFINE c == [i \in 0 .. 0 |-> m]
  <2>1. c = [i \in 0 .. 0 |-> IF i = 0 THEN m ELSE Demand(c[i - 1], list[i])] OBVIOUS
  <2>2. QED BY <2>1 DEF IsDemanded
<1>2. ASSUME NEW l \in Nat, l \in G PROVE l + 1 \in G
  <2>1. PICK c : c = [i \in 0 .. l |-> IF i = 0 THEN m ELSE Demand(c[i - 1], list[i])] BY <1>2 DEF IsDemanded
  <2> DEFINE d == [i \in 0 .. l + 1 |-> IF i = l + 1 THEN Demand(c[i - 1], list[i]) ELSE c[i]]
             e == [i \in 0 .. l + 1 |-> IF i = 0 THEN m ELSE Demand(d[i - 1], list[i])]
  <2>2. ASSUME NEW i \in 0 .. l + 1 PROVE d[i] = IF i = 0 THEN m ELSE Demand(d[i - 1], list[i])
    <3>1. CASE i = 0 BY <2>1, <3>1
    <3>2. CASE i # 0
      <4>1. i - 1 \in 0 .. l /\ i - 1 # l + 1 /\ i - 1 \in 0 .. l + 1 BY <3>2
      <4>2. d[i - 1] = c[i - 1] BY <4>1
      <4>3. CASE i = l + 1 BY <4>2, <4>3
      <4>4. CASE i # l + 1
        <5>1. i \in 0 .. l /\ d[i] = c[i] BY <4>4
        <5>2. QED BY <2>1, <3>2, <4>2, <5>1
      <4>5. QED BY <4>3, <4>4
    <3>3. QED BY <3>1, <3>2
  <2>3. d = e
    <3>1. DOMAIN e = 0 .. l + 1 /\ DOMAIN d = 0 .. l + 1 OBVIOUS
    <3> HIDE DEF d
    <3>2. d = [i \in 0 .. l + 1 |-> d[i]] BY <3>1 DEF d
    <3>3. e = [i \in 0 .. l + 1 |-> d[i]] BY <2>2
    <3>4. QED BY <3>2, <3>3
  <2> HIDE DEF d
  <2>4. IsDemanded(d, m, list, l + 1) BY <2>3 DEF IsDemanded
  <2>5. QED BY <2>4
<1> HIDE DEF G
<1>3. Nat \subseteq G BY <1>1, <1>2, SetInduction
<1>4. n \in G BY <1>3
<1>5. QED BY <1>4 DEF G

\* So do the demands for a set of packages, in whatever order they come.
LEMMA DemandAllManaged ==
  ASSUME NEW base, NEW taken, NEW m, NEW paths, Managed(base, taken, m, paths), NEW new, IsFiniteSet(new)
  PROVE  Managed(base, taken, DemandAll(m, new), paths \cup new)
<1> DEFINE n == Cardinality(new)
           list == Listing(new)
           f == CHOOSE g : IsDemanded(g, m, list, n)
           Seen(i) == paths \cup {list[j] : j \in 1 .. i}
           G == {i \in Nat : i <= n => Managed(base, taken, f[i], Seen(i))}
<1>1. n \in Nat /\ list \in [1 .. n -> new] /\ \A x \in new : \E i \in 1 .. n : list[i] = x
  BY ListingIs DEF Lists
<1>2. IsDemanded(f, m, list, n) BY <1>1, DemandedExists
<1>3. DemandAll(m, new) = f[n] BY DEF DemandAll, IsDemanded
<1> HIDE DEF f, n, list
<1>4. \A i \in 0 .. n : f[i] = IF i = 0 THEN m ELSE Demand(f[i - 1], list[i]) BY <1>2 DEF IsDemanded
<1>5. 0 \in G
  <2>1. Seen(0) = paths /\ f[0] = m BY <1>1, <1>4
  <2>2. QED BY <2>1
<1>6. ASSUME NEW i \in Nat, i \in G PROVE i + 1 \in G
  <2>1. SUFFICES ASSUME i + 1 <= n PROVE Managed(base, taken, f[i + 1], Seen(i + 1)) OBVIOUS
  <2>2. i + 1 \in 0 .. n /\ i + 1 # 0 /\ (i + 1) - 1 = i BY <2>1, <1>1
  <2>3. f[i + 1] = Demand(f[i], list[i + 1]) BY <1>4, <2>2
  <2>4. Managed(base, taken, f[i], Seen(i)) BY <1>6, <2>1, <1>1
  <2>5. Seen(i + 1) = Seen(i) \cup {list[i + 1]}
    <3>1. 1 .. i + 1 = (1 .. i) \cup {i + 1} OBVIOUS
    <3>2. QED BY <3>1
  <2> HIDE DEF Seen
  <2>6. QED BY <2>3, <2>4, <2>5, DemandManaged
<1> HIDE DEF G
<1>7. Nat \subseteq G BY <1>5, <1>6, SetInduction
<1>8. Managed(base, taken, f[n], Seen(n))
  <2>1. n \in G /\ n <= n BY <1>1, <1>7
  <2> HIDE DEF Seen
  <2>2. QED BY <2>1 DEF G
<1>9. Seen(n) = paths \cup new BY <1>1
<1>10. QED BY <1>3, <1>8, <1>9

\* A package that was demanded has a name.
LEMMA ShortNameIs ==
  ASSUME NEW base, NEW taken, NEW m, NEW paths, Managed(base, taken, m, paths), NEW p \in paths
  PROVE  \E im \in m.names : im.path = p /\ ShortName(m, p) = im.name
<1> DEFINE im == CHOOSE c \in m.names : c.path = p
<1>1. im \in m.names /\ im.path = p /\ ShortName(m, p) = im.name BY DEF Managed, NamesPkg, ShortName
<1>2. QED BY <1>1

\* A package that the file does not import has the name that it was injected under, and no other.
LEMMA InjectedNameIs ==
  ASSUME NEW base, NEW taken, NEW m, NEW paths, Managed(base, taken, m, paths), NEW p \in paths,
         \A c \in base : c.path # p
  PROVE  /\ [name |-> ShortName(m, p), path |-> p] \in m.injected
         /\ \A im \in m.injected : im.path = p => im.name = ShortName(m, p)
<1>1. PICK im \in m.names : im.path = p /\ ShortName(m, p) = im.name BY ShortNameIs
<1>2. m.names = base \cup m.injected BY DEF Managed
<1>3. im \in m.injected BY <1>1, <1>2
<1>4. im = [name |-> im.name, path |-> im.path] BY <1>3 DEF Managed
<1>5. QED BY <1>1, <1>3, <1>4 DEF Managed

-------------------------------------------------------------------------------
(* Names: what a block declares, imports and defines.                      *)

\* Generated names, the blank name and the name of the context differ from each other.
LEMMA NamesApart ==
  /\ LgoInit # CtxName /\ BlankName # LgoInit /\ BlankName # CtxName
  /\ Unqualified \notin {BlankName, LgoInit, CtxName}
  /\ \A i : PkgName(i) \notin {Unqualified, BlankName, LgoInit, CtxName} /\ Numbered(PkgName(i))
  /\ ~Numbered(CtxName)
  /\ \A i, j : PkgName(i) = PkgName(j) => i = j
BY DEF LgoInit, CtxName, BlankName, Unqualified, PkgName, Numbered

\* The packages of blocks differ from each other and from the core package.
LEMMA PathsApart ==
  /\ \A i : Exec(i) # CorePath
  /\ \A i, j : Exec(i) = Exec(j) => i = j
BY DEF Exec, CorePath

\* The kinds of objects a name can refer to.
LEMMA ObjectsApart ==
  /\ \A p, n : Obj(p, n).is = "object" /\ Obj(p, n).path = p /\ Obj(p, n).name = n
  /\ \A p : Pkg(p).is = "package" /\ Pkg(p).path = p
  /\ Ctx.is = "ctx" /\ Local.is = "local" /\ None.is = "none"
BY DEF Obj, Pkg, Ctx, Local, None

\* What a block declares and imports.
LEMMA BlockNames ==
  ASSUME NEW b, BlockOK(b), SessionAssumption
  PROVE  /\ \A i \in DOMAIN b : Names(b[i]) \subseteq Identifiers
         /\ \A at : at \subseteq DOMAIN b => Declared(b, at) \subseteq Identifiers
         /\ NewScope(b) \subseteq Identifiers
         /\ \A im \in ImportsOf(b) : /\ im = [name |-> im.name, path |-> im.path]
                                     /\ im.name \in Identifiers /\ im.path # CorePath
                                     /\ \A i \in 1 .. MaxBlocks : im.path # Exec(i)
<1>1. \A i \in DOMAIN b : Names(b[i]) \subseteq Identifiers BY DEF BlockOK, StatementOK, Names
<1>2. \A at : at \subseteq DOMAIN b => Declared(b, at) \subseteq Identifiers BY <1>1 DEF Declared
<1>3. NewScope(b) \subseteq Identifiers BY <1>2 DEF NewScope, At
<1>4. ASSUME NEW im \in ImportsOf(b)
      PROVE  /\ im = [name |-> im.name, path |-> im.path]
             /\ im.name \in Identifiers /\ im.path # CorePath
             /\ \A i \in 1 .. MaxBlocks : im.path # Exec(i)
  <2>1. PICK i \in At(b, {"import"}) : im = [name |-> b[i].names[1], path |-> b[i].path] BY DEF ImportsOf
  <2>2. i \in DOMAIN b /\ b[i].k = "import" BY DEF At
  <2>3. StatementOK(b[i]) BY <2>2 DEF BlockOK
  <2>4. /\ b[i].names[1] \in Identifiers \cup {BlankName} /\ b[i].names[1] # BlankName
        /\ b[i].path # CorePath /\ \A l \in 1 .. MaxBlocks : b[i].path # Exec(l)
    BY <2>2, <2>3 DEF StatementOK
  <2>5. im.name = b[i].names[1] /\ im.path = b[i].path BY <2>1
  <2>6. QED BY <2>1, <2>4, <2>5
<1>5. QED BY <1>1, <1>2, <1>3, <1>4

\* A block imports finitely many names.
LEMMA ImportNamesFinite ==
  ASSUME NEW b, BlockOK(b)
  PROVE  IsFiniteSet({im.name : im \in ImportsOf(b)})
<1> DEFINE f == [i \in At(b, {"import"}) |-> b[i].names[1]]
<1>1. Len(b) \in Nat /\ DOMAIN b = 1 .. Len(b) BY DEF BlockOK
<1>2. IsFiniteSet(At(b, {"import"}))
  <2>1. At(b, {"import"}) \in SUBSET (1 .. Len(b)) BY <1>1 DEF At
  <2>2. IsFiniteSet(1 .. Len(b)) BY <1>1, FS_Interval
  <2>3. QED BY <2>1, <2>2, FS_Subset
<1>3. IsFiniteSet({f[i] : i \in At(b, {"import"})}) BY <1>2, ImageFinite
<1>4. {im.name : im \in ImportsOf(b)} = {f[i] : i \in At(b, {"import"})}
  <2>1. ASSUME NEW im \in ImportsOf(b) PROVE \E i \in At(b, {"import"}) : im.name = f[i] BY DEF ImportsOf
  <2>2. ASSUME NEW i \in At(b, {"import"}) PROVE \E im \in ImportsOf(b) : im.name = f[i]
    <3>1. [name |-> b[i].names[1], path |-> b[i].path] \in ImportsOf(b) BY DEF ImportsOf
    <3>2. QED BY <3>1
  <2>3. QED BY <2>1, <2>2
<1>5. QED BY <1>3, <1>4

IsVar(b, i, j) ==
  \/ i \in At(b, {"var"}) /\ j \in DOMAIN b[i].names
  \/ i \in At(b, {"define"}) /\ j \in New(b, i)
IsDefinition(b, i, j) ==
  \/ i \in At(b, {"type", "func", "const"}) /\ j \in DOMAIN b[i].names /\ b[i].names[j] # BlankName
  \/ IsVar(b, i, j)

\* VarSpecs and Definitions, statement by statement.
LEMMA SpecsAre ==
  ASSUME NEW b
  PROVE  /\ \A i, j : <<i, j>> \in VarSpecs(b) <=> IsVar(b, i, j)
         /\ \A i, j : <<i, j>> \in Definitions(b) <=> IsDefinition(b, i, j)
         /\ \A d \in Definitions(b) : \E i, j : d = <<i, j>>
         /\ VarSpecs(b) \subseteq Definitions(b)
<1>1. \A i, j : <<i, j>> \in VarSpecs(b) <=> IsVar(b, i, j) BY DEF VarSpecs, IsVar, At
<1>2. \A i, j : <<i, j>> \in Definitions(b) <=> IsDefinition(b, i, j)
  <2> DEFINE V == UNION {{i} \X {j \in DOMAIN b[i].names : b[i].names[j] # BlankName} :
                          i \in At(b, {"type", "func", "const"})}
  <2>1. \A i, j : <<i, j>> \in V <=>
           i \in At(b, {"type", "func", "const"}) /\ j \in DOMAIN b[i].names /\ b[i].names[j] # BlankName
    OBVIOUS
  <2>2. \A i, j : <<i, j>> \in Definitions(b) <=> <<i, j>> \in VarSpecs(b) \/ <<i, j>> \in V BY DEF Definitions
  <2> HIDE DEF V
  <2>3. QED BY <1>1, <2>1, <2>2 DEF IsDefinition
<1>3. \A d \in VarSpecs(b) : \E i, j : d = <<i, j>> BY DEF VarSpecs
<1>4. \A d \in Definitions(b) : \E i, j : d = <<i, j>> BY <1>3 DEF Definitions
<1>5. VarSpecs(b) \subseteq Definitions(b) BY DEF Definitions
<1>6. QED BY <1>1, <1>2, <1>4, <1>5

\* A name that is a variable's or a constant's has a first statement that declares it.
LEMMA DefinitionsCover ==
  ASSUME NEW b, BlockOK(b), NEW n \in Declared(b, At(b, {"const", "var", "define"}))
  PROVE  \E i \in At(b, {"const", "var", "define"}) :
            n \notin Before(b, i) /\ \E j \in DOMAIN b[i].names : b[i].names[j] = n /\ n # BlankName
<1> DEFINE S == {i \in At(b, {"const", "var", "define"}) : n \in Names(b[i])}
<1>1. S \subseteq Nat /\ S # {} BY DEF BlockOK, At, Declared
<1>2. PICK i \in S : \A l \in S : i <= l BY <1>1, LeastExists
<1>3. n \notin Before(b, i)
  <2>1. SUFFICES ASSUME n \in Before(b, i) PROVE FALSE OBVIOUS
  <2>2. Before(b, i) = Declared(b, At(b, {"const", "var", "define"}) \cap 1 .. (i - 1)) BY DEF Before, At
  <2>3. PICK l \in At(b, {"const", "var", "define"}) \cap 1 .. (i - 1) : n \in Names(b[l])
    BY <2>1, <2>2 DEF Declared
  <2>4. l \in S /\ l < i /\ i \in Nat /\ l \in Nat BY <2>3, <1>1
  <2>5. QED BY <1>2, <2>4
<1>4. \E j \in DOMAIN b[i].names : b[i].names[j] = n /\ n # BlankName BY DEF Names
<1>5. QED BY <1>3, <1>4

\* What the second check finds declared is what the block declares, and lgo_init.
LEMMA Top2Is ==
  ASSUME NEW b, BlockOK(b), SessionAssumption
  PROVE  /\ Top2(b) \subseteq NewScope(b) \cup {LgoInit}
         /\ NewScope(b) \subseteq Top2(b)
         /\ LgoInit \notin NewScope(b) /\ CtxName \notin Top2(b)
<1>1. LgoInit \notin NewScope(b) /\ CtxName \notin NewScope(b) BY BlockNames DEF SessionAssumption
<1>2. ASSUME NEW d \in Definitions(b), NameAt(b, d) # BlankName PROVE NameAt(b, d) \in NewScope(b)
  <2>1. PICK i, j : /\ d = <<i, j>> /\ i \in At(b, {"type", "func", "const", "var", "define"})
                    /\ j \in DOMAIN b[i].names
    <3>1. PICK i, j : d = <<i, j>> BY SpecsAre
    <3>2. IsDefinition(b, i, j) BY <3>1, SpecsAre
    <3>3. i \in At(b, {"type", "func", "const", "var", "define"}) /\ j \in DOMAIN b[i].names
      BY <3>2 DEF IsDefinition, IsVar, At, New
    <3>4. QED BY <3>1, <3>3
  <2>2. NameAt(b, d) = b[i].names[j] BY <2>1 DEF NameAt
  <2>3. NameAt(b, d) \in Names(b[i]) BY <1>2, <2>1, <2>2 DEF Names
  <2>4. QED BY <2>1, <2>3 DEF NewScope, Declared, At
<1>3. ASSUME NEW n \in NewScope(b) PROVE \E d \in Definitions(b) : NameAt(b, d) = n /\ n # BlankName
  <2>1. CASE n \in Declared(b, At(b, {"const", "var", "define"}))
    <3>1. PICK i \in At(b, {"const", "var", "define"}) :
             n \notin Before(b, i) /\ \E j \in DOMAIN b[i].names : b[i].names[j] = n /\ n # BlankName
      BY <2>1, DefinitionsCover
    <3>2. PICK j \in DOMAIN b[i].names : b[i].names[j] = n /\ n # BlankName BY <3>1
    <3>3. j \in New(b, i) BY <3>1, <3>2 DEF New
    <3>4. <<i, j>> \in Definitions(b) BY <3>1, <3>2, <3>3, SpecsAre DEF At, IsDefinition, IsVar
    <3>5. NameAt(b, <<i, j>>) = n BY <3>2 DEF NameAt
    <3>6. QED BY <3>2, <3>4, <3>5
  <2>2. CASE n \in Declared(b, At(b, {"type", "func"}))
    <3>1. PICK i \in At(b, {"type", "func"}) : n \in Names(b[i]) BY <2>2 DEF Declared
    <3>2. PICK j \in DOMAIN b[i].names : b[i].names[j] = n /\ n # BlankName BY <3>1 DEF Names
    <3>3. <<i, j>> \in Definitions(b) BY <3>1, <3>2, SpecsAre DEF At, IsDefinition
    <3>4. NameAt(b, <<i, j>>) = n BY <3>2 DEF NameAt
    <3>5. QED BY <3>2, <3>3, <3>4
  <2>3. n \in Declared(b, At(b, {"const", "var", "define"})) \cup Declared(b, At(b, {"type", "func"}))
    BY DEF NewScope, Declared, At
  <2>4. QED BY <2>1, <2>2, <2>3
<1>4. NewScope(b) \subseteq Top2(b) BY <1>3 DEF Top2
<1>5. Top2(b) \subseteq NewScope(b) \cup {LgoInit} BY <1>2 DEF Top2
<1>6. QED BY <1>1, <1>4, <1>5, NamesApart

-------------------------------------------------------------------------------
(* The reference reading of a block, and the reading of the first phase.   *)

\* What a session gives to a conversion.
ConfOK(conf, k) ==
  /\ k \in 1 .. MaxBlocks /\ conf.path = Exec(k) /\ DOMAIN conf.olds = AllNames
  /\ \A n \in AllNames :
       /\ conf.olds[n] = None \/ \E j \in 1 .. (k - 1) : conf.olds[n] = Obj(Exec(j), n)
       /\ conf.oldImports[n] = None \/ \E p : conf.oldImports[n] = Pkg(p)

\* A use of a block, and what it refers to in the reference reading.
IsUse(b, i, n) == i \in Texted(b) /\ \E j \in DOMAIN b[i].uses : b[i].uses[j].name = n
Ref(b, i, n, conf) == Resolve(n, Locals(b, i), Above(b, i), ImportsOf(b), conf)

\* How it is read after the second check: a package that only the session imports may be captured.
Captures(b, i, n, conf) == Ref(b, i, n, conf).is = "package" /\ n \in NewScope(b)
Reading(b, i, n, conf) == IF Captures(b, i, n, conf) THEN Obj(conf.path, n) ELSE Ref(b, i, n, conf)

\* Capture leaves what is old as it is, and what was not old does not become so.
LEMMA ReadingIs ==
  ASSUME NEW b, NEW i, NEW n, NEW conf
  PROVE  /\ IsOld(Reading(b, i, n, conf), conf) <=> IsOld(Ref(b, i, n, conf), conf)
         /\ IsOld(Ref(b, i, n, conf), conf) => Reading(b, i, n, conf) = Ref(b, i, n, conf)
<1>1. CASE Captures(b, i, n, conf)
  <2>1. ~IsOld(Ref(b, i, n, conf), conf) BY <1>1 DEF Captures, IsOld
  <2>2. Reading(b, i, n, conf) = Obj(conf.path, n) BY <1>1 DEF Reading
  <2>3. ~IsOld(Reading(b, i, n, conf), conf) BY <2>2, ObjectsApart DEF IsOld
  <2>4. QED BY <2>1, <2>3
<1>2. CASE ~Captures(b, i, n, conf) BY <1>2 DEF Reading
<1>3. QED BY <1>1, <1>2

\* What the session has under a name: a definition of an earlier block, a package, or the context.
LEMMA OldValueIs ==
  ASSUME NEW conf, NEW k, ConfOK(conf, k), NEW n \in AllNames
  PROVE  LET v == OldValue(conf, n) IN
         \/ v = None
         \/ n = CtxName /\ v = Ctx
         \/ \E p : v = Pkg(p)
         \/ v = conf.olds[n] /\ IsOld(v, conf) /\ \E j \in 1 .. (k - 1) : v = Obj(Exec(j), n)
<1>1. CASE conf.olds[n] # None
  <2>1. OldValue(conf, n) = conf.olds[n] BY <1>1 DEF OldValue
  <2>2. PICK j \in 1 .. (k - 1) : conf.olds[n] = Obj(Exec(j), n) BY <1>1 DEF ConfOK
  <2>3. j # k /\ conf.path = Exec(k) BY <2>2 DEF ConfOK
  <2>4. IsOld(conf.olds[n], conf) BY <2>2, <2>3, PathsApart, ObjectsApart DEF IsOld
  <2>5. QED BY <2>1, <2>2, <2>4
<1>2. CASE conf.olds[n] = None /\ conf.oldImports[n] # None
  <2>1. OldValue(conf, n) = conf.oldImports[n] BY <1>2 DEF OldValue
  <2>2. QED BY <1>2, <2>1 DEF ConfOK
<1>3. CASE conf.olds[n] = None /\ conf.oldImports[n] = None
  <2>1. OldValue(conf, n) = IF n = CtxName THEN Ctx ELSE None BY <1>3 DEF OldValue
  <2>2. QED BY <2>1
<1>4. QED BY <1>1, <1>2, <1>3

\* Which names can be used where (SessionAssumption).
LEMMA UseNames ==
  ASSUME NEW b, BlockOK(b), SessionAssumption, NEW i, NEW n, IsUse(b, i, n)
  PROVE  /\ i \in DOMAIN b /\ b[i].k \in InitKinds \cup {"type", "func"}
         /\ n \in AllNames /\ n \in Identifiers \cup {CtxName} /\ n \notin {LgoInit, BlankName, Unqualified}
         /\ b[i].k = "func" => ~Numbered(n) /\ \A l \in Locals(b, i) : ~Numbered(l)
         /\ b[i].k # "func" => Locals(b, i) = {}
<1>1. i \in DOMAIN b /\ b[i].k # "import" BY DEF IsUse, Texted, At
<1>2. StatementOK(b[i]) BY <1>1 DEF BlockOK
<1>3. PICK j \in DOMAIN b[i].uses : b[i].uses[j].name = n BY DEF IsUse
<1>4. n \in Identifiers \cup {CtxName} BY <1>2, <1>3 DEF StatementOK
<1>5. n \notin {LgoInit, BlankName, Unqualified} BY <1>4, NamesApart DEF SessionAssumption
<1>6. b[i].k = "func" => ~Numbered(n) /\ \A l \in Locals(b, i) : ~Numbered(l)
  BY <1>2, <1>3 DEF StatementOK, Locals
<1>7. b[i].k \in InitKinds \cup {"type", "func"} BY <1>1, <1>2 DEF StatementOK
<1>8. QED BY <1>1, <1>4, <1>5, <1>6, <1>7 DEF AllNames, Locals

\* What a name may refer to in the reference reading.
LEMMA RefIs ==
  ASSUME NEW b, BlockOK(b), SessionAssumption, NEW conf, NEW k, ConfOK(conf, k), NEW i, NEW n, IsUse(b, i, n)
  PROVE  LET r == Ref(b, i, n, conf) IN
         \/ n \in Locals(b, i) /\ r = Local
         \/ n \notin Locals(b, i) /\ n \in Above(b, i) /\ r = Obj(conf.path, n)
         \/ /\ n \notin Locals(b, i) \cup Above(b, i)
            /\ \E im \in ImportsOf(b) : im.name = n /\ r = Pkg(im.path)
         \/ /\ n \notin Locals(b, i) \cup Above(b, i) /\ \A im \in ImportsOf(b) : im.name # n
            /\ r = OldValue(conf, n)
<1>1. CASE n \in Locals(b, i) BY <1>1 DEF Ref, Resolve
<1>2. CASE n \in Above(b, i) \ Locals(b, i) BY <1>2 DEF Ref, Resolve
<1>3. CASE n \notin Locals(b, i) \cup Above(b, i) /\ \E im \in ImportsOf(b) : im.name = n
  <2> DEFINE c == CHOOSE im \in ImportsOf(b) : im.name = n
  <2>1. c \in ImportsOf(b) /\ c.name = n BY <1>3
  <2>2. Ref(b, i, n, conf) = Pkg(c.path) BY <1>3 DEF Ref, Resolve
  <2>3. QED BY <1>3, <2>1, <2>2
<1>4. CASE n \notin Locals(b, i) \cup Above(b, i) /\ ~\E im \in ImportsOf(b) : im.name = n
  BY <1>4 DEF Ref, Resolve
<1>5. QED BY <1>1, <1>2, <1>3, <1>4

\* What is above a statement is declared by the block.
LEMMA AboveIn ==
  ASSUME NEW b, NEW i \in DOMAIN b
  PROVE  Above(b, i) \subseteq NewScope(b)
BY DEF Above, NewScope, Before, Declared, At

\* Nothing is captured in a function, where the names of the block come first.
LEMMA FunctionReading ==
  ASSUME NEW b, BlockOK(b), SessionAssumption, NEW conf, NEW k, ConfOK(conf, k), NEW i, NEW n, IsUse(b, i, n),
         b[i].k = "func"
  PROVE  Reading(b, i, n, conf) = Ref(b, i, n, conf)
<1>1. Above(b, i) = NewScope(b) BY DEF Above
<1>2. n \in Above(b, i) => Ref(b, i, n, conf).is # "package" BY RefIs, ObjectsApart
<1>3. QED BY <1>1, <1>2 DEF Reading, Captures

\* The first phase reads the statements it checks as the reference does.
LEMMA Meaning1Is ==
  ASSUME NEW b, BlockOK(b), SessionAssumption, NEW conf, NEW i, NEW n, IsUse(b, i, n), b[i].k # "func"
  PROVE  Meaning1(b, i, n, conf) = Ref(b, i, n, conf)
<1>1. n # LgoInit /\ Locals(b, i) = {} BY UseNames
<1>2. Above(b, i) = Before(b, i) \cup Declared(b, At(b, {"type", "func"}))
  BY DEF Above, Before
<1>3. n \in Before(b, i) \/ n \in Top1(b) <=> n \in Above(b, i) BY <1>1, <1>2 DEF Top1
<1>4. CASE n \in Before(b, i)
  BY <1>1, <1>3, <1>4 DEF Meaning1, Ref, Resolve
<1>5. CASE n \notin Before(b, i)
  <2>1. Meaning1(b, i, n, conf) = Resolve(n, {}, Top1(b), ImportsOf(b), conf) BY <1>5 DEF Meaning1
  <2>2. CASE n \in Top1(b) BY <1>1, <1>3, <2>1, <2>2 DEF Ref, Resolve
  <2>3. CASE n \notin Top1(b)
    <3>1. n \notin Above(b, i) BY <1>3, <1>5, <2>3
    <3>2. QED BY <1>1, <2>1, <2>3, <3>1 DEF Ref, Resolve
  <2>4. QED BY <2>2, <2>3
<1>6. QED BY <1>4, <1>5

-------------------------------------------------------------------------------
(* The first phase: what is qualified, and by which names.                 *)

Outer1(b, conf) == {im.name : im \in ImportsOf(b)} \cup Top1(b) \cup OldNames(conf)
Paths1(b, conf) == OldPaths(Phase1Texts(b, conf), conf) \cup (IF UsesCore(b) THEN {CorePath} ELSE {})

\* A block that both checks accept, the file of the second phase and the import manager it was made with.
Checked(b, conf, k, file, m) ==
  /\ BlockOK(b) /\ ConfOK(conf, k) /\ Check1(b, conf) /\ Check2(b, file, conf)
  /\ Managed(ImportsOf(b), Outer1(b, conf), m, Paths1(b, conf))
  /\ file.imports = ImportsOf(b) \cup m.injected
  /\ file.texts = Qualify(m, Phase1Texts(b, conf), conf)

\* What refers to an earlier block is what the session declared last under the name.
LEMMA RefOld ==
  ASSUME NEW b, BlockOK(b), SessionAssumption, NEW conf, NEW k, ConfOK(conf, k), NEW i, NEW n, IsUse(b, i, n),
         IsOld(Ref(b, i, n, conf), conf)
  PROVE  /\ n \notin Locals(b, i) /\ Ref(b, i, n, conf) = conf.olds[n]
         /\ \E j \in 1 .. (k - 1) : Ref(b, i, n, conf) = Obj(Exec(j), n)
<1> DEFINE r == Ref(b, i, n, conf)
<1>1. r.is = "object" /\ r.path # conf.path BY DEF IsOld
<1> HIDE DEF r
<1>2. n \notin Locals(b, i) /\ r = OldValue(conf, n) BY <1>1, RefIs, ObjectsApart DEF r
<1>3. n \in AllNames BY UseNames
<1>4. r = conf.olds[n] /\ \E j \in 1 .. (k - 1) : r = Obj(Exec(j), n) BY <1>1, <1>2, <1>3, OldValueIs, ObjectsApart
<1>5. QED BY <1>2, <1>4 DEF r

\* The texts of the first phase: functions have not been checked yet.
LEMMA Phase1TextIs ==
  ASSUME NEW b, BlockOK(b), SessionAssumption, NEW conf, NEW i \in Texted(b), NEW j \in DOMAIN b[i].uses
  PROVE  /\ DOMAIN Phase1Texts(b, conf) = Texted(b) /\ DOMAIN Phase1Texts(b, conf)[i] = DOMAIN b[i].uses
         /\ Phase1Texts(b, conf)[i][j] =
              Text(b[i].uses[j], IF b[i].k = "func" THEN None ELSE Ref(b, i, b[i].uses[j].name, conf))
         /\ IsUse(b, i, b[i].uses[j].name)
<1>1. IsUse(b, i, b[i].uses[j].name) BY DEF IsUse
<1>2. b[i].k # "func" => Meaning1(b, i, b[i].uses[j].name, conf) = Ref(b, i, b[i].uses[j].name, conf)
  BY <1>1, Meaning1Is
<1>3. QED BY <1>1, <1>2 DEF Phase1Texts

\* The packages that the first phase names are packages of earlier blocks.
LEMMA Paths1Are ==
  ASSUME NEW b, BlockOK(b), SessionAssumption, NEW conf, NEW k, ConfOK(conf, k)
  PROVE  /\ OldPaths(Phase1Texts(b, conf), conf) \subseteq {Exec(j) : j \in 1 .. (k - 1)}
         /\ \A p \in OldPaths(Phase1Texts(b, conf), conf) :
              \E i \in Texted(b) : \E j \in DOMAIN b[i].uses :
                /\ b[i].k # "func" /\ IsOld(Ref(b, i, b[i].uses[j].name, conf), conf)
                /\ Ref(b, i, b[i].uses[j].name, conf).path = p
<1> DEFINE texts == Phase1Texts(b, conf)
<1>1. ASSUME NEW p \in OldPaths(texts, conf)
      PROVE  \E i \in Texted(b) : \E j \in DOMAIN b[i].uses :
                /\ b[i].k # "func" /\ IsOld(Ref(b, i, b[i].uses[j].name, conf), conf)
                /\ Ref(b, i, b[i].uses[j].name, conf).path = p
  <2>1. PICK t \in TextsOf(texts) : IsOld(t.obj, conf) /\ t.obj.path = p BY DEF OldPaths
  <2>2. PICK i \in DOMAIN texts : \E j \in DOMAIN texts[i] : t = texts[i][j] BY <2>1 DEF TextsOf
  <2>3. PICK j \in DOMAIN texts[i] : t = texts[i][j] BY <2>2
  <2>4. i \in Texted(b) /\ DOMAIN texts[i] = DOMAIN b[i].uses BY DEF Phase1Texts
  <2>5. t = Text(b[i].uses[j], IF b[i].k = "func" THEN None ELSE Ref(b, i, b[i].uses[j].name, conf))
    BY <2>3, <2>4, Phase1TextIs
  <2>6. t.obj = IF b[i].k = "func" THEN None ELSE Ref(b, i, b[i].uses[j].name, conf) BY <2>5 DEF Text
  <2>7. b[i].k # "func" BY <2>1, <2>6, ObjectsApart DEF IsOld
  <2>8. QED BY <2>1, <2>4, <2>6, <2>7
<1>2. ASSUME NEW p \in OldPaths(texts, conf) PROVE p \in {Exec(j) : j \in 1 .. (k - 1)}
  <2>1. PICK i \in Texted(b) : \E j \in DOMAIN b[i].uses :
                /\ b[i].k # "func" /\ IsOld(Ref(b, i, b[i].uses[j].name, conf), conf)
                /\ Ref(b, i, b[i].uses[j].name, conf).path = p
    BY <1>1
  <2>2. PICK j \in DOMAIN b[i].uses : /\ IsOld(Ref(b, i, b[i].uses[j].name, conf), conf)
                                      /\ Ref(b, i, b[i].uses[j].name, conf).path = p
    BY <2>1
  <2>3. IsUse(b, i, b[i].uses[j].name) BY DEF IsUse
  <2>4. \E l \in 1 .. (k - 1) : Ref(b, i, b[i].uses[j].name, conf) = Obj(Exec(l), b[i].uses[j].name)
    BY <2>2, <2>3, RefOld
  <2>5. QED BY <2>2, <2>4, ObjectsApart
<1>3. QED BY <1>1, <1>2

\* They are finitely many.
LEMMA OldPathsFinite ==
  ASSUME NEW k \in Nat, NEW S, S \subseteq {Exec(j) : j \in 1 .. (k - 1)}
  PROVE  IsFiniteSet(S)
<1> DEFINE f == [j \in 1 .. (k - 1) |-> Exec(j)]
<1>1. IsFiniteSet(1 .. (k - 1)) BY FS_Interval
<1>2. IsFiniteSet({f[j] : j \in 1 .. (k - 1)}) BY <1>1, ImageFinite
<1>3. S \in SUBSET {f[j] : j \in 1 .. (k - 1)} OBVIOUS
<1>4. QED BY <1>2, <1>3, FS_Subset

\* The names an import manager has to avoid are finitely many.
LEMMA NamesFinite ==
  ASSUME NEW b, BlockOK(b), SessionAssumption, NEW conf, NEW k, ConfOK(conf, k)
  PROVE  IsFiniteSet(OldNames(conf)) /\ IsFiniteSet(Top1(b)) /\ IsFiniteSet(Top2(b)) /\ IsFiniteSet(Outer1(b, conf))
<1>1. IsFiniteSet(AllNames)
  <2>1. IsFiniteSet(Identifiers) BY DEF SessionAssumption
  <2>2. IsFiniteSet(Identifiers \cup {LgoInit}) BY <2>1, FS_AddElement
  <2>3. IsFiniteSet((Identifiers \cup {LgoInit}) \cup {CtxName}) BY <2>2, FS_AddElement
  <2>4. AllNames = (Identifiers \cup {LgoInit}) \cup {CtxName} BY DEF AllNames
  <2>5. QED BY <2>3, <2>4
<1>2. OldNames(conf) \in SUBSET AllNames BY DEF OldNames, ConfOK
<1>3. Top1(b) \in SUBSET AllNames BY BlockNames DEF Top1, AllNames, At
<1>4. Top2(b) \in SUBSET AllNames BY BlockNames, Top2Is DEF AllNames
<1>5. IsFiniteSet(OldNames(conf)) /\ IsFiniteSet(Top1(b)) /\ IsFiniteSet(Top2(b))
  BY <1>1, <1>2, <1>3, <1>4, FS_Subset
<1>6. IsFiniteSet({im.name : im \in ImportsOf(b)}) BY ImportNamesFinite
<1>7. IsFiniteSet({im.name : im \in ImportsOf(b)} \cup Top1(b)) BY <1>5, <1>6, FS_Union
<1>8. IsFiniteSet(({im.name : im \in ImportsOf(b)} \cup Top1(b)) \cup OldNames(conf)) BY <1>5, <1>7, FS_Union
<1>9. QED BY <1>5, <1>8 DEF Outer1

\* Checked holds of every block that both checks accept (convertToPhase2).
LEMMA Phase2Is ==
  ASSUME NEW b, BlockOK(b), SessionAssumption, NEW conf, NEW k, ConfOK(conf, k),
         Check1(b, conf), Check2(b, Phase2(b, conf), conf)
  PROVE  \E m : Checked(b, conf, k, Phase2(b, conf), m)
<1> DEFINE base == ImportsOf(b)
           texts == Phase1Texts(b, conf)
           m0 == NewImportManager(base, Outer1(b, conf))
           m1 == DemandAll(m0, OldPaths(texts, conf))
           m == IF UsesCore(b) THEN Demand(m1, CorePath) ELSE m1
<1>1. Managed(base, Outer1(b, conf), m0, {}) BY NamesFinite, NewManaged
<1>2. IsFiniteSet(OldPaths(texts, conf)) BY Paths1Are, OldPathsFinite DEF ConfOK, SessionAssumption
<1>3. Managed(base, Outer1(b, conf), m1, {} \cup OldPaths(texts, conf)) BY <1>1, <1>2, DemandAllManaged
<1>4. Phase2(b, conf) = [imports |-> base \cup m.injected, texts |-> Qualify(m, texts, conf)]
  BY DEF Phase2, Outer1
<1> HIDE DEF m0, m1, texts
<1>5. Managed(base, Outer1(b, conf), m, Paths1(b, conf))
  <2>1. {} \cup OldPaths(texts, conf) = OldPaths(texts, conf) OBVIOUS
  <2>2. Managed(base, Outer1(b, conf), m1, OldPaths(texts, conf)) BY <1>3, <2>1
  <2>3. CASE UsesCore(b)
    <3>1. Paths1(b, conf) = OldPaths(texts, conf) \cup {CorePath} BY <2>3 DEF Paths1, texts
    <3>2. m = Demand(m1, CorePath) BY <2>3
    <3>3. QED BY <2>2, <3>1, <3>2, DemandManaged
  <2>4. CASE ~UsesCore(b)
    <3>1. Paths1(b, conf) = OldPaths(texts, conf) BY <2>4 DEF Paths1, texts
    <3>2. QED BY <2>2, <2>4, <3>1
  <2>5. QED BY <2>3, <2>4
<1> HIDE DEF m
<1>6. Checked(b, conf, k, Phase2(b, conf), m) BY <1>4, <1>5 DEF Checked, texts
<1>7. QED BY <1>6

-------------------------------------------------------------------------------
(* The second check: names keep their meaning while variables move.        *)

\* The imports of the second phase: those of the block, and those that were injected.
LEMMA FileImports ==
  ASSUME SessionAssumption, NEW b, NEW conf, NEW k, NEW file, NEW m, Checked(b, conf, k, file, m)
  PROVE  /\ \A im \in file.imports :
               /\ im = [name |-> im.name, path |-> im.path]
               /\ im.name \notin {Unqualified, BlankName, LgoInit, CtxName} /\ im.name \notin Top2(b)
               /\ im \in ImportsOf(b) \/ im \in m.injected
         /\ \A a, c \in file.imports : a.name = c.name => a = c
         /\ \A im \in m.injected : /\ im \in file.imports /\ im.path \in Paths1(b, conf)
                                   /\ Numbered(im.name) /\ im.name \notin OldNames(conf)
         /\ \A p \in Paths1(b, conf) :
               /\ (p = CorePath /\ UsesCore(b)) \/ \E j \in 1 .. (k - 1) : p = Exec(j)
               /\ [name |-> ShortName(m, p), path |-> p] \in m.injected
               /\ \A im \in file.imports : im.path = p => im.name = ShortName(m, p)
<1> USE DEF Checked
<1>1. BlockOK(b) /\ Managed(ImportsOf(b), Outer1(b, conf), m, Paths1(b, conf)) /\ ConfOK(conf, k) OBVIOUS
<1>2. file.imports = ImportsOf(b) \cup m.injected OBVIOUS
<1>3. /\ {im.name : im \in file.imports} \cap Top2(b) = {}
      /\ \A a, c \in file.imports : a.name = c.name => a = c
  BY DEF Check2
<1> HIDE DEF Checked
<1>4. ASSUME NEW im \in m.injected
      PROVE  /\ im = [name |-> im.name, path |-> im.path] /\ im.path \in Paths1(b, conf)
             /\ Numbered(im.name) /\ im.name \notin {Unqualified, BlankName, LgoInit, CtxName}
             /\ im.name \notin OldNames(conf)
  <2>1. /\ im = [name |-> im.name, path |-> im.path] /\ im.path \in Paths1(b, conf)
        /\ \E i \in Nat : im.name = PkgName(i)
        /\ im.name \notin Outer1(b, conf)
    BY <1>1 DEF Managed
  <2>2. QED BY <2>1, NamesApart DEF Outer1
<1>5. ASSUME NEW im \in ImportsOf(b)
      PROVE  /\ im = [name |-> im.name, path |-> im.path]
             /\ im.name \notin {Unqualified, BlankName, LgoInit, CtxName}
             /\ im.path # CorePath /\ \A j \in 1 .. MaxBlocks : im.path # Exec(j)
  BY <1>1, BlockNames DEF SessionAssumption
<1>6. \A im \in file.imports : im.name \notin Top2(b) BY <1>3
<1>7. ASSUME NEW p \in Paths1(b, conf)
      PROVE  /\ (p = CorePath /\ UsesCore(b)) \/ \E j \in 1 .. (k - 1) : p = Exec(j)
             /\ [name |-> ShortName(m, p), path |-> p] \in m.injected
             /\ \A im \in file.imports : im.path = p => im.name = ShortName(m, p)
  <2>1. (p = CorePath /\ UsesCore(b)) \/ \E j \in 1 .. (k - 1) : p = Exec(j) BY <1>1, Paths1Are DEF Paths1
  <2>2. \A j \in 1 .. (k - 1) : j \in 1 .. MaxBlocks BY <1>1 DEF ConfOK, SessionAssumption
  <2>3. \A im \in ImportsOf(b) : im.path # p BY <1>5, <2>1, <2>2
  <2>4. /\ [name |-> ShortName(m, p), path |-> p] \in m.injected
        /\ \A im \in m.injected : im.path = p => im.name = ShortName(m, p)
    BY <1>1, <2>3, InjectedNameIs
  <2>5. QED BY <1>2, <2>1, <2>3, <2>4
<1>8. QED BY <1>2, <1>3, <1>4, <1>5, <1>6, <1>7

\* A package has one name there.
LEMMA FileName ==
  ASSUME SessionAssumption, NEW b, NEW conf, NEW k, NEW file, NEW m, Checked(b, conf, k, file, m),
         NEW im \in file.imports, im.path \in Paths1(b, conf)
  PROVE  im.name = ShortName(m, im.path)
<1>1. \A p \in Paths1(b, conf) :
               /\ (p = CorePath /\ UsesCore(b)) \/ \E j \in 1 .. (k - 1) : p = Exec(j)
               /\ [name |-> ShortName(m, p), path |-> p] \in m.injected
               /\ \A c \in file.imports : c.path = p => c.name = ShortName(m, p)
  BY FileImports
<1>2. QED BY <1>1

\* What the second check makes of the texts of a block.
TextOf(b, conf, m, i, j) == Prepend(m, Phase1Texts(b, conf)[i][j], conf)
TextFacts(b, conf, file, m, i, u, t) ==
  /\ t = [q |-> t.q, name |-> u.name, qual |-> u.qual, obj |-> Reading(b, i, u.name, conf), prefix |-> FALSE]
  /\ Sound(t, t.obj)
  /\ t.q = Unqualified => t.obj = Resolve(u.name, Locals(b, i), Top2(b), file.imports, conf)
  /\ b[i].k # "func" => (IsOld(t.obj, conf) <=> t.q # Unqualified)
  /\ t.q # Unqualified => /\ b[i].k # "func" /\ t.q = ShortName(m, t.obj.path)
                          /\ t.obj.path \in Paths1(b, conf) /\ IsOld(t.obj, conf)

\* The second check leaves one text for each use.
LEMMA RecheckedShape ==
  ASSUME NEW b, NEW conf, NEW k, NEW file, NEW m, Checked(b, conf, k, file, m)
  PROVE  /\ DOMAIN Rechecked(b, file, conf) = Texted(b)
         /\ \A i \in Texted(b) : /\ DOMAIN Rechecked(b, file, conf)[i] = DOMAIN b[i].uses
                                 /\ \A j \in DOMAIN b[i].uses :
                                      /\ Rechecked(b, file, conf)[i][j] =
                                           Recheck(b, file, Locals(b, i), TextOf(b, conf, m, i, j), conf)
                                      /\ Rechecked(b, file, conf)[i][j] \in TextsOf(Rechecked(b, file, conf))
<1>1. file.texts = Qualify(m, Phase1Texts(b, conf), conf) BY DEF Checked
<1>2. /\ DOMAIN Phase1Texts(b, conf) = Texted(b)
      /\ \A i \in Texted(b) : DOMAIN Phase1Texts(b, conf)[i] = DOMAIN b[i].uses
  BY DEF Phase1Texts
<1>3. /\ DOMAIN file.texts = Texted(b)
      /\ \A i \in Texted(b) : /\ DOMAIN file.texts[i] = DOMAIN b[i].uses
                              /\ \A j \in DOMAIN b[i].uses : file.texts[i][j] = TextOf(b, conf, m, i, j)
  BY <1>1, <1>2 DEF Qualify, TextOf
<1>4. /\ DOMAIN Rechecked(b, file, conf) = Texted(b)
      /\ \A i \in Texted(b) : /\ DOMAIN Rechecked(b, file, conf)[i] = DOMAIN b[i].uses
                              /\ \A j \in DOMAIN b[i].uses :
                                      Rechecked(b, file, conf)[i][j] =
                                           Recheck(b, file, Locals(b, i), TextOf(b, conf, m, i, j), conf)
  BY <1>3 DEF Rechecked
<1>5. \A i \in Texted(b) : \A j \in DOMAIN b[i].uses :
         Rechecked(b, file, conf)[i][j] \in TextsOf(Rechecked(b, file, conf))
  BY <1>4 DEF TextsOf
<1>6. QED BY <1>4, <1>5

\* An unqualified text that the first phase gave a meaning keeps it when the variables have moved, or is captured.
LEMMA MeaningStays ==
  ASSUME SessionAssumption, NEW b, NEW conf, NEW k, NEW file, NEW m, Checked(b, conf, k, file, m),
         NEW i, NEW n, IsUse(b, i, n), b[i].k # "func", ~IsOld(Ref(b, i, n, conf), conf),
         NEW u, u.name = n, Sound(u, Ref(b, i, n, conf))
  PROVE  Resolve(n, {}, Top2(b), file.imports, conf) = Reading(b, i, n, conf)
<1> DEFINE r == Ref(b, i, n, conf)
           w == Reading(b, i, n, conf)
           v == Resolve(n, {}, Top2(b), file.imports, conf)
<1>1. BlockOK(b) /\ ConfOK(conf, k) BY DEF Checked
<1>2. n \notin {LgoInit, BlankName} /\ n \in AllNames /\ Locals(b, i) = {} /\ i \in DOMAIN b BY <1>1, UseNames
<1>3. /\ n \in Top2(b) => v = Obj(conf.path, n)
      /\ \A im \in file.imports : n \notin Top2(b) /\ im.name = n => v = Pkg(im.path)
      /\ n \notin Top2(b) /\ (\A im \in file.imports : im.name # n) => v = OldValue(conf, n)
  <2>1. n \in Top2(b) => v = Obj(conf.path, n) BY DEF Resolve
  <2>2. ASSUME NEW im \in file.imports, n \notin Top2(b), im.name = n PROVE v = Pkg(im.path)
    <3>1. \A c \in file.imports : c.name = n => c = im BY <2>2, FileImports
    <3>2. (CHOOSE c \in file.imports : c.name = n) = im BY <2>2, <3>1
    <3>3. QED BY <2>2, <3>2 DEF Resolve
  <2>3. n \notin Top2(b) /\ (\A im \in file.imports : im.name # n) => v = OldValue(conf, n) BY DEF Resolve
  <2>4. QED BY <2>1, <2>2, <2>3
<1>4. r # None /\ w = (IF r.is = "package" /\ n \in NewScope(b) THEN Obj(conf.path, n) ELSE r)
  BY DEF Sound, Reading, Captures
<1>5. n \in NewScope(b) <=> n \in Top2(b) BY <1>1, <1>2, Top2Is
<1> HIDE DEF r, v, w
<1>6. CASE n \in Above(b, i) /\ r = Obj(conf.path, n)
  <2>1. n \in Top2(b) BY <1>2, <1>5, <1>6, AboveIn
  <2>2. w = r BY <1>4, <1>6, ObjectsApart
  <2>3. QED BY <1>3, <1>6, <2>1, <2>2 DEF v, w
<1>7. CASE \E im \in ImportsOf(b) : im.name = n /\ r = Pkg(im.path)
  <2>1. PICK im \in ImportsOf(b) : im.name = n /\ r = Pkg(im.path) BY <1>7
  <2>2. im \in file.imports BY <2>1 DEF Checked
  <2>3. n \notin Top2(b) BY <2>1, <2>2, FileImports
  <2>4. QED BY <1>3, <1>4, <1>5, <2>1, <2>2, <2>3 DEF v, w
<1>8. CASE (\A im \in ImportsOf(b) : im.name # n) /\ r = OldValue(conf, n)
  <2>1. CASE n \in Top2(b)
    <3>1. n # CtxName BY <1>1, <2>1, Top2Is
    <3>2. ~IsOld(OldValue(conf, n), conf) BY <1>8 DEF r
    <3>3. \E p : r = Pkg(p) BY <1>1, <1>2, <1>4, <1>8, <3>1, <3>2, OldValueIs
    <3>4. w = Obj(conf.path, n) BY <1>4, <1>5, <2>1, <3>3, ObjectsApart
    <3>5. QED BY <1>3, <2>1, <3>4 DEF v, w
  <2>2. CASE n \notin Top2(b)
    <3>1. n \in OldNames(conf) BY <1>1, <1>2, <1>4, <1>8 DEF OldNames, ConfOK
    <3>2. \A im \in m.injected : im.name # n BY <3>1, FileImports
    <3>3. \A im \in file.imports : im.name # n BY <1>8, <3>2 DEF Checked
    <3>4. QED BY <1>3, <1>4, <1>5, <1>8, <2>2, <3>3 DEF v, w
  <2>3. QED BY <2>1, <2>2
<1>9. QED BY <1>1, <1>2, <1>6, <1>7, <1>8, RefIs DEF r

-------------------------------------------------------------------------------
(* The texts that the second check leaves.                                 *)

\* In a function the second check reads a name as the reference does.
LEMMA FunctionMeaning ==
  ASSUME SessionAssumption, NEW b, NEW conf, NEW k, NEW file, NEW m, Checked(b, conf, k, file, m),
         NEW i, NEW n, IsUse(b, i, n), b[i].k = "func"
  PROVE  Resolve(n, Locals(b, i), Top2(b), file.imports, conf) = Ref(b, i, n, conf)
<1>1. BlockOK(b) /\ ConfOK(conf, k) BY DEF Checked
<1>2. n # LgoInit /\ ~Numbered(n) BY <1>1, UseNames
<1>3. Above(b, i) = NewScope(b) /\ (n \in NewScope(b) <=> n \in Top2(b)) BY <1>1, <1>2, Top2Is DEF Above
<1>4. \A im \in file.imports : im.name = n <=> im \in ImportsOf(b) /\ im.name = n BY <1>2, FileImports
<1>5. ImportsOf(b) \subseteq file.imports BY DEF Checked
<1>6. CASE \E im \in file.imports : im.name = n
  <2>1. PICK im \in file.imports : im.name = n BY <1>6
  <2>2. \A c \in file.imports : c.name = n <=> c = im BY <2>1, FileImports
  <2>3. \A c \in ImportsOf(b) : c.name = n <=> c = im BY <1>5, <2>2
  <2>4. im \in ImportsOf(b) BY <1>4, <2>1
  <2>5. (CHOOSE c \in file.imports : c.name = n) = im BY <2>1, <2>2
  <2>6. (CHOOSE c \in ImportsOf(b) : c.name = n) = im BY <2>3, <2>4
  <2>7. QED BY <1>3, <2>1, <2>2, <2>3, <2>4, <2>5, <2>6 DEF Ref, Resolve
<1>7. CASE ~\E im \in file.imports : im.name = n
  <2>1. ~\E im \in ImportsOf(b) : im.name = n BY <1>5, <1>7
  <2>2. QED BY <1>3, <1>7, <2>1 DEF Ref, Resolve
<1>8. QED BY <1>6, <1>7

\* After the second check every text refers to what its name is read as.
LEMMA TextIs ==
  ASSUME SessionAssumption, NEW b, NEW conf, NEW k, NEW file, NEW m, Checked(b, conf, k, file, m),
         NEW i \in Texted(b), NEW j \in DOMAIN b[i].uses
  PROVE  TextFacts(b, conf, file, m, i, b[i].uses[j], Rechecked(b, file, conf)[i][j])
<1> DEFINE u == b[i].uses[j]
           n == u.name
           r == Ref(b, i, n, conf)
           w == Reading(b, i, n, conf)
           p == Phase1Texts(b, conf)[i][j]
           s == TextOf(b, conf, m, i, j)
           t == Rechecked(b, file, conf)[i][j]
           v == Resolve(n, Locals(b, i), Top2(b), file.imports, conf)
<1>1. BlockOK(b) /\ ConfOK(conf, k) /\ Check1(b, conf) /\ Check2(b, file, conf) BY DEF Checked
<1>2. IsUse(b, i, n) /\ p = Text(u, IF b[i].k = "func" THEN None ELSE r) BY <1>1, Phase1TextIs
<1>3. /\ t = Recheck(b, file, Locals(b, i), s, conf) /\ t \in TextsOf(Rechecked(b, file, conf))
  BY RecheckedShape
<1>4. Sound(t, t.obj) BY <1>1, <1>3 DEF Check2
<1>5. s = IF IsOld(p.obj, conf) /\ p.q = Unqualified THEN [p EXCEPT !.q = ShortName(m, p.obj.path)] ELSE p
  BY DEF TextOf, Prepend
<1>6. i \in DOMAIN b /\ b[i].k \in InitKinds \cup {"type", "func"} BY <1>1, <1>2, UseNames
<1>7. p = [q |-> Unqualified, name |-> n, qual |-> u.qual, prefix |-> FALSE,
           obj |-> IF b[i].k = "func" THEN None ELSE r]
  BY <1>2 DEF Text
<1> HIDE DEF r, w, p, s, t, v, n, u
<1>8. CASE b[i].k = "func"
  <2>1. ~IsOld(p.obj, conf) BY <1>7, <1>8, ObjectsApart DEF IsOld
  <2>2. s = p BY <1>5, <2>1
  <2>3. t = [p EXCEPT !.obj = v] BY <1>3, <1>7, <2>2 DEF Recheck, Meaning2, v
  <2>4. v = w BY <1>1, <1>2, <1>8, FunctionMeaning, FunctionReading DEF v, w
  <2>5. t = [q |-> Unqualified, name |-> n, qual |-> u.qual, prefix |-> FALSE, obj |-> w] BY <1>7, <2>3, <2>4
  <2>6. QED BY <1>4, <1>8, <2>4, <2>5 DEF TextFacts, w, v, t, n, u
<1>9. CASE b[i].k # "func"
  <2>1. Locals(b, i) = {} BY <1>9 DEF Locals
  <2>2. Sound(u, r)
    <3>1. i \in At(b, InitKinds \cup {"type"}) BY <1>6, <1>9 DEF At
    <3>2. Sound(u, Meaning1(b, i, n, conf)) BY <1>1, <3>1 DEF Check1, u, n
    <3>3. QED BY <1>1, <1>2, <1>9, <3>2, Meaning1Is DEF r
  <2>3. p = [q |-> Unqualified, name |-> n, qual |-> u.qual, prefix |-> FALSE, obj |-> r] BY <1>7, <1>9
  <2>4. CASE ~IsOld(r, conf)
    <3>1. s = p BY <1>5, <2>3, <2>4
    <3>2. t = [p EXCEPT !.obj = v] BY <1>3, <2>3, <3>1 DEF Recheck, Meaning2, v
    <3>3. t = [q |-> Unqualified, name |-> n, qual |-> u.qual, prefix |-> FALSE, obj |-> v] BY <2>3, <3>2
    <3>4. v = w
      <4>1. u.name = n BY DEF n
      <4>2. v = Resolve(n, {}, Top2(b), file.imports, conf) BY <2>1 DEF v
      <4>3. QED BY <1>2, <1>9, <2>2, <2>4, <4>1, <4>2, MeaningStays DEF r, w
    <3>5. ~IsOld(w, conf) BY <2>4, ReadingIs DEF r, w
    <3>6. QED BY <1>4, <3>3, <3>4, <3>5 DEF TextFacts, w, v, t, n, u
  <2>5. CASE IsOld(r, conf)
    <3> DEFINE q == ShortName(m, r.path)
    <3>1. r.path \in Paths1(b, conf)
      <4>1. p \in TextsOf(Phase1Texts(b, conf))
        <5>1. i \in DOMAIN Phase1Texts(b, conf) /\ j \in DOMAIN Phase1Texts(b, conf)[i] BY <1>1, Phase1TextIs
        <5>2. QED BY <5>1 DEF TextsOf, p
      <4>2. QED BY <2>3, <2>5, <4>1 DEF Paths1, OldPaths
    <3>2. q # Unqualified
      <4>1. [name |-> q, path |-> r.path] \in file.imports BY <3>1, FileImports
      <4>2. QED BY <4>1, FileImports
    <3> HIDE DEF q
    <3>3. s = [q |-> q, name |-> n, qual |-> u.qual, prefix |-> FALSE, obj |-> r] BY <1>5, <2>3, <2>5 DEF q
    <3>4. t = s \/ t = [s EXCEPT !.obj = None] BY <1>3, <3>2, <3>3 DEF Recheck
    <3>5. t = s BY <1>4, <3>3, <3>4 DEF Sound
    <3>6. w = r BY <2>5, ReadingIs DEF r, w
    <3>7. t = [q |-> t.q, name |-> n, qual |-> u.qual, obj |-> w, prefix |-> FALSE] BY <3>3, <3>5, <3>6
    <3>8. t.q # Unqualified /\ t.q = ShortName(m, t.obj.path) /\ t.obj = r BY <3>2, <3>3, <3>5 DEF q
    <3>9. QED BY <1>4, <1>9, <2>5, <3>1, <3>7, <3>8 DEF TextFacts, w, t, n, u
  <2>6. QED BY <2>4, <2>5
<1>10. QED BY <1>8, <1>9

\* The old packages that are named when everything has been checked are packages of earlier blocks.
LEMMA FinalPathsAre ==
  ASSUME SessionAssumption, NEW b, NEW conf, NEW k, NEW file, NEW m, Checked(b, conf, k, file, m)
  PROVE  /\ OldPaths(Rechecked(b, file, conf), conf) \subseteq {Exec(j) : j \in 1 .. (k - 1)}
         /\ \A t \in TextsOf(Rechecked(b, file, conf)) : \E i \in Texted(b) : \E j \in DOMAIN b[i].uses :
              t = Rechecked(b, file, conf)[i][j] /\ TextFacts(b, conf, file, m, i, b[i].uses[j], t)
<1> DEFINE texts == Rechecked(b, file, conf)
<1>1. ASSUME NEW t \in TextsOf(texts)
      PROVE  \E i \in Texted(b) : \E j \in DOMAIN b[i].uses :
                t = texts[i][j] /\ TextFacts(b, conf, file, m, i, b[i].uses[j], t)
  <2>1. PICK i \in DOMAIN texts : \E j \in DOMAIN texts[i] : t = texts[i][j] BY DEF TextsOf
  <2>2. PICK j \in DOMAIN texts[i] : t = texts[i][j] BY <2>1
  <2>3. i \in Texted(b) /\ j \in DOMAIN b[i].uses BY RecheckedShape
  <2>4. QED BY <2>2, <2>3, TextIs
<1>2. ASSUME NEW p \in OldPaths(texts, conf) PROVE p \in {Exec(j) : j \in 1 .. (k - 1)}
  <2>1. PICK t \in TextsOf(texts) : IsOld(t.obj, conf) /\ t.obj.path = p BY DEF OldPaths
  <2>2. PICK i \in Texted(b) : \E j \in DOMAIN b[i].uses :
                t = texts[i][j] /\ TextFacts(b, conf, file, m, i, b[i].uses[j], t)
    BY <1>1
  <2>3. PICK j \in DOMAIN b[i].uses : TextFacts(b, conf, file, m, i, b[i].uses[j], t) BY <2>2
  <2>4. t.obj = Ref(b, i, b[i].uses[j].name, conf) BY <2>1, <2>3, ReadingIs DEF TextFacts
  <2>5. BlockOK(b) /\ ConfOK(conf, k) /\ IsUse(b, i, b[i].uses[j].name) BY DEF Checked, IsUse
  <2>6. \E l \in 1 .. (k - 1) : t.obj = Obj(Exec(l), b[i].uses[j].name) BY <2>1, <2>4, <2>5, RefOld
  <2>7. QED BY <2>1, <2>6, ObjectsApart
<1>3. QED BY <1>1, <1>2

-------------------------------------------------------------------------------
(* The final manager and the source.                                       *)

Outer2(b, file, conf) == {im.name : im \in file.imports} \cup Top2(b) \cup OldNames(conf)
Paths2(b, texts, conf) ==
  OldPaths(texts, conf) \cup (IF Stops(b, TextsOf(texts)) THEN {CorePath} ELSE {})

\* The last import manager, of the packages that functions and the stopping of functions need.
LEMMA FinalManagerIs ==
  ASSUME SessionAssumption, NEW b, NEW conf, NEW k, NEW file, NEW m, Checked(b, conf, k, file, m),
         NEW texts, texts = Rechecked(b, file, conf)
  PROVE  Managed(file.imports, Outer2(b, file, conf), FinalManager(b, file, texts, conf), Paths2(b, texts, conf))
<1> DEFINE m0 == NewImportManager(file.imports, Outer2(b, file, conf))
           m1 == DemandAll(m0, OldPaths(texts, conf))
           m2 == FinalManager(b, file, texts, conf)
<1>1. BlockOK(b) /\ ConfOK(conf, k) BY DEF Checked
<1>2. IsFiniteSet(Outer2(b, file, conf))
  <2>1. IsFiniteSet({im.name : im \in file.imports})
    <3>1. /\ IsFiniteSet(m.taken) /\ m.taken = Outer1(b, conf) \cup {im.name : im \in m.injected}
      BY DEF Checked, Managed
    <3>2. {im.name : im \in file.imports} \in SUBSET m.taken BY <3>1 DEF Checked, Outer1
    <3>3. QED BY <3>1, <3>2, FS_Subset
  <2>2. IsFiniteSet({im.name : im \in file.imports} \cup Top2(b)) BY <1>1, <2>1, NamesFinite, FS_Union
  <2>3. IsFiniteSet(({im.name : im \in file.imports} \cup Top2(b)) \cup OldNames(conf))
    BY <1>1, <2>2, NamesFinite, FS_Union
  <2>4. QED BY <2>3 DEF Outer2
<1>3. Managed(file.imports, Outer2(b, file, conf), m0, {}) BY <1>2, NewManaged
<1>4. IsFiniteSet(OldPaths(texts, conf)) BY <1>1, FinalPathsAre, OldPathsFinite DEF ConfOK, SessionAssumption
<1>5. Managed(file.imports, Outer2(b, file, conf), m1, {} \cup OldPaths(texts, conf)) BY <1>3, <1>4, DemandAllManaged
<1>6. {} \cup OldPaths(texts, conf) = OldPaths(texts, conf) OBVIOUS
<1>7. m2 = IF Stops(b, TextsOf(texts)) THEN Demand(m1, CorePath) ELSE m1 BY DEF FinalManager, Outer2
<1> HIDE DEF m0, m1, m2
<1>8. CASE Stops(b, TextsOf(texts))
  <2>1. Paths2(b, texts, conf) = OldPaths(texts, conf) \cup {CorePath} BY <1>8 DEF Paths2
  <2>2. m2 = Demand(m1, CorePath) BY <1>7, <1>8
  <2>3. QED BY <1>5, <1>6, <2>1, <2>2, DemandManaged DEF m2
<1>9. CASE ~Stops(b, TextsOf(texts))
  <2>1. Paths2(b, texts, conf) = OldPaths(texts, conf) BY <1>9 DEF Paths2
  <2>2. m2 = m1 BY <1>7, <1>9
  <2>3. QED BY <1>5, <1>6, <2>1, <2>2 DEF m2
<1>10. QED BY <1>8, <1>9

\* The source of a block that both checks accept, with the two import managers and the texts it is made from.
Made(b, conf, k, file, m, texts, m2, src) ==
  /\ Checked(b, conf, k, file, m)
  /\ texts = Rechecked(b, file, conf) /\ m2 = FinalManager(b, file, texts, conf) /\ src = Final(b, file, conf)

UsedBy(b, file, texts, im) == im \in file.imports /\ im.name \in UsedNames(b, file, TextsOf(texts))

\* The parts of the source (finalCheckAndRename).
LEMMA SourceIs ==
  ASSUME SessionAssumption, NEW b, NEW conf, NEW k, NEW file, NEW m, NEW texts, NEW m2, NEW src,
         Made(b, conf, k, file, m, texts, m2, src)
  PROVE  /\ src.path = conf.path /\ src.init = LgoInitBody(b)
         /\ src.defs = {[name |-> n, prefix |-> DefPrefix(n)] : n \in Top2(b)}
         /\ src.core = IF Stops(b, TextsOf(texts)) THEN ShortName(m2, CorePath) ELSE Unqualified
         /\ \A im \in src.imports : im.name # BlankName =>
               im \in m2.injected \/ im \in SessionImports(file, TextsOf(texts)) \/ UsedBy(b, file, texts, im)
         /\ m2.injected \subseteq src.imports
         /\ SessionImports(file, TextsOf(texts)) \subseteq src.imports
         /\ \A im : UsedBy(b, file, texts, im) => im \in src.imports
         /\ DOMAIN src.texts = DOMAIN texts
         /\ \A i \in DOMAIN texts : /\ DOMAIN src.texts[i] = DOMAIN texts[i]
                                    /\ \A j \in DOMAIN texts[i] :
                                         src.texts[i][j] = Rename(Prepend(m2, texts[i][j], conf))
<1> DEFINE blank(im) == IF im.name \in UsedNames(b, file, TextsOf(texts)) THEN im ELSE [im EXCEPT !.name = BlankName]
           kept == {blank(im) : im \in file.imports}
<1>1. src = [path |-> conf.path,
             imports |-> m2.injected \cup SessionImports(file, TextsOf(texts)) \cup kept,
             defs |-> {[name |-> n, prefix |-> DefPrefix(n)] : n \in Top2(b)},
             core |-> IF Stops(b, TextsOf(texts)) THEN ShortName(m2, CorePath) ELSE Unqualified,
             texts |-> [i \in DOMAIN texts |-> [j \in DOMAIN texts[i] |-> Rename(Qualify(m2, texts, conf)[i][j])]],
             init |-> LgoInitBody(b)]
  BY DEF Made, Final
<1>2. \A i \in DOMAIN texts : \A j \in DOMAIN texts[i] :
         Qualify(m2, texts, conf)[i][j] = Prepend(m2, texts[i][j], conf)
  BY DEF Qualify
<1>3. ASSUME NEW im \in kept, im.name # BlankName PROVE UsedBy(b, file, texts, im)
  <2>1. PICK c \in file.imports : im = blank(c) OBVIOUS
  <2>2. CASE c.name \in UsedNames(b, file, TextsOf(texts)) BY <2>1, <2>2 DEF UsedBy
  <2>3. CASE c.name \notin UsedNames(b, file, TextsOf(texts))
    <3>1. im = [c EXCEPT !.name = BlankName] BY <2>1, <2>3
    <3>2. c = [name |-> c.name, path |-> c.path] BY FileImports DEF Made
    <3>3. im.name = BlankName BY <3>1, <3>2
    <3>4. QED BY <1>3, <3>3
  <2>4. QED BY <2>2, <2>3
<1>4. \A im : UsedBy(b, file, texts, im) => im \in kept BY DEF UsedBy
<1>5. QED BY <1>1, <1>2, <1>3, <1>4

-------------------------------------------------------------------------------
(* The texts of the source.                                                *)

\* Whatever needs the core package leaves a function that is stopped.
LEMMA CoreStops ==
  ASSUME NEW b, NEW texts, UsesCore(b)
  PROVE  Stops(b, texts)
<1>1. CASE VarSpecs(b) # {} BY <1>1 DEF Stops, HasInit
<1>2. CASE Printed(b) # {}
  <2>1. PICK i : i \in Printed(b) BY <1>2
  <2>2. i \in Stays(b) BY <2>1 DEF Printed, Stays, At, InitKinds
  <2>3. QED BY <2>2 DEF Stops, HasInit
<1>3. QED BY <1>1, <1>2 DEF UsesCore

\* The name that the final manager gives a package it is asked for is an import of the source.
LEMMA FinalNameIs ==
  ASSUME SessionAssumption, NEW b, NEW conf, NEW k, NEW file, NEW m, NEW texts, NEW m2, NEW src,
         Made(b, conf, k, file, m, texts, m2, src), NEW p \in Paths2(b, texts, conf)
  PROVE  /\ [name |-> ShortName(m2, p), path |-> p] \in src.imports
         /\ Numbered(ShortName(m2, p))
         /\ ShortName(m2, p) \notin {Unqualified, BlankName}
         /\ p = CorePath /\ UsesCore(b) =>
               \A im \in file.imports : im.path = CorePath => im.name = ShortName(m2, p)
         /\ \A im \in m2.injected : im.path = p => im.name = ShortName(m2, p)
<1>1. /\ Checked(b, conf, k, file, m) /\ texts = Rechecked(b, file, conf) /\ src = Final(b, file, conf)
      /\ BlockOK(b) /\ ConfOK(conf, k)
  BY DEF Made, Checked
<1>2. Managed(file.imports, Outer2(b, file, conf), m2, Paths2(b, texts, conf)) BY <1>1, FinalManagerIs DEF Made
<1>3. p = CorePath \/ \E j \in 1 .. (k - 1) : p = Exec(j) BY <1>1, FinalPathsAre DEF Paths2
<1>4. \A j \in 1 .. (k - 1) : j \in 1 .. MaxBlocks BY <1>1 DEF ConfOK, SessionAssumption
<1>5. \A im \in ImportsOf(b) : im.path # p BY <1>1, <1>3, <1>4, BlockNames
<1>6. CASE \A im \in file.imports : im.path # p
  <2> DEFINE c == [name |-> ShortName(m2, p), path |-> p]
  <2>1. c \in m2.injected /\ \A im \in m2.injected : im.path = p => im.name = ShortName(m2, p)
    BY <1>2, <1>6, InjectedNameIs
  <2>2. c.name = ShortName(m2, p) OBVIOUS
  <2>3. \E i \in Nat : c.name = PkgName(i) BY <1>2, <2>1 DEF Managed
  <2>4. c \in src.imports BY <2>1, SourceIs
  <2>5. QED BY <1>6, <2>1, <2>2, <2>3, <2>4, NamesApart
<1>7. CASE \E im \in file.imports : im.path = p
  <2>1. PICK im \in file.imports : im.path = p BY <1>7
  <2>2. im \in m.injected BY <1>1, <1>5, <2>1, FileImports
  <2>3. p \in Paths1(b, conf) BY <1>1, <2>1, <2>2, FileImports
  <2>4. \A c \in file.imports : c.path = p => c.name = ShortName(m, p) BY <1>1, <2>3, FileName
  <2>5. PICK c \in m2.names : c.path = p /\ ShortName(m2, p) = c.name BY <1>2, ShortNameIs
  <2>6. \A a \in m2.injected : \A d \in file.imports : d.path # a.path BY <1>2 DEF Managed
  <2>7. m2.names = file.imports \cup m2.injected BY <1>2 DEF Managed
  <2>8. c \in file.imports BY <2>1, <2>5, <2>6, <2>7
  <2>9. ShortName(m2, p) = ShortName(m, p) /\ im.name = ShortName(m2, p) BY <2>1, <2>4, <2>5, <2>8
  <2>10. im = [name |-> im.name, path |-> im.path] /\ Numbered(im.name) /\ im.name \notin {Unqualified, BlankName}
    BY <1>1, <2>1, <2>2, FileImports
  <2>11. im.name \in UsedNames(b, file, TextsOf(texts))
    <3>1. CASE p = CorePath /\ UsesCore(b)
      <4>1. im.name \in {a.name : a \in {d \in file.imports : d.path = CorePath /\ UsesCore(b)}} BY <2>1, <3>1
      <4>2. QED BY <4>1 DEF UsedNames
    <3>2. CASE p \in OldPaths(Phase1Texts(b, conf), conf)
      <4>1. PICK i \in Texted(b) : \E j \in DOMAIN b[i].uses :
                   /\ b[i].k # "func" /\ IsOld(Ref(b, i, b[i].uses[j].name, conf), conf)
                   /\ Ref(b, i, b[i].uses[j].name, conf).path = p
        BY <1>1, <3>2, Paths1Are
      <4>2. PICK j \in DOMAIN b[i].uses : /\ b[i].k # "func" /\ IsOld(Ref(b, i, b[i].uses[j].name, conf), conf)
                                          /\ Ref(b, i, b[i].uses[j].name, conf).path = p
        BY <4>1
      <4>3. TextFacts(b, conf, file, m, i, b[i].uses[j], texts[i][j]) BY <1>1, TextIs
      <4>4. texts[i][j].obj = Ref(b, i, b[i].uses[j].name, conf) BY <4>2, <4>3, ReadingIs DEF TextFacts
      <4>5. texts[i][j].q = ShortName(m, p) BY <4>2, <4>3, <4>4 DEF TextFacts
      <4>6. texts[i][j] \in TextsOf(texts) BY <1>1, RecheckedShape
      <4>7. QED BY <2>9, <4>5, <4>6 DEF UsedNames
    <3>3. (p = CorePath /\ UsesCore(b)) \/ p \in OldPaths(Phase1Texts(b, conf), conf)
      BY <2>3 DEF Paths1
    <3>4. QED BY <3>1, <3>2, <3>3
  <2>12. im \in src.imports BY <2>1, <2>11, SourceIs DEF UsedBy
  <2>13. \A a \in m2.injected : a.path # p BY <2>1, <2>6
  <2>14. QED BY <2>1, <2>4, <2>9, <2>10, <2>12, <2>13
<1>8. QED BY <1>6, <1>7

\* A qualifier is put before a text, and nothing else of it changes.
LEMMA QualifiedText ==
  ASSUME NEW a, NEW n, NEW l, NEW o, NEW c, NEW x, NEW t, t = [q |-> a, name |-> n, qual |-> l, obj |-> o, prefix |-> c]
  PROVE  [t EXCEPT !.q = x] = [q |-> x, name |-> n, qual |-> l, obj |-> o, prefix |-> c]
OBVIOUS

\* The text of a use in the source: what it refers to, how it is qualified and renamed.
FinalText(b, conf, src, i, u, f) ==
  /\ f = [q |-> f.q, name |-> u.name, qual |-> u.qual, obj |-> Reading(b, i, u.name, conf), prefix |-> RefPrefix(f)]
  /\ f.q # Unqualified <=> IsOld(f.obj, conf)
  /\ f.q # Unqualified => [name |-> f.q, path |-> f.obj.path] \in src.imports /\ Numbered(f.q) /\ f.q # BlankName

\* How the text of every use reads in the source, and that its qualifier is imported.
LEMMA FinalTextIs ==
  ASSUME SessionAssumption, NEW b, NEW conf, NEW k, NEW file, NEW m, NEW texts, NEW m2, NEW src,
         Made(b, conf, k, file, m, texts, m2, src), NEW i \in Texted(b), NEW j \in DOMAIN b[i].uses
  PROVE  /\ i \in DOMAIN src.texts /\ j \in DOMAIN src.texts[i] /\ DOMAIN src.texts[i] = DOMAIN b[i].uses
         /\ FinalText(b, conf, src, i, b[i].uses[j], src.texts[i][j])
         /\ src.texts[i][j].q = IF IsOld(texts[i][j].obj, conf) /\ texts[i][j].q = Unqualified
                                THEN ShortName(m2, texts[i][j].obj.path) ELSE texts[i][j].q
         /\ src.texts[i][j].obj = texts[i][j].obj /\ src.texts[i][j].name = texts[i][j].name
<1> DEFINE u == b[i].uses[j]
           t == texts[i][j]
           f == src.texts[i][j]
           q == IF IsOld(t.obj, conf) /\ t.q = Unqualified THEN ShortName(m2, t.obj.path) ELSE t.q
           no == FALSE
<1>1. Checked(b, conf, k, file, m) /\ texts = Rechecked(b, file, conf) BY DEF Made
<1>2. TextFacts(b, conf, file, m, i, u, t) BY <1>1, TextIs
<1>3. /\ i \in DOMAIN texts /\ j \in DOMAIN texts[i] /\ t \in TextsOf(texts) /\ DOMAIN texts[i] = DOMAIN b[i].uses
  BY <1>1, RecheckedShape
<1>4. /\ i \in DOMAIN src.texts /\ j \in DOMAIN src.texts[i] /\ f = Rename(Prepend(m2, t, conf))
      /\ DOMAIN src.texts[i] = DOMAIN b[i].uses
  BY <1>3, SourceIs
<1> HIDE DEF u, t, f, q, no
<1>5. t = [q |-> t.q, name |-> u.name, qual |-> u.qual, obj |-> Reading(b, i, u.name, conf), prefix |-> no]
  BY <1>2 DEF TextFacts, no
<1>6. Prepend(m2, t, conf) = [q |-> q, name |-> u.name, qual |-> u.qual, obj |-> Reading(b, i, u.name, conf), prefix |-> no]
  <2>1. CASE IsOld(t.obj, conf) /\ t.q = Unqualified
    <3>1. Prepend(m2, t, conf) = [t EXCEPT !.q = ShortName(m2, t.obj.path)] BY <2>1 DEF Prepend
    <3>2. q = ShortName(m2, t.obj.path) BY <2>1 DEF q
    <3>3. QED BY <1>5, <3>1, <3>2, QualifiedText
  <2>2. CASE ~(IsOld(t.obj, conf) /\ t.q = Unqualified) BY <1>5, <2>2 DEF Prepend, q
  <2>3. QED BY <2>1, <2>2
<1>7. f = [q |-> q, name |-> u.name, qual |-> u.qual, obj |-> Reading(b, i, u.name, conf), prefix |-> RefPrefix(f)]
  BY <1>4, <1>6 DEF Rename, RefPrefix
<1>8. f.q = q /\ f.obj = t.obj /\ f.name = t.name BY <1>5, <1>7
<1>9. CASE IsOld(t.obj, conf) /\ t.q = Unqualified
  <2>1. t.obj.path \in Paths2(b, texts, conf) BY <1>3, <1>9 DEF Paths2, OldPaths
  <2>2. q = ShortName(m2, t.obj.path) BY <1>9 DEF q
  <2>3. [name |-> q, path |-> f.obj.path] \in src.imports /\ Numbered(q) /\ q \notin {Unqualified, BlankName}
    BY <1>8, <2>1, <2>2, FinalNameIs
  <2>4. QED BY <1>3, <1>4, <1>7, <1>8, <1>9, <2>3 DEF FinalText, u, t, f, q
<1>10. CASE t.q # Unqualified
  <2>1. q = t.q BY <1>10 DEF q
  <2>2. /\ t.q = ShortName(m, t.obj.path) /\ t.obj.path \in Paths1(b, conf) /\ IsOld(t.obj, conf)
    BY <1>2, <1>10 DEF TextFacts
  <2>3. [name |-> q, path |-> t.obj.path] \in m.injected BY <1>1, <2>1, <2>2, FileImports
  <2> DEFINE im == [name |-> q, path |-> t.obj.path]
  <2>4. im.name = q OBVIOUS
  <2>5. im \in file.imports /\ Numbered(q) /\ q # BlankName BY <1>1, <2>3, <2>4, FileImports
  <2>6. q \in UsedNames(b, file, TextsOf(texts)) BY <1>3, <2>1 DEF UsedNames
  <2>7. im \in src.imports BY <2>4, <2>5, <2>6, SourceIs DEF UsedBy
  <2>8. QED BY <1>3, <1>4, <1>7, <1>8, <1>10, <2>1, <2>2, <2>5, <2>7 DEF FinalText, u, t, f, q
<1>11. CASE ~IsOld(t.obj, conf) /\ t.q = Unqualified
  <2>1. q = Unqualified BY <1>11 DEF q
  <2>2. QED BY <1>3, <1>4, <1>7, <1>8, <1>11, <2>1 DEF FinalText, u, t, f, q
<1>12. QED BY <1>9, <1>10, <1>11

-------------------------------------------------------------------------------
(* The imports of the source.                                              *)

\* A text that refers to a package: the file or the session imports it under the name that is written.
PackageText(b, conf, file, texts, t) ==
  /\ t.q = Unqualified /\ t.name \notin {Unqualified, BlankName} /\ t.name \notin Top2(b)
  /\ \/ \E im \in file.imports : im.name = t.name /\ t.obj = Pkg(im.path) /\ UsedBy(b, file, texts, im)
     \/ /\ \A im \in file.imports : im.name # t.name
        /\ t.obj = OldValue(conf, t.name) /\ t.name \in OldNames(conf)
        /\ [name |-> t.name, path |-> t.obj.path] \in SessionImports(file, TextsOf(texts))

\* A package that is written by its name is imported by the file, or by the session.
LEMMA PackageTextIs ==
  ASSUME SessionAssumption, NEW b, NEW conf, NEW k, NEW file, NEW m, NEW texts, NEW m2, NEW src,
         Made(b, conf, k, file, m, texts, m2, src), NEW i \in Texted(b), NEW j \in DOMAIN b[i].uses,
         texts[i][j].obj.is = "package"
  PROVE  PackageText(b, conf, file, texts, texts[i][j])
<1> DEFINE t == texts[i][j]
           n == b[i].uses[j].name
<1>1. Checked(b, conf, k, file, m) /\ texts = Rechecked(b, file, conf) /\ BlockOK(b) /\ ConfOK(conf, k)
  BY DEF Made, Checked
<1>2. TextFacts(b, conf, file, m, i, b[i].uses[j], t) /\ t \in TextsOf(texts) BY <1>1, TextIs, RecheckedShape
<1>3. IsUse(b, i, n) BY DEF IsUse
<1>4. n \notin {Unqualified, BlankName} /\ n \in AllNames BY <1>1, <1>3, UseNames
<1> HIDE DEF t
<1>5. t.q = Unqualified BY <1>2 DEF TextFacts, IsOld, t
<1>6. t.name = n BY <1>2 DEF TextFacts
<1>7. t.obj = Resolve(n, Locals(b, i), Top2(b), file.imports, conf) BY <1>2, <1>5 DEF TextFacts
<1>8. n \notin Locals(b, i) /\ n \notin Top2(b)
  <2>1. t.obj.is = "package" BY DEF t
  <2>2. CASE n \in Locals(b, i)
    <3>1. t.obj = Local BY <1>7, <2>2 DEF Resolve
    <3>2. QED BY <2>1, <3>1, ObjectsApart
  <2>3. CASE n \in Top2(b) \ Locals(b, i)
    <3>1. t.obj = Obj(conf.path, n) BY <1>7, <2>3 DEF Resolve
    <3>2. QED BY <2>1, <3>1, ObjectsApart
  <2>4. QED BY <2>2, <2>3
<1>9. CASE \E im \in file.imports : im.name = n
  <2>1. PICK im \in file.imports : im.name = n BY <1>9
  <2>2. \A c \in file.imports : c.name = n => c = im BY <1>1, <2>1, FileImports
  <2>3. (CHOOSE c \in file.imports : c.name = n) = im BY <2>1, <2>2
  <2>4. t.obj = Pkg(im.path) BY <1>7, <1>8, <2>1, <2>3 DEF Resolve
  <2>5. im.name \in UsedNames(b, file, TextsOf(texts)) BY <1>2, <1>6, <2>1 DEF UsedNames, t
  <2>6. QED BY <1>4, <1>5, <1>6, <1>8, <2>1, <2>4, <2>5 DEF PackageText, UsedBy, t
<1>10. CASE \A im \in file.imports : im.name # n
  <2>1. t.obj = OldValue(conf, n) BY <1>7, <1>8, <1>10 DEF Resolve
  <2>2. n \in OldNames(conf) BY <1>1, <1>4, <2>1, ObjectsApart DEF OldNames, ConfOK, t
  <2>3. [name |-> t.name, path |-> t.obj.path] \in SessionImports(file, TextsOf(texts))
    BY <1>2, <1>6, <1>10 DEF SessionImports, t
  <2>4. QED BY <1>4, <1>5, <1>6, <1>8, <1>10, <2>1, <2>2, <2>3 DEF PackageText, t
<1>11. QED BY <1>9, <1>10

\* Imports that the session adds: their names are free, and used.
LEMMA SessionImportIs ==
  ASSUME SessionAssumption, NEW b, NEW conf, NEW k, NEW file, NEW m, NEW texts, NEW m2, NEW src,
         Made(b, conf, k, file, m, texts, m2, src), NEW im \in SessionImports(file, TextsOf(texts))
  PROVE  /\ \E i \in Texted(b) : \E j \in DOMAIN b[i].uses :
               texts[i][j].obj.is = "package" /\ texts[i][j].name = im.name
         /\ im.name \notin {Unqualified, BlankName} /\ im.name \notin Top2(b)
         /\ \A c \in file.imports : c.name # im.name
         /\ im.name \in OldNames(conf) /\ im = [name |-> im.name, path |-> OldValue(conf, im.name).path]
<1>1. PICK t \in TextsOf(texts) : /\ im = [name |-> t.name, path |-> t.obj.path]
                                  /\ t.obj.is = "package" /\ t.name \notin {c.name : c \in file.imports}
  BY DEF SessionImports
<1>2. PICK i \in Texted(b) : \E j \in DOMAIN b[i].uses : t = texts[i][j] BY FinalPathsAre DEF Made
<1>3. PICK j \in DOMAIN b[i].uses : t = texts[i][j] BY <1>2
<1>4. PackageText(b, conf, file, texts, t) BY <1>1, <1>3, PackageTextIs
<1>5. im.name = t.name BY <1>1
<1>6. \A c \in file.imports : c.name # t.name BY <1>1
<1>7. t.obj = OldValue(conf, t.name) /\ t.name \in OldNames(conf) BY <1>4, <1>6 DEF PackageText
<1>8. t.name \notin {Unqualified, BlankName} /\ t.name \notin Top2(b) BY <1>4 DEF PackageText
<1>9. QED BY <1>1, <1>3, <1>5, <1>6, <1>7, <1>8

\* The three reasons why an import of the source has a name.
NamedFor(b, conf, file, texts, m2, im) ==
  \/ im \in m2.injected /\ im.path \in Paths2(b, texts, conf) /\ im.name \notin Outer2(b, file, conf)
  \/ im \in SessionImports(file, TextsOf(texts))
  \/ UsedBy(b, file, texts, im)

\* Every import with a name has one of these reasons, and no definition has its name.
LEMMA NamedImport ==
  ASSUME SessionAssumption, NEW b, NEW conf, NEW k, NEW file, NEW m, NEW texts, NEW m2, NEW src,
         Made(b, conf, k, file, m, texts, m2, src), NEW im \in src.imports, im.name # BlankName
  PROVE  /\ NamedFor(b, conf, file, texts, m2, im)
         /\ im.name # Unqualified /\ im.name \notin Top2(b)
<1>1. Managed(file.imports, Outer2(b, file, conf), m2, Paths2(b, texts, conf)) BY FinalManagerIs DEF Made
<1>2. Checked(b, conf, k, file, m) BY DEF Made
<1>3. CASE im \in m2.injected
  <2>1. /\ im.path \in Paths2(b, texts, conf) /\ im.name \notin Outer2(b, file, conf)
        /\ \E i \in Nat : im.name = PkgName(i)
    BY <1>1, <1>3 DEF Managed
  <2>2. im.name # Unqualified BY <2>1, NamesApart
  <2>3. im.name \notin Top2(b) BY <2>1 DEF Outer2
  <2>4. QED BY <1>3, <2>1, <2>2, <2>3 DEF NamedFor
<1>4. CASE im \in SessionImports(file, TextsOf(texts)) BY <1>4, SessionImportIs DEF NamedFor
<1>5. CASE UsedBy(b, file, texts, im) BY <1>2, <1>5, FileImports DEF NamedFor, UsedBy
<1>6. QED BY <1>3, <1>4, <1>5, SourceIs

\* One import per name.
LEMMA ImportsDistinct ==
  ASSUME SessionAssumption, NEW b, NEW conf, NEW k, NEW file, NEW m, NEW texts, NEW m2, NEW src,
         Made(b, conf, k, file, m, texts, m2, src), NEW a \in src.imports, NEW c \in src.imports,
         a.name # BlankName, a.name = c.name
  PROVE  a = c
<1>1. NamedFor(b, conf, file, texts, m2, a) /\ NamedFor(b, conf, file, texts, m2, c) BY NamedImport
<1>2. Managed(file.imports, Outer2(b, file, conf), m2, Paths2(b, texts, conf)) BY FinalManagerIs DEF Made
<1>3. ASSUME NEW x, NamedFor(b, conf, file, texts, m2, x)
      PROVE  \/ x \in m2.injected /\ x.name \notin Outer2(b, file, conf)
             \/ /\ x.name \in OldNames(conf) /\ x = [name |-> x.name, path |-> OldValue(conf, x.name).path]
                /\ \A d \in file.imports : d.name # x.name
             \/ x \in file.imports
  <2>1. CASE x \in SessionImports(file, TextsOf(texts)) BY <2>1, SessionImportIs
  <2>2. QED BY <1>3, <2>1 DEF NamedFor, UsedBy
<1>4. OldNames(conf) \subseteq Outer2(b, file, conf) /\ \A d \in file.imports : d.name \in Outer2(b, file, conf)
  BY DEF Outer2
<1>5. \A x, y \in m2.injected : x.name = y.name => x = y BY <1>2 DEF Managed
<1>6. \A x, y \in file.imports : x.name = y.name => x = y BY FileImports DEF Made
<1>7. CASE a \in m2.injected /\ a.name \notin Outer2(b, file, conf) BY <1>1, <1>3, <1>4, <1>5, <1>7
<1>8. CASE /\ a.name \in OldNames(conf) /\ a = [name |-> a.name, path |-> OldValue(conf, a.name).path]
           /\ \A d \in file.imports : d.name # a.name
  <2>1. c = [name |-> c.name, path |-> OldValue(conf, c.name).path] BY <1>1, <1>3, <1>4, <1>8
  <2>2. QED BY <1>8, <2>1
<1>9. CASE a \in file.imports
  <2>1. c \in file.imports BY <1>1, <1>3, <1>4, <1>9
  <2>2. QED BY <1>6, <1>9, <2>1
<1>10. QED BY <1>1, <1>3, <1>7, <1>8, <1>9

-------------------------------------------------------------------------------
(* Qualifiers and imports agree.                                           *)

\* The texts of the source are the final texts, and those the texts of the uses of the block.
LEMMA SourceTexts ==
  ASSUME SessionAssumption, NEW b, NEW conf, NEW k, NEW file, NEW m, NEW texts, NEW m2, NEW src,
         Made(b, conf, k, file, m, texts, m2, src)
  PROVE  /\ \A f \in TextsOf(src.texts) : \E i \in Texted(b) : \E j \in DOMAIN b[i].uses : f = src.texts[i][j]
         /\ \A t \in TextsOf(texts) : \E i \in Texted(b) : \E j \in DOMAIN b[i].uses : t = texts[i][j]
         /\ \A i \in Texted(b) : \A j \in DOMAIN b[i].uses :
               src.texts[i][j] \in TextsOf(src.texts) /\ texts[i][j] \in TextsOf(texts)
<1>1. Checked(b, conf, k, file, m) /\ texts = Rechecked(b, file, conf) BY DEF Made
<1>2. DOMAIN texts = Texted(b) /\ \A i \in Texted(b) : DOMAIN texts[i] = DOMAIN b[i].uses
  BY <1>1, RecheckedShape
<1>3. DOMAIN src.texts = Texted(b) /\ \A i \in Texted(b) : DOMAIN src.texts[i] = DOMAIN b[i].uses
  BY <1>2, SourceIs
<1>4. QED BY <1>2, <1>3 DEF TextsOf

\* What the source qualifies something with is imported, under that name.
LEMMA QualifiersImported ==
  ASSUME SessionAssumption, NEW b, NEW conf, NEW k, NEW file, NEW m, NEW texts, NEW m2, NEW src,
         Made(b, conf, k, file, m, texts, m2, src), NEW n \in Qualifiers(src), n # Unqualified
  PROVE  \E im \in src.imports : im.name = n /\ im.name # BlankName
<1>1. CASE \E f \in TextsOf(src.texts) : n = f.q
  <2>1. PICK f \in TextsOf(src.texts) : n = f.q BY <1>1
  <2>2. PICK i \in Texted(b) : \E j \in DOMAIN b[i].uses : f = src.texts[i][j] BY SourceTexts
  <2>3. PICK j \in DOMAIN b[i].uses : f = src.texts[i][j] BY <2>2
  <2>4. FinalText(b, conf, src, i, b[i].uses[j], f) BY <2>3, FinalTextIs
  <2> DEFINE im == [name |-> f.q, path |-> f.obj.path]
  <2>5. im \in src.imports /\ im.name = n /\ n # BlankName BY <2>1, <2>4 DEF FinalText
  <2>6. QED BY <2>5
<1>2. CASE \E f \in TextsOf(src.texts) : f.obj.is = "package" /\ n = f.name
  <2>1. PICK f \in TextsOf(src.texts) : f.obj.is = "package" /\ n = f.name BY <1>2
  <2>2. PICK i \in Texted(b) : \E j \in DOMAIN b[i].uses : f = src.texts[i][j] BY SourceTexts
  <2>3. PICK j \in DOMAIN b[i].uses : f = src.texts[i][j] BY <2>2
  <2> DEFINE t == texts[i][j]
  <2>4. f.obj = t.obj /\ f.name = t.name BY <2>3, FinalTextIs
  <2>5. PackageText(b, conf, file, texts, t) BY <2>1, <2>4, PackageTextIs
  <2>6. n # BlankName /\ n = t.name BY <2>1, <2>4, <2>5 DEF PackageText
  <2> HIDE DEF t
  <2>7. CASE \E im \in file.imports : im.name = t.name /\ UsedBy(b, file, texts, im)
    <3>1. PICK im \in file.imports : im.name = t.name /\ UsedBy(b, file, texts, im) BY <2>7
    <3>2. im \in src.imports BY <3>1, SourceIs
    <3>3. QED BY <2>6, <3>1, <3>2
  <2>8. CASE [name |-> t.name, path |-> t.obj.path] \in SessionImports(file, TextsOf(texts))
    <3> DEFINE im == [name |-> t.name, path |-> t.obj.path]
    <3>1. im \in src.imports /\ im.name = t.name BY <2>8, SourceIs
    <3>2. QED BY <2>6, <3>1
  <2>9. QED BY <2>5, <2>7, <2>8 DEF PackageText
<1>3. CASE n = src.core
  <2>1. Stops(b, TextsOf(texts)) /\ n = ShortName(m2, CorePath) BY <1>3, SourceIs
  <2>2. CorePath \in Paths2(b, texts, conf) BY <2>1 DEF Paths2
  <2> DEFINE im == [name |-> n, path |-> CorePath]
  <2>3. im \in src.imports /\ n # BlankName /\ im.name = n BY <2>1, <2>2, FinalNameIs
  <2>4. QED BY <2>3
<1>4. QED BY <1>1, <1>2, <1>3 DEF Qualifiers

\* Two of the facts about names by themselves.
LEMMA FinalNameInjected ==
  ASSUME SessionAssumption, NEW b, NEW conf, NEW k, NEW file, NEW m, NEW texts, NEW m2, NEW src,
         Made(b, conf, k, file, m, texts, m2, src), NEW p \in Paths2(b, texts, conf)
  PROVE  /\ \A im \in m2.injected : im.path = p => im.name = ShortName(m2, p)
         /\ p = CorePath /\ UsesCore(b) =>
               \A im \in file.imports : im.path = CorePath => im.name = ShortName(m2, p)
<1>1. /\ [name |-> ShortName(m2, p), path |-> p] \in src.imports
      /\ Numbered(ShortName(m2, p))
      /\ ShortName(m2, p) \notin {Unqualified, BlankName}
      /\ p = CorePath /\ UsesCore(b) =>
            \A im \in file.imports : im.path = CorePath => im.name = ShortName(m2, p)
      /\ \A im \in m2.injected : im.path = p => im.name = ShortName(m2, p)
  BY FinalNameIs
<1>2. QED BY <1>1

\* No named import is left unused.
LEMMA ImportsUsed ==
  ASSUME SessionAssumption, NEW b, NEW conf, NEW k, NEW file, NEW m, NEW texts, NEW m2, NEW src,
         Made(b, conf, k, file, m, texts, m2, src), NEW im \in src.imports, im.name # BlankName
  PROVE  im.name \in Qualifiers(src) \ {Unqualified}
<1>1. NamedFor(b, conf, file, texts, m2, im) /\ im.name # Unqualified BY NamedImport
<1>2. \A i \in Texted(b) : \A j \in DOMAIN b[i].uses :
         /\ src.texts[i][j].q \in Qualifiers(src)
         /\ src.texts[i][j].obj.is = "package" => src.texts[i][j].name \in Qualifiers(src)
  BY SourceTexts DEF Qualifiers
<1>3. src.core \in Qualifiers(src) BY DEF Qualifiers
<1>4. CASE im \in m2.injected /\ im.path \in Paths2(b, texts, conf)
  <2>1. im.name = ShortName(m2, im.path) BY <1>4, FinalNameInjected
  <2>2. CASE im.path \in OldPaths(texts, conf)
    <3>1. PICK t \in TextsOf(texts) : IsOld(t.obj, conf) /\ t.q = Unqualified /\ t.obj.path = im.path
      BY <2>2 DEF OldPaths
    <3>2. PICK i \in Texted(b) : \E j \in DOMAIN b[i].uses : t = texts[i][j] BY SourceTexts
    <3>3. PICK j \in DOMAIN b[i].uses : t = texts[i][j] BY <3>2
    <3>4. src.texts[i][j].q = ShortName(m2, t.obj.path) BY <3>1, <3>3, FinalTextIs
    <3>5. QED BY <1>1, <1>2, <2>1, <3>1, <3>4
  <2>3. CASE im.path = CorePath /\ Stops(b, TextsOf(texts))
    <3>1. src.core = im.name BY <2>1, <2>3, SourceIs
    <3>2. QED BY <1>1, <1>3, <3>1
  <2>4. QED BY <1>4, <2>2, <2>3 DEF Paths2
<1>5. CASE im \in SessionImports(file, TextsOf(texts))
  <2>1. PICK i \in Texted(b) : \E j \in DOMAIN b[i].uses :
               texts[i][j].obj.is = "package" /\ texts[i][j].name = im.name
    BY <1>5, SessionImportIs
  <2>2. PICK j \in DOMAIN b[i].uses : texts[i][j].obj.is = "package" /\ texts[i][j].name = im.name BY <2>1
  <2>3. src.texts[i][j].obj.is = "package" /\ src.texts[i][j].name = im.name BY <2>2, FinalTextIs
  <2>4. QED BY <1>1, <1>2, <2>3
<1>6. CASE UsedBy(b, file, texts, im)
  <2>1. CASE \E t \in TextsOf(texts) : t.obj.is = "package" /\ im.name = t.name
    <3>1. PICK t \in TextsOf(texts) : t.obj.is = "package" /\ im.name = t.name BY <2>1
    <3>2. PICK i \in Texted(b) : \E j \in DOMAIN b[i].uses : t = texts[i][j] BY SourceTexts
    <3>3. PICK j \in DOMAIN b[i].uses : t = texts[i][j] BY <3>2
    <3>4. src.texts[i][j].obj.is = "package" /\ src.texts[i][j].name = im.name BY <3>1, <3>3, FinalTextIs
    <3>5. QED BY <1>1, <1>2, <3>4
  <2>2. CASE \E t \in TextsOf(texts) : im.name = t.q
    <3>1. PICK t \in TextsOf(texts) : im.name = t.q BY <2>2
    <3>2. PICK i \in Texted(b) : \E j \in DOMAIN b[i].uses : t = texts[i][j] BY SourceTexts
    <3>3. PICK j \in DOMAIN b[i].uses : t = texts[i][j] BY <3>2
    <3>4. src.texts[i][j].q = im.name BY <1>1, <3>1, <3>3, FinalTextIs
    <3>5. QED BY <1>1, <1>2, <3>4
  <2>3. CASE \E c \in file.imports : c.path = CorePath /\ UsesCore(b) /\ im.name = c.name
    <3>1. PICK c \in file.imports : c.path = CorePath /\ UsesCore(b) /\ im.name = c.name BY <2>3
    <3>2. Stops(b, TextsOf(texts)) BY <3>1, CoreStops
    <3>3. CorePath \in Paths2(b, texts, conf) BY <3>2 DEF Paths2
    <3>4. c.name = ShortName(m2, CorePath) BY <3>1, <3>3, FinalNameInjected
    <3>5. src.core = im.name BY <3>1, <3>2, <3>4, SourceIs
    <3>6. QED BY <1>1, <1>3, <3>5
  <2>4. QED BY <1>6, <2>1, <2>2, <2>3 DEF UsedBy, UsedNames
<1>7. QED BY <1>1, <1>4, <1>5, <1>6 DEF NamedFor

-------------------------------------------------------------------------------
(* What a text denotes to the Go compiler, within its package.             *)

\* A name that the source imports is imported from one package only.
LEMMA PackageOfIs ==
  ASSUME SessionAssumption, NEW b, NEW conf, NEW k, NEW file, NEW m, NEW texts, NEW m2, NEW src,
         Made(b, conf, k, file, m, texts, m2, src), NEW im \in src.imports, im.name # BlankName
  PROVE  PackageOf(src, im.name) = {im}
BY ImportsDistinct DEF PackageOf

\* The only element of a set.
LEMMA PackagePath ==
  ASSUME NEW im, NEW S, S = {im}
  PROVE  S # {} /\ (CHOOSE p \in S : TRUE).path = im.path
<1>1. (CHOOSE p \in S : TRUE) \in S OBVIOUS
<1>2. QED BY <1>1

\* A use that was not qualified, and what the second check made of it.
LEMMA PlainTextIs ==
  ASSUME SessionAssumption, NEW b, NEW conf, NEW k, NEW file, NEW m, NEW texts, NEW m2, NEW src,
         Made(b, conf, k, file, m, texts, m2, src), NEW i \in Texted(b), NEW j \in DOMAIN b[i].uses,
         src.texts[i][j].q = Unqualified
  PROVE  /\ texts[i][j].obj = Resolve(b[i].uses[j].name, Locals(b, i), Top2(b), file.imports, conf)
         /\ Sound(texts[i][j], texts[i][j].obj)
<1> DEFINE t == texts[i][j]
<1>1. Checked(b, conf, k, file, m) /\ texts = Rechecked(b, file, conf) BY DEF Made
<1>2. TextFacts(b, conf, file, m, i, b[i].uses[j], t) BY <1>1, TextIs
<1> HIDE DEF t
<1>3. src.texts[i][j].q = IF IsOld(t.obj, conf) /\ t.q = Unqualified THEN ShortName(m2, t.obj.path) ELSE t.q
  BY FinalTextIs DEF t
<1>4. FinalText(b, conf, src, i, b[i].uses[j], src.texts[i][j]) /\ src.texts[i][j].obj = t.obj BY FinalTextIs DEF t
<1>5. ~IsOld(t.obj, conf) BY <1>4 DEF FinalText
<1>6. t.q = Unqualified BY <1>3, <1>5
<1>7. QED BY <1>2, <1>6 DEF TextFacts, t

\* What the text of a use denotes, but for the members of other packages, is what its author meant.
LEMMA DenotesPlain ==
  ASSUME SessionAssumption, NEW b, NEW conf, NEW k, NEW file, NEW m, NEW texts, NEW m2, NEW src,
         Made(b, conf, k, file, m, texts, m2, src), NEW i \in Texted(b), NEW j \in DOMAIN b[i].uses,
         src.texts[i][j].q = Unqualified, src.texts[i][j].obj # Ctx
  PROVE  Denotes(src, Locals(b, i), src.texts[i][j]) = src.texts[i][j].obj
<1> DEFINE f == src.texts[i][j]
           n == b[i].uses[j].name
           t == texts[i][j]
           locals == Locals(b, i)
           id == [name |-> f.name, prefix |-> f.prefix]
<1>1. Checked(b, conf, k, file, m) /\ BlockOK(b) /\ ConfOK(conf, k) BY DEF Made, Checked
<1>2. IsUse(b, i, n) BY DEF IsUse
<1>3. n \in AllNames /\ n \notin {LgoInit, BlankName, Unqualified} BY <1>1, <1>2, UseNames
<1>4. FinalText(b, conf, src, i, b[i].uses[j], f) /\ f.obj = t.obj /\ f.name = t.name BY FinalTextIs
<1>5. f.name = n /\ f.prefix = RefPrefix(f) /\ ~IsOld(f.obj, conf) BY <1>4 DEF FinalText
<1>6. f.obj = Resolve(n, locals, Top2(b), file.imports, conf) /\ Sound(t, t.obj) BY <1>4, PlainTextIs
<1>7. src.path = conf.path /\ src.defs = {[name |-> x, prefix |-> DefPrefix(x)] : x \in Top2(b)} BY SourceIs
<1>8. f.q = Unqualified /\ f.obj # Ctx OBVIOUS
<1> HIDE DEF f, t, locals, n
<1>9. CASE n \in locals
  <2>1. f.obj = Local BY <1>6, <1>9 DEF Resolve
  <2>2. ~f.prefix BY <1>5, <2>1, ObjectsApart DEF RefPrefix
  <2>3. QED BY <1>5, <1>8, <1>9, <2>1, <2>2 DEF Denotes, f, locals
<1>10. CASE n \in Top2(b) \ locals
  <2>1. f.obj = Obj(conf.path, n) BY <1>6, <1>10 DEF Resolve
  <2>2. RefPrefix(f) = DefPrefix(n) BY <1>3, <1>5, <2>1, ObjectsApart DEF RefPrefix, DefPrefix
  <2>3. id = [name |-> n, prefix |-> DefPrefix(n)] BY <1>5, <2>2
  <2>4. id \in src.defs BY <1>7, <1>10, <2>3
  <2>5. QED BY <1>5, <1>7, <1>8, <1>10, <2>1, <2>4 DEF Denotes, f, locals
<1>11. CASE n \notin locals /\ n \notin Top2(b)
  <2>1. id \notin src.defs BY <1>5, <1>7, <1>11
  <2>2. \A im \in src.imports : im.name = n => Denotes(src, locals, f) = Pkg(im.path)
    <3>1. SUFFICES ASSUME NEW im \in src.imports, im.name = n PROVE Denotes(src, locals, f) = Pkg(im.path) OBVIOUS
    <3>2. PackageOf(src, f.name) = {im} BY <1>3, <1>5, <3>1, PackageOfIs
    <3>3. /\ PackageOf(src, f.name) # {}
          /\ (CHOOSE p \in PackageOf(src, f.name) : TRUE).path = im.path
      BY <3>2, PackagePath
    <3>4. QED BY <1>5, <1>8, <1>11, <2>1, <3>3 DEF Denotes
  <2>3. CASE f.obj.is = "package"
    <3>1. PackageText(b, conf, file, texts, t) BY <1>4, <2>3, PackageTextIs DEF t
    <3>2. CASE \E im \in file.imports : im.name = t.name /\ t.obj = Pkg(im.path) /\ UsedBy(b, file, texts, im)
      <4>1. PICK im \in file.imports : im.name = t.name /\ t.obj = Pkg(im.path) /\ UsedBy(b, file, texts, im)
        BY <3>2
      <4>2. im \in src.imports BY <4>1, SourceIs
      <4>3. QED BY <1>4, <1>5, <2>2, <4>1, <4>2 DEF f, locals
    <3>3. CASE /\ t.obj = OldValue(conf, t.name)
               /\ [name |-> t.name, path |-> t.obj.path] \in SessionImports(file, TextsOf(texts))
      <4> DEFINE im == [name |-> t.name, path |-> t.obj.path]
      <4>1. im \in src.imports /\ im.name = n /\ im.path = f.obj.path BY <1>4, <1>5, <3>3, SourceIs
      <4>2. \E p : f.obj = Pkg(p)
        <5>1. f.obj = OldValue(conf, n) BY <1>4, <1>5, <3>3
        <5>2. \/ f.obj = None \/ f.obj = Ctx \/ \E p : f.obj = Pkg(p)
              \/ IsOld(f.obj, conf)
          BY <1>1, <1>3, <5>1, OldValueIs
        <5>3. QED BY <1>5, <2>3, <5>2, ObjectsApart
      <4>3. Pkg(f.obj.path) = f.obj BY <4>2, ObjectsApart
      <4>4. QED BY <2>2, <4>1, <4>3 DEF f, locals
    <3>4. QED BY <3>1, <3>2, <3>3 DEF PackageText
  <2>4. CASE f.obj.is # "package"
    <3>1. \A im \in file.imports : im.name # n
      <4>1. SUFFICES ASSUME NEW im \in file.imports, im.name = n PROVE FALSE OBVIOUS
      <4>2. f.obj = Pkg((CHOOSE c \in file.imports : c.name = n).path) BY <1>6, <1>11, <4>1 DEF Resolve
      <4>3. QED BY <2>4, <4>2, ObjectsApart
    <3>2. f.obj = OldValue(conf, n) BY <1>6, <1>11, <3>1 DEF Resolve
    <3>3. f.obj # None BY <1>4, <1>6 DEF Sound
    <3>4. QED BY <1>1, <1>3, <1>5, <1>8, <2>4, <3>2, <3>3, OldValueIs, ObjectsApart
  <2>5. QED BY <2>3, <2>4
<1>12. QED BY <1>9, <1>10, <1>11

-------------------------------------------------------------------------------
(* What a text denotes, in the packages of the session.                    *)

\* The definitions of the session that a conversion is given are in the packages they are said to be in.
OldsDefined(conf) ==
  \A n \in AllNames : conf.olds[n] # None /\ n # LgoInit =>
     Member(conf.olds[n].path, [name |-> n, prefix |-> DefPrefix(n)]) = conf.olds[n]

\* A text that is qualified denotes the definition of the earlier block that was meant.
LEMMA DenotesQualified ==
  ASSUME SessionAssumption, NEW b, NEW conf, NEW k, NEW file, NEW m, NEW texts, NEW m2, NEW src,
         Made(b, conf, k, file, m, texts, m2, src), NEW i \in Texted(b), NEW j \in DOMAIN b[i].uses,
         OldsDefined(conf), src.texts[i][j].q # Unqualified
  PROVE  Denotes(src, Locals(b, i), src.texts[i][j]) = src.texts[i][j].obj
<1> DEFINE f == src.texts[i][j]
           n == b[i].uses[j].name
           r == Ref(b, i, n, conf)
           locals == Locals(b, i)
           id == [name |-> f.name, prefix |-> f.prefix]
           im == [name |-> f.q, path |-> f.obj.path]
<1>1. Checked(b, conf, k, file, m) /\ BlockOK(b) /\ ConfOK(conf, k) /\ texts = Rechecked(b, file, conf)
  BY DEF Made, Checked
<1>2. IsUse(b, i, n) BY DEF IsUse
<1>3. n \in AllNames /\ n \notin {LgoInit, BlankName, Unqualified} BY <1>1, <1>2, UseNames
<1>4. FinalText(b, conf, src, i, b[i].uses[j], f) BY FinalTextIs
<1>5. /\ f.name = n /\ f.prefix = RefPrefix(f) /\ f.obj = r /\ IsOld(f.obj, conf)
      /\ im \in src.imports /\ Numbered(f.q) /\ f.q # BlankName
  BY <1>4, ReadingIs DEF FinalText
<1>6. r = conf.olds[n] /\ \E l \in 1 .. (k - 1) : r = Obj(Exec(l), n) BY <1>1, <1>2, <1>5, RefOld
<1> HIDE DEF f, n, r, locals
<1>7. f.q \notin locals
  <2>1. CASE b[i].k = "func"
    <3>1. \A l \in locals : ~Numbered(l) BY <1>1, <1>2, <2>1, UseNames DEF locals
    <3>2. QED BY <1>5, <3>1
  <2>2. CASE b[i].k # "func" BY <2>2 DEF Locals, locals
  <2>3. QED BY <2>1, <2>2
<1>8. f.obj # Ctx /\ f.obj # None /\ RefPrefix(f) = DefPrefix(n)
  <2>1. f.obj.is = "object" BY <1>5 DEF IsOld
  <2>2. f.obj # Ctx /\ f.obj # None BY <2>1, ObjectsApart
  <2>3. RefPrefix(f) = DefPrefix(n) BY <1>3, <1>5, <2>1 DEF RefPrefix, DefPrefix
  <2>4. QED BY <2>2, <2>3
<1>9. id = [name |-> n, prefix |-> DefPrefix(n)] BY <1>5, <1>8
<1>10. Member(f.obj.path, id) = f.obj BY <1>3, <1>5, <1>6, <1>8, <1>9 DEF OldsDefined
<1>11. im.name = f.q /\ im.path = f.obj.path OBVIOUS
<1> HIDE DEF im
<1>12. PackageOf(src, f.q) = {im} BY <1>5, <1>11, PackageOfIs
<1>13. PackageOf(src, f.q) # {} /\ (CHOOSE p \in PackageOf(src, f.q) : TRUE).path = f.obj.path
  BY <1>11, <1>12, PackagePath
<1>14. f.q # Unqualified BY DEF f
<1>15. Denotes(src, locals, f) = f.obj BY <1>7, <1>8, <1>10, <1>13, <1>14 DEF Denotes
<1>16. QED BY <1>15 DEF f, locals

\* _ctx denotes the context of the execution.
LEMMA DenotesContext ==
  ASSUME SessionAssumption, NEW b, NEW conf, NEW k, NEW file, NEW m, NEW texts, NEW m2, NEW src,
         Made(b, conf, k, file, m, texts, m2, src), NEW i \in Texted(b), NEW j \in DOMAIN b[i].uses,
         src.texts[i][j].obj = Ctx
  PROVE  Denotes(src, Locals(b, i), src.texts[i][j]) = Ctx
<1>1. Checked(b, conf, k, file, m) /\ BlockOK(b) BY DEF Made, Checked
<1>2. IsUse(b, i, b[i].uses[j].name) BY DEF IsUse
<1>3. texts[i][j] \in TextsOf(texts) /\ texts[i][j].obj = Ctx BY FinalTextIs, SourceTexts
<1>4. Stops(b, TextsOf(texts)) BY <1>3 DEF Stops
<1>5. CorePath \in Paths2(b, texts, conf) /\ src.core = ShortName(m2, CorePath) BY <1>4, SourceIs DEF Paths2
<1>6. [name |-> src.core, path |-> CorePath] \in src.imports /\ Numbered(src.core) BY <1>5, FinalNameIs
<1>7. src.core \notin Locals(b, i)
  <2>1. CASE b[i].k = "func" BY <1>1, <1>2, <1>6, <2>1, UseNames
  <2>2. CASE b[i].k # "func" BY <2>2 DEF Locals
  <2>3. QED BY <2>1, <2>2
<1>8. PackageOf(src, src.core) # {} BY <1>6 DEF PackageOf
<1>9. QED BY <1>7, <1>8 DEF Denotes

\* In the source of a block every name denotes what it is read as.
LEMMA SourceKeepsMeaning ==
  ASSUME SessionAssumption, NEW b, NEW conf, NEW k, NEW file, NEW m, NEW texts, NEW m2, NEW src,
         Made(b, conf, k, file, m, texts, m2, src), OldsDefined(conf), NEW i \in Texted(b)
  PROVE  /\ DOMAIN src.texts[i] = DOMAIN b[i].uses
         /\ \A j \in DOMAIN b[i].uses :
              Denotes(src, Locals(b, i), src.texts[i][j]) = Reading(b, i, b[i].uses[j].name, conf)
<1>1. /\ DOMAIN texts = Texted(b) /\ DOMAIN texts[i] = DOMAIN b[i].uses BY RecheckedShape DEF Made
<1>2. DOMAIN src.texts[i] = DOMAIN b[i].uses BY <1>1, SourceIs
<1>3. ASSUME NEW j \in DOMAIN b[i].uses
      PROVE  Denotes(src, Locals(b, i), src.texts[i][j]) = Reading(b, i, b[i].uses[j].name, conf)
  <2>1. src.texts[i][j].obj = Reading(b, i, b[i].uses[j].name, conf)
    <3>1. FinalText(b, conf, src, i, b[i].uses[j], src.texts[i][j]) BY FinalTextIs
    <3>2. QED BY <3>1 DEF FinalText
  <2>2. CASE src.texts[i][j].obj = Ctx BY <2>1, <2>2, DenotesContext
  <2>3. CASE src.texts[i][j].obj # Ctx /\ src.texts[i][j].q = Unqualified BY <2>1, <2>3, DenotesPlain
  <2>4. CASE src.texts[i][j].q # Unqualified BY <2>1, <2>4, DenotesQualified
  <2>5. QED BY <2>2, <2>3, <2>4
<1>4. QED BY <1>2, <1>3

-------------------------------------------------------------------------------
(* The body of lgo_init.                                                   *)

\* A block has finitely many variables.
LEMMA VarSpecsFinite ==
  ASSUME NEW b, BlockOK(b)
  PROVE  IsFiniteSet(VarSpecs(b))
<1> DEFINE I == At(b, {"var", "define"})
           J(i) == IF b[i].k = "var" THEN DOMAIN b[i].names ELSE New(b, i)
           f == [i \in I |-> {i} \X J(i)]
<1>1. Len(b) \in Nat /\ DOMAIN b = 1 .. Len(b) /\ I \in SUBSET (1 .. Len(b)) BY DEF BlockOK, At
<1>2. IsFiniteSet(I)
  <2>1. IsFiniteSet(1 .. Len(b)) BY <1>1, FS_Interval
  <2> HIDE DEF I
  <2>2. QED BY <1>1, <2>1, FS_Subset
<1>3. ASSUME NEW i \in I PROVE IsFiniteSet({i} \X J(i))
  <2>1. StatementOK(b[i]) BY DEF BlockOK, At
  <2>2. Len(b[i].names) \in Nat /\ DOMAIN b[i].names = 1 .. Len(b[i].names) BY <2>1 DEF StatementOK
  <2>3. IsFiniteSet(1 .. Len(b[i].names))
    <3>1. \A n \in Nat : IsFiniteSet(1 .. n) BY FS_Interval
    <3>2. QED BY <2>2, <3>1
  <2>4. J(i) \in SUBSET (1 .. Len(b[i].names)) BY <2>2 DEF New
  <2>5. IsFiniteSet(J(i)) /\ IsFiniteSet({i}) BY <2>3, <2>4, FS_Subset, FS_Singleton
  <2> HIDE DEF J
  <2>6. QED BY <2>5, FS_Product
<1>4. DOMAIN f = I /\ \A i \in I : f[i] = {i} \X J(i) OBVIOUS
<1>5. VarSpecs(b) = UNION {{i} \X J(i) : i \in I} BY DEF VarSpecs
<1> HIDE DEF I, J, f
<1>6. IsFiniteSet({f[i] : i \in I}) BY <1>2, <1>4, ImageFinite
<1>7. \A T \in {f[i] : i \in I} : IsFiniteSet(T) BY <1>3, <1>4
<1>8. IsFiniteSet(UNION {f[i] : i \in I}) BY <1>6, <1>7, FS_UNION
<1>9. VarSpecs(b) = UNION {f[i] : i \in I} BY <1>4, <1>5
<1>10. QED BY <1>8, <1>9

\* Two sequences given by their elements, one after the other.
LEMMA Following ==
  ASSUME NEW m \in Nat, NEW n \in Nat, NEW s, NEW t, s = [i \in 1 .. m |-> s[i]], t = [i \in 1 .. n |-> t[i]]
  PROVE  /\ DOMAIN (s \o t) = 1 .. (m + n) /\ Len(s \o t) = m + n
         /\ \A i \in 1 .. m : (s \o t)[i] = s[i]
         /\ \A i \in 1 .. n : (s \o t)[m + i] = t[i]
<1> DEFINE T == {s[i] : i \in 1 .. m} \cup {t[i] : i \in 1 .. n}
<1>1. s \in [1 .. m -> T] /\ t \in [1 .. n -> T] OBVIOUS
<1>2. s \in Seq(T) /\ t \in Seq(T) /\ Len(s) = m /\ Len(t) = n
  <2> HIDE DEF T
  <2>1. QED BY <1>1
<1> HIDE DEF T
<1>3. QED BY <1>2

\* The body of lgo_init: the registers of the variables, in some order, and the statements, in theirs.
BodyIs(b, init, specs, stays) ==
  /\ Lists(specs, VarSpecs(b)) /\ Ascends(stays, Stays(b))
  /\ Cardinality(VarSpecs(b)) \in Nat /\ Cardinality(Stays(b)) \in Nat
  /\ DOMAIN init = 1 .. (Cardinality(VarSpecs(b)) + Cardinality(Stays(b)))
  /\ Len(init) = Cardinality(VarSpecs(b)) + Cardinality(Stays(b))
  /\ \A r \in 1 .. Cardinality(VarSpecs(b)) : init[r] = Register(specs[r])
  /\ \A r \in 1 .. Cardinality(Stays(b)) : init[Cardinality(VarSpecs(b)) + r] = Step(b, stays[r])

\* LgoInitBody is of this form.
LEMMA BodyExists ==
  ASSUME NEW b, BlockOK(b)
  PROVE  \E specs, stays : BodyIs(b, LgoInitBody(b), specs, stays)
<1> DEFINE specs == Listing(VarSpecs(b))
           stays == InOrder(Stays(b))
           v == Cardinality(VarSpecs(b))
           w == Cardinality(Stays(b))
           s == [r \in 1 .. v |-> Register(specs[r])]
           t == [r \in 1 .. w |-> Step(b, stays[r])]
<1>1. v \in Nat /\ Lists(specs, VarSpecs(b)) BY VarSpecsFinite, ListingIs
<1>2. Len(b) \in Nat /\ Stays(b) \subseteq 1 .. Len(b) BY DEF BlockOK, Stays, At
<1>3. w \in Nat /\ Ascends(stays, Stays(b)) BY <1>2, InOrderIs
<1>4. LgoInitBody(b) = s \o t BY DEF LgoInitBody, InitBody
<1>5. \A r \in 1 .. v : s[r] = Register(specs[r]) OBVIOUS
<1>6. \A r \in 1 .. w : t[r] = Step(b, stays[r]) OBVIOUS
<1>7. s = [r \in 1 .. v |-> s[r]] /\ t = [r \in 1 .. w |-> t[r]] OBVIOUS
<1> HIDE DEF s, t, v, w, specs, stays
<1>8. /\ DOMAIN (s \o t) = 1 .. (v + w) /\ Len(s \o t) = v + w
      /\ \A r \in 1 .. v : (s \o t)[r] = s[r]
      /\ \A r \in 1 .. w : (s \o t)[v + r] = t[r]
  BY <1>1, <1>3, <1>7, Following
<1>9. BodyIs(b, LgoInitBody(b), specs, stays) BY <1>1, <1>3, <1>4, <1>5, <1>6, <1>8 DEF BodyIs, v, w
<1>10. QED BY <1>9

-------------------------------------------------------------------------------
(* Variables are registered first, and statements stay in order.           *)

\* Which elements of the body are registers, and which are statements.
LEMMA BodyParts ==
  ASSUME NEW b, NEW init, NEW specs, NEW stays, BodyIs(b, init, specs, stays)
  PROVE  LET v == Cardinality(VarSpecs(b))  w == Cardinality(Stays(b)) IN
         /\ Registers(init) = 1 .. v /\ Others(init) = (v + 1) .. (v + w)
         /\ \A r \in 1 .. v : specs[r] \in VarSpecs(b) /\ init[r].at = specs[r]
         /\ \A r \in (v + 1) .. (v + w) : /\ r - v \in 1 .. w /\ stays[r - v] \in Stays(b)
                                          /\ init[r].at[1] = stays[r - v]
                                          /\ init[r].k = "print" <=> stays[r - v] \in Printed(b)
<1> DEFINE v == Cardinality(VarSpecs(b))
           w == Cardinality(Stays(b))
<1>1. /\ v \in Nat /\ w \in Nat /\ DOMAIN init = 1 .. (v + w) /\ Len(init) = v + w
      /\ specs \in [1 .. v -> VarSpecs(b)] /\ stays \in [1 .. w -> Stays(b)]
  BY DEF BodyIs, Lists, Ascends
<1>2. \A r \in 1 .. v : init[r] = Register(specs[r]) BY DEF BodyIs
<1>3. \A r \in 1 .. w : init[v + r] = Step(b, stays[r]) BY DEF BodyIs
<1> HIDE DEF v, w
<1>4. ASSUME NEW r \in 1 .. v PROVE specs[r] \in VarSpecs(b) /\ init[r].at = specs[r] /\ init[r].k = "register"
  <2>1. init[r] = [k |-> "register", at |-> specs[r]] BY <1>2 DEF Register
  <2>2. init[r].at = specs[r] /\ init[r].k = "register" BY <2>1
  <2>3. QED BY <1>1, <2>2
<1>5. \A r \in (v + 1) .. (v + w) : r - v \in 1 .. w /\ v + (r - v) = r BY <1>1
<1>6. ASSUME NEW r \in (v + 1) .. (v + w)
      PROVE  /\ r - v \in 1 .. w /\ stays[r - v] \in Stays(b)
             /\ init[r].at[1] = stays[r - v] /\ init[r].k # "register"
             /\ init[r].k = "print" <=> stays[r - v] \in Printed(b)
  <2>1. r - v \in 1 .. w /\ init[r] = Step(b, stays[r - v]) BY <1>3, <1>5
  <2>2. init[r].at = <<stays[r - v], 0>> /\ init[r].k = IF stays[r - v] \in Printed(b) THEN "print" ELSE "statement"
    BY <2>1 DEF Step
  <2>3. QED BY <1>1, <2>1, <2>2
<1>7. 1 .. (v + w) = (1 .. v) \cup ((v + 1) .. (v + w)) /\ (1 .. v) \cap ((v + 1) .. (v + w)) = {} BY <1>1
<1>8. Registers(init) = 1 .. v BY <1>1, <1>4, <1>6, <1>7 DEF Registers
<1>9. Others(init) = (v + 1) .. (v + w) BY <1>1, <1>7, <1>8 DEF Others
<1>10. QED BY <1>4, <1>6, <1>8, <1>9 DEF v, w

\* Every name that is declared as a variable is a variable of the package (not a constant before it).
LEMMA SpecOfName ==
  ASSUME NEW b, BlockOK(b), NEW conf, Check1(b, conf), NEW n \in Declared(b, At(b, {"var", "define"}))
  PROVE  \E d \in VarSpecs(b) : NameAt(b, d) = n
<1>1. n \in Declared(b, At(b, {"const", "var", "define"})) BY DEF Declared, At
<1>2. PICK i \in At(b, {"const", "var", "define"}) :
         n \notin Before(b, i) /\ \E j \in DOMAIN b[i].names : b[i].names[j] = n /\ n # BlankName
  BY <1>1, DefinitionsCover
<1>3. PICK j \in DOMAIN b[i].names : b[i].names[j] = n /\ n # BlankName BY <1>2
<1>4. j \in New(b, i) /\ n \in Names(b[i]) BY <1>2, <1>3 DEF New, Names
<1>5. b[i].k # "const"
  <2>1. SUFFICES ASSUME b[i].k = "const" PROVE FALSE OBVIOUS
  <2>2. PICK l \in At(b, {"var", "define"}) : n \in Names(b[l]) BY DEF Declared
  <2>3. i \in Nat /\ l \in Nat /\ i # l BY <2>1, <2>2 DEF At, BlockOK
  <2>4. CASE i < l
    <3>1. i \in 1 .. (l - 1) /\ i \in At(b, {"const"}) BY <1>2, <2>1, <2>3, <2>4 DEF At, BlockOK
    <3>2. CASE b[l].k = "var"
      <4>1. l \in At(b, {"const", "var"}) BY <2>2, <3>2 DEF At
      <4>2. n \in Before(b, l) BY <1>2, <1>4, <2>2, <3>1, <3>2 DEF Before, Declared
      <4>3. QED BY <2>2, <4>1, <4>2 DEF Check1
    <3>3. CASE b[l].k = "define"
      <4>1. l \in At(b, {"define"}) BY <2>2, <3>3 DEF At
      <4>2. n \in Declared(b, At(b, {"const"}) \cap 1 .. (l - 1)) BY <1>4, <3>1 DEF Declared
      <4>3. QED BY <2>2, <4>1, <4>2 DEF Check1
    <3>4. QED BY <2>2, <3>2, <3>3 DEF At
  <2>5. CASE l < i
    <3>1. l \in At(b, {"const", "var", "define"}) \cap 1 .. (i - 1) BY <2>2, <2>3, <2>5 DEF At, BlockOK
    <3>2. n \in Before(b, i) BY <2>1, <2>2, <3>1 DEF Before, Declared
    <3>3. QED BY <1>2, <3>2
  <2>6. QED BY <2>3, <2>4, <2>5
<1>6. <<i, j>> \in VarSpecs(b) BY <1>2, <1>4, <1>5, SpecsAre DEF IsVar, At
<1>7. NameAt(b, <<i, j>>) = n BY <1>3 DEF NameAt
<1>8. QED BY <1>6, <1>7

\* Every variable is registered once, before the statements.
LEMMA RegistersOnce ==
  ASSUME NEW b, BlockOK(b), NEW conf, Check1(b, conf), NEW file, Check2(b, file, conf),
         NEW init, NEW specs, NEW stays, BodyIs(b, init, specs, stays)
  PROVE  RegisteredOnce(b, init)
<1> DEFINE v == Cardinality(VarSpecs(b))
           w == Cardinality(Stays(b))
<1>1. /\ Registers(init) = 1 .. v /\ Others(init) = (v + 1) .. (v + w) /\ v \in Nat /\ w \in Nat
      /\ \A r \in 1 .. v : specs[r] \in VarSpecs(b) /\ init[r].at = specs[r]
  BY BodyParts DEF BodyIs
<1>2. \A d \in VarSpecs(b) : \E r \in 1 .. v : \A s \in 1 .. v : specs[s] = d <=> s = r
  <2>1. specs \in [1 .. v -> VarSpecs(b)] BY DEF BodyIs, Lists
  <2>2. \A d \in VarSpecs(b) : \E r \in DOMAIN specs : \A s \in DOMAIN specs : specs[s] = d <=> s = r
    BY DEF BodyIs, Lists
  <2>3. QED BY <2>1, <2>2
<1>3. \A d, e \in VarSpecs(b) : NameAt(b, d) = NameAt(b, e) => d = e
  <2>1. VarSpecs(b) \subseteq Definitions(b) BY SpecsAre
  <2>2. QED BY <2>1 DEF Check2
<1> HIDE DEF v, w
<1>4. ASSUME NEW d \in VarSpecs(b)
      PROVE  \E r \in Registers(init) : \A s \in Registers(init) : NameAt(b, init[s].at) = NameAt(b, d) <=> s = r
  <2>1. PICK r \in 1 .. v : \A s \in 1 .. v : specs[s] = d <=> s = r BY <1>2
  <2>2. \A s \in 1 .. v : NameAt(b, init[s].at) = NameAt(b, d) <=> specs[s] = d BY <1>1, <1>3
  <2>3. \A s \in 1 .. v : NameAt(b, init[s].at) = NameAt(b, d) <=> s = r BY <2>1, <2>2
  <2>4. Registers(init) = 1 .. v BY <1>1
  <2>5. QED BY <2>3, <2>4
<1>5. ASSUME NEW n \in Declared(b, At(b, {"var", "define"})) \cup {NameAt(b, init[r].at) : r \in Registers(init)}
      PROVE  \E r \in Registers(init) : \A s \in Registers(init) : NameAt(b, init[s].at) = n <=> s = r
  <2>1. \E d \in VarSpecs(b) : NameAt(b, d) = n
    <3>1. CASE n \in Declared(b, At(b, {"var", "define"})) BY <3>1, SpecOfName
    <3>2. CASE \E r \in Registers(init) : n = NameAt(b, init[r].at) BY <1>1, <3>2
    <3>3. QED BY <3>1, <3>2
  <2>2. QED BY <1>4, <2>1
<1>6. \A r \in Registers(init), s \in Others(init) : r < s BY <1>1
<1>7. QED BY <1>5, <1>6 DEF RegisteredOnce

\* The statements keep their order, and only a last expression is printed.
LEMMA StatementsStay ==
  ASSUME NEW b, BlockOK(b), NEW conf, Check1(b, conf), NEW init, NEW specs, NEW stays, BodyIs(b, init, specs, stays)
  PROVE  StatementsInOrder(b, init)
<1> DEFINE v == Cardinality(VarSpecs(b))
           w == Cardinality(Stays(b))
<1>1. /\ Others(init) = (v + 1) .. (v + w) /\ v \in Nat /\ w \in Nat /\ Len(init) = v + w
      /\ \A r \in (v + 1) .. (v + w) : /\ r - v \in 1 .. w /\ stays[r - v] \in Stays(b)
                                       /\ init[r].at[1] = stays[r - v]
                                       /\ init[r].k = "print" <=> stays[r - v] \in Printed(b)
  BY BodyParts DEF BodyIs
<1>2. /\ \A r, s \in 1 .. w : r < s => stays[r] < stays[s]
      /\ \A i \in Stays(b) : \E r \in 1 .. w : stays[r] = i
      /\ stays \in [1 .. w -> Stays(b)]
  <2>1. stays \in [1 .. w -> Stays(b)] BY DEF BodyIs, Ascends
  <2>2. /\ \A r, s \in DOMAIN stays : r < s => stays[r] < stays[s]
        /\ \A i \in Stays(b) : \E r \in DOMAIN stays : stays[r] = i
    BY DEF BodyIs, Ascends
  <2>3. QED BY <2>1, <2>2
<1>3. Stays(b) \subseteq Nat /\ Stays(b) \subseteq At(b, InitKinds) BY DEF Stays, At, BlockOK
<1> HIDE DEF v, w
<1>4. \A i \in Stays(b) : \E r \in Others(init) : /\ init[r].at[1] = i
                                                  /\ init[r].k = "print" <=> i \in Printed(b)
  <2>1. SUFFICES ASSUME NEW i \in Stays(b)
                 PROVE  \E r \in Others(init) : init[r].at[1] = i /\ (init[r].k = "print" <=> i \in Printed(b))
    OBVIOUS
  <2>2. PICK r \in 1 .. w : stays[r] = i BY <1>2
  <2>3. v + r \in (v + 1) .. (v + w) /\ (v + r) - v = r BY <1>1
  <2>4. QED BY <1>1, <2>2, <2>3
<1>5. ASSUME NEW r \in Others(init), NEW s \in Others(init), r < s PROVE init[r].at[1] < init[s].at[1]
  <2>1. r - v \in 1 .. w /\ s - v \in 1 .. w /\ r - v < s - v BY <1>1, <1>5
  <2>2. QED BY <1>1, <1>2, <2>1
<1>6. ASSUME NEW i \in At(b, InitKinds \ {"const"})
      PROVE  (b[i].k = "var" => b[i].init) <=> \E r \in Others(init) : init[r].at[1] = i
  <2>1. (b[i].k = "var" => b[i].init) <=> i \in Stays(b) BY DEF Stays
  <2>2. \A r \in Others(init) : init[r].at[1] \in Stays(b) BY <1>1
  <2>3. QED BY <1>4, <2>1, <2>2
<1>7. ASSUME NEW r \in Others(init), init[r].k = "print" PROVE r = Len(init)
  <2> DEFINE i == stays[r - v]
             e == stays[w]
  <2>1. i \in Printed(b) /\ r - v \in 1 .. w BY <1>1, <1>7
  <2>2. \A j \in At(b, InitKinds) : j <= i BY <2>1 DEF Printed
  <2>3. w \in 1 .. w BY <1>1, <2>1
  <2>4. e \in Stays(b) /\ i \in Stays(b) BY <1>2, <2>1, <2>3
  <2>5. e <= i /\ e \in Nat /\ i \in Nat BY <1>3, <2>2, <2>4
  <2> HIDE DEF i, e
  <2>6. CASE r - v < w
    <3>1. i < e BY <1>2, <2>1, <2>3, <2>6 DEF i, e
    <3>2. QED BY <2>5, <3>1
  <2>7. CASE ~(r - v < w) BY <1>1, <2>1, <2>7
  <2>8. QED BY <2>6, <2>7
<1>8. ASSUME NEW i \in At(b, {"value"}) PROVE \E r \in Others(init) : init[r].k = "print" /\ init[r].at[1] = i
  <2>1. i \in Stays(b) BY DEF Stays, At, InitKinds
  <2>2. i \in Printed(b) BY DEF Printed, Check1, At
  <2>3. QED BY <1>4, <2>1, <2>2
<1>9. QED BY <1>5, <1>6, <1>7, <1>8 DEF StatementsInOrder

-------------------------------------------------------------------------------
(* The session: what a conversion is given.                                *)

\* What the session has when the k-th block comes, from what was converted before.
DefinedIn(h, k, n) == {j \in 1 .. (k - 1) : ~h[j].result.err /\ n \in Top2(h[j].block)}
ImportedIn(h, k, n) ==
  {j \in 1 .. (k - 1) : ~h[j].result.err /\ \E im \in ImportsOf(h[j].block) : im.name = n}
OldsAt(h, k) ==
  [n \in AllNames |-> IF DefinedIn(h, k, n) = {} THEN None ELSE Obj(Exec(Latest(DefinedIn(h, k, n))), n)]
ImportsAt(h, k) ==
  [n \in AllNames |-> IF ImportedIn(h, k, n) = {} THEN None
                      ELSE Pkg(PathOf(h[Latest(ImportedIn(h, k, n))].block, n))]
ConfAt(h, k) == [path |-> Exec(k), olds |-> OldsAt(h, k), oldImports |-> ImportsAt(h, k)]

\* The inductive invariant: every conversion so far was given what the conversions before it had left.
ConversionInv ==
  /\ history \in Seq({history[k] : k \in DOMAIN history})
  /\ Len(history) <= MaxBlocks
  /\ \A k \in 1 .. Len(history) :
       /\ history[k].block \in FirstBlocks \cup Blocks
       /\ history[k].conf = ConfAt(history, k)
       /\ history[k].result = Convert(history[k].block, history[k].conf)
  /\ vars = OldsAt(history, Len(history) + 1)
  /\ imports = ImportsAt(history, Len(history) + 1)

\* One more element in a sequence.
LEMMA AppendIs ==
  ASSUME NEW s, s \in Seq({s[k] : k \in DOMAIN s}), NEW e, NEW t, t = Append(s, e)
  PROVE  /\ t \in Seq({t[k] : k \in DOMAIN t})
         /\ Len(s) \in Nat /\ Len(t) = Len(s) + 1 /\ t[Len(s) + 1] = e
         /\ \A k \in 1 .. Len(s) : t[k] = s[k]
<1> DEFINE T == {s[k] : k \in DOMAIN s} \cup {e}
           U == {t[k] : k \in DOMAIN t}
<1>1. s \in Seq(T) /\ e \in T OBVIOUS
<1> HIDE DEF T
<1>2. /\ Len(s) \in Nat /\ t \in Seq(T) /\ Len(t) = Len(s) + 1 /\ t[Len(s) + 1] = e
      /\ \A k \in 1 .. Len(s) : t[k] = s[k]
  BY <1>1
<1>3. t \in Seq(U)
  <2>1. DOMAIN t = 1 .. Len(t) /\ Len(t) \in Nat BY <1>2
  <2>2. t \in [1 .. Len(t) -> T] BY <1>2, LenProperties
  <2>3. \A k \in 1 .. Len(t) : t[k] \in U BY <2>1
  <2> HIDE DEF U
  <2>4. t \in [1 .. Len(t) -> U] BY <2>2, <2>3
  <2>5. \A n \in Nat : \A f \in [1 .. n -> U] : f \in Seq(U) OBVIOUS
  <2>6. QED BY <2>1, <2>4, <2>5
<1>4. QED BY <1>2, <1>3

\* Latest chooses the greatest of the positions.
LEMMA LatestIn ==
  ASSUME NEW m \in Nat, NEW S, S \subseteq 1 .. m, S # {}
  PROVE  Latest(S) \in S /\ \A i \in S : i <= Latest(S)
<1>1. S \subseteq 0 .. m OBVIOUS
<1>2. \E x \in S : \A y \in S : y <= x BY <1>1, GreatestExists
<1>3. QED BY <1>2 DEF Latest

\* A position after all others is the latest.
LEMMA LatestNew ==
  ASSUME NEW m \in Nat, NEW S, S \subseteq 1 .. m
  PROVE  Latest(S \cup {m + 1}) = m + 1
<1> DEFINE R == S \cup {m + 1}
<1>1. R \subseteq 1 .. (m + 1) /\ R # {} /\ m + 1 \in R OBVIOUS
<1> HIDE DEF R
<1>2. Latest(R) \in R /\ \A i \in R : i <= Latest(R)
  <2>1. m + 1 \in Nat OBVIOUS
  <2>2. QED BY <1>1, <2>1, LatestIn
<1>3. m + 1 <= Latest(R) /\ Latest(R) \in 1 .. (m + 1) BY <1>1, <1>2
<1>4. Latest(R) = m + 1 BY <1>3
<1>5. QED BY <1>4 DEF R

\* A block is accepted when both checks accept it.
LEMMA ConvertIs ==
  ASSUME NEW b, NEW conf, NEW r, r = Convert(b, conf)
  PROVE  /\ ~r.err => Check1(b, conf) /\ Check2(b, Phase2(b, conf), conf)
         /\ ~r.err => /\ r.scope = Top2(b) /\ r.imports = ImportsOf(b)
                      /\ r.src = Final(b, Phase2(b, conf), conf)
<1>1. CASE Check1(b, conf) /\ Check2(b, Phase2(b, conf), conf)
  <2>1. r = [err |-> FALSE, scope |-> Top2(b), imports |-> ImportsOf(b), src |-> Final(b, Phase2(b, conf), conf)]
    BY <1>1 DEF Convert
  <2>2. QED BY <1>1, <2>1
<1>2. CASE ~(Check1(b, conf) /\ Check2(b, Phase2(b, conf), conf))
  <2>1. r = Failed BY <1>2 DEF Convert
  <2>2. QED BY <2>1 DEF Failed
<1>3. QED BY <1>1, <1>2

\* What a conversion is given depends on the conversions before it only.
LEMMA AtSame ==
  ASSUME NEW k \in Nat, NEW h, NEW g, \A j \in 1 .. (k - 1) : h[j] = g[j]
  PROVE  OldsAt(h, k) = OldsAt(g, k) /\ ImportsAt(h, k) = ImportsAt(g, k) /\ ConfAt(h, k) = ConfAt(g, k)
<1>1. \A n : DefinedIn(h, k, n) = DefinedIn(g, k, n) BY DEF DefinedIn
<1>2. \A n : ImportedIn(h, k, n) = ImportedIn(g, k, n) BY DEF ImportedIn
<1>3. OldsAt(h, k) = OldsAt(g, k) BY <1>1 DEF OldsAt
<1>4. \A n : ImportedIn(h, k, n) # {} => h[Latest(ImportedIn(h, k, n))] = g[Latest(ImportedIn(h, k, n))]
  <2>1. SUFFICES ASSUME NEW n, ImportedIn(h, k, n) # {}
                 PROVE  h[Latest(ImportedIn(h, k, n))] = g[Latest(ImportedIn(h, k, n))]
    OBVIOUS
  <2>2. k - 1 \in Nat /\ ImportedIn(h, k, n) \subseteq 1 .. (k - 1) BY <2>1 DEF ImportedIn
  <2>3. Latest(ImportedIn(h, k, n)) \in 1 .. (k - 1) BY <2>1, <2>2, LatestIn
  <2>4. QED BY <2>3
<1>5. ImportsAt(h, k) = ImportsAt(g, k)
  <2>1. \A n : ImportedIn(h, k, n) # {} =>
           PathOf(h[Latest(ImportedIn(h, k, n))].block, n) = PathOf(g[Latest(ImportedIn(g, k, n))].block, n)
    BY <1>2, <1>4
  <2>2. QED BY <1>2, <2>1 DEF ImportsAt
<1>6. QED BY <1>3, <1>5 DEF ConfAt

-------------------------------------------------------------------------------
(* The invariant of the session.                                           *)

\* The names of the session move on by a block that was accepted.
LEMMA OldsStep ==
  ASSUME NEW N \in Nat, NEW h, NEW n \in AllNames
  PROVE  OldsAt(h, N + 2)[n] = IF ~h[N + 1].result.err /\ n \in Top2(h[N + 1].block)
                               THEN Obj(Exec(N + 1), n) ELSE OldsAt(h, N + 1)[n]
<1> DEFINE D == DefinedIn(h, N + 1, n)
           E == DefinedIn(h, N + 2, n)
           new == ~h[N + 1].result.err /\ n \in Top2(h[N + 1].block)
<1>1. (N + 1) - 1 = N /\ (N + 2) - 1 = N + 1 /\ 1 .. (N + 1) = (1 .. N) \cup {N + 1} OBVIOUS
<1>2. D \subseteq 1 .. N BY <1>1 DEF DefinedIn
<1>3. E = IF new THEN D \cup {N + 1} ELSE D BY <1>1 DEF DefinedIn
<1>4. /\ OldsAt(h, N + 1)[n] = IF D = {} THEN None ELSE Obj(Exec(Latest(D)), n)
      /\ OldsAt(h, N + 2)[n] = IF E = {} THEN None ELSE Obj(Exec(Latest(E)), n)
  BY DEF OldsAt
<1> HIDE DEF D, E, new
<1>5. CASE new
  <2>1. E = D \cup {N + 1} /\ E # {} BY <1>3, <1>5
  <2>2. Latest(E) = N + 1 BY <1>2, <2>1, LatestNew
  <2>3. QED BY <1>4, <1>5, <2>1, <2>2 DEF new
<1>6. CASE ~new
  <2>1. E = D BY <1>3, <1>6
  <2>2. QED BY <1>4, <1>6, <2>1 DEF new
<1>7. QED BY <1>5, <1>6

\* So do its imports.
LEMMA ImportsStep ==
  ASSUME NEW N \in Nat, NEW h, NEW n \in AllNames
  PROVE  ImportsAt(h, N + 2)[n] =
           IF ~h[N + 1].result.err /\ \E im \in ImportsOf(h[N + 1].block) : im.name = n
           THEN Pkg(PathOf(h[N + 1].block, n)) ELSE ImportsAt(h, N + 1)[n]
<1> DEFINE D == ImportedIn(h, N + 1, n)
           E == ImportedIn(h, N + 2, n)
           new == ~h[N + 1].result.err /\ \E im \in ImportsOf(h[N + 1].block) : im.name = n
<1>1. (N + 1) - 1 = N /\ (N + 2) - 1 = N + 1 /\ 1 .. (N + 1) = (1 .. N) \cup {N + 1} OBVIOUS
<1>2. D \subseteq 1 .. N BY <1>1 DEF ImportedIn
<1>3. E = IF new THEN D \cup {N + 1} ELSE D BY <1>1 DEF ImportedIn
<1>4. /\ ImportsAt(h, N + 1)[n] = IF D = {} THEN None ELSE Pkg(PathOf(h[Latest(D)].block, n))
      /\ ImportsAt(h, N + 2)[n] = IF E = {} THEN None ELSE Pkg(PathOf(h[Latest(E)].block, n))
  BY DEF ImportsAt
<1> HIDE DEF D, E, new
<1>5. CASE new
  <2>1. E = D \cup {N + 1} /\ E # {} BY <1>3, <1>5
  <2>2. Latest(E) = N + 1 BY <1>2, <2>1, LatestNew
  <2>3. QED BY <1>4, <1>5, <2>1, <2>2 DEF new
<1>6. CASE ~new
  <2>1. E = D BY <1>3, <1>6
  <2>2. QED BY <1>4, <1>6, <2>1 DEF new
<1>7. QED BY <1>5, <1>6

\* The invariant holds of the empty session.
LEMMA InitInv == ConversionInit => ConversionInv
<1> SUFFICES ASSUME ConversionInit PROVE ConversionInv OBVIOUS
<1>1. history = <<>> /\ Len(history) = 0 /\ DOMAIN history = {} BY DEF ConversionInit
<1>2. history \in Seq({history[k] : k \in DOMAIN history}) BY <1>1
<1>3. 1 .. ((0 + 1) - 1) = {} OBVIOUS
<1>4. \A n : DefinedIn(history, 0 + 1, n) = {} /\ ImportedIn(history, 0 + 1, n) = {}
  BY <1>3 DEF DefinedIn, ImportedIn
<1>5. OldsAt(history, 0 + 1) = [n \in AllNames |-> None] BY <1>4 DEF OldsAt
<1>6. ImportsAt(history, 0 + 1) = [n \in AllNames |-> None] BY <1>4 DEF ImportsAt
<1>7. vars = OldsAt(history, 0 + 1) /\ imports = ImportsAt(history, 0 + 1) BY <1>5, <1>6 DEF ConversionInit
<1>8. MaxBlocks \in Nat BY SessionAssumption
<1>9. 1 .. Len(history) = {} BY <1>1
<1>10. QED BY <1>1, <1>2, <1>7, <1>8, <1>9 DEF ConversionInv

\* Every conversion keeps it, whether the block is accepted or not.
LEMMA RunInv ==
  ASSUME ConversionInv, Len(history) < MaxBlocks, NEW b \in FirstBlocks \cup Blocks, Run(b)
  PROVE  ConversionInv'
<1> DEFINE N == Len(history)
           conf == [path |-> Exec(N + 1), olds |-> vars, oldImports |-> imports]
           result == Convert(b, conf)
           e == [block |-> b, conf |-> conf, result |-> result]
<1>1. history \in Seq({history[k] : k \in DOMAIN history}) BY DEF ConversionInv
<1>2. history' = Append(history, e) BY DEF Run
<1> HIDE DEF e
<1>3. /\ history' \in Seq({history'[k] : k \in DOMAIN history'})
      /\ N \in Nat /\ Len(history') = N + 1 /\ history'[N + 1] = e
      /\ \A k \in 1 .. N : history'[k] = history[k]
  BY <1>1, <1>2, AppendIs
<1>4. conf = ConfAt(history, N + 1) BY DEF ConversionInv, ConfAt
<1>5. e.block = b /\ e.conf = conf /\ e.result = result BY DEF e
<1> HIDE DEF N, conf, result
<1>6. \A k \in 1 .. (N + 1) : /\ OldsAt(history', k) = OldsAt(history, k)
                              /\ ImportsAt(history', k) = ImportsAt(history, k)
                              /\ ConfAt(history', k) = ConfAt(history, k)
  <2>1. SUFFICES ASSUME NEW k \in 1 .. (N + 1)
                 PROVE  /\ OldsAt(history', k) = OldsAt(history, k)
                        /\ ImportsAt(history', k) = ImportsAt(history, k)
                        /\ ConfAt(history', k) = ConfAt(history, k)
    OBVIOUS
  <2>2. k \in Nat /\ \A j \in 1 .. (k - 1) : history'[j] = history[j] BY <1>3
  <2>3. QED BY <2>2, AtSame
<1>7. ASSUME NEW k \in 1 .. (N + 1)
      PROVE  /\ history'[k].block \in FirstBlocks \cup Blocks
             /\ history'[k].conf = ConfAt(history', k)
             /\ history'[k].result = Convert(history'[k].block, history'[k].conf)
  <2>1. CASE k = N + 1 BY <1>3, <1>4, <1>5, <1>6, <2>1 DEF result
  <2>2. CASE k # N + 1
    <3>1. k \in 1 .. N /\ k \in 1 .. Len(history) BY <1>3, <2>2 DEF N
    <3>2. /\ history[k].block \in FirstBlocks \cup Blocks /\ history[k].conf = ConfAt(history, k)
          /\ history[k].result = Convert(history[k].block, history[k].conf)
      BY <3>1 DEF ConversionInv
    <3>3. history'[k] = history[k] /\ ConfAt(history', k) = ConfAt(history, k) BY <1>3, <1>6, <3>1
    <3>4. QED BY <3>2, <3>3
  <2>3. QED BY <2>1, <2>2
<1>8. N + 1 \in 1 .. (N + 1) BY <1>3
<1>9. vars = OldsAt(history', N + 1) /\ imports = ImportsAt(history', N + 1)
  BY <1>6, <1>8 DEF ConversionInv, N
<1>10. conf.path = Exec(N + 1) BY DEF conf
<1>11. /\ result.err => vars' = vars /\ imports' = imports
       /\ ~result.err => /\ vars' = [n \in AllNames |-> IF n \in result.scope THEN Obj(conf.path, n) ELSE vars[n]]
                         /\ imports' = [n \in AllNames |->
                              IF \E im \in result.imports : im.name = n
                              THEN Pkg((CHOOSE im \in result.imports : im.name = n).path) ELSE imports[n]]
  BY DEF Run, result, conf, N
<1>12. /\ history'[N + 1].block = b /\ history'[N + 1].result = result BY <1>3, <1>5
<1>13. \A n \in AllNames : /\ vars'[n] = OldsAt(history', N + 2)[n]
                           /\ imports'[n] = ImportsAt(history', N + 2)[n]
  <2>1. SUFFICES ASSUME NEW n \in AllNames
                 PROVE  vars'[n] = OldsAt(history', N + 2)[n] /\ imports'[n] = ImportsAt(history', N + 2)[n]
    OBVIOUS
  <2>2. /\ OldsAt(history', N + 2)[n] =
             IF ~result.err /\ n \in Top2(b) THEN Obj(Exec(N + 1), n) ELSE vars[n]
        /\ ImportsAt(history', N + 2)[n] =
             IF ~result.err /\ \E im \in ImportsOf(b) : im.name = n THEN Pkg(PathOf(b, n)) ELSE imports[n]
    <3>1. OldsAt(history', N + 2)[n] =
            IF ~history'[N + 1].result.err /\ n \in Top2(history'[N + 1].block)
            THEN Obj(Exec(N + 1), n) ELSE OldsAt(history', N + 1)[n]
      BY <1>3, OldsStep
    <3>2. ImportsAt(history', N + 2)[n] =
            IF ~history'[N + 1].result.err /\ \E im \in ImportsOf(history'[N + 1].block) : im.name = n
            THEN Pkg(PathOf(history'[N + 1].block, n)) ELSE ImportsAt(history', N + 1)[n]
      BY <1>3, ImportsStep
    <3>3. QED BY <1>9, <1>12, <3>1, <3>2
  <2>3. CASE result.err BY <1>11, <2>2, <2>3
  <2>4. CASE ~result.err
    <3>1. result.scope = Top2(b) /\ result.imports = ImportsOf(b) BY <2>4, ConvertIs DEF result
    <3>2. QED BY <1>10, <1>11, <2>2, <2>4, <3>1 DEF PathOf
  <2>5. QED BY <2>3, <2>4
<1>14. vars' = [n \in AllNames |-> vars'[n]] /\ imports' = [n \in AllNames |-> imports'[n]]
  <2>1. vars = [n \in AllNames |-> vars[n]] /\ imports = [n \in AllNames |-> imports[n]]
    BY <1>9 DEF OldsAt, ImportsAt
  <2>2. QED BY <1>11, <2>1
<1>15. vars' = OldsAt(history', N + 2) /\ imports' = ImportsAt(history', N + 2)
  <2>1. /\ OldsAt(history', N + 2) = [n \in AllNames |-> OldsAt(history', N + 2)[n]]
        /\ ImportsAt(history', N + 2) = [n \in AllNames |-> ImportsAt(history', N + 2)[n]]
    BY DEF OldsAt, ImportsAt
  <2>2. QED BY <1>13, <1>14, <2>1
<1>16. Len(history') <= MaxBlocks /\ Len(history') + 1 = N + 2
  <2>1. MaxBlocks \in Nat BY SessionAssumption
  <2>2. QED BY <1>3, <2>1 DEF N
<1>17. QED BY <1>3, <1>7, <1>15, <1>16 DEF ConversionInv

-------------------------------------------------------------------------------
(* The theorems.                                                           *)

\* The k-th conversion, when it was accepted.
MadeAt(k, m, m2) ==
  LET b == history[k].block  conf == history[k].conf  file == Phase2(b, conf)
  IN Made(b, conf, k, file, m, Rechecked(b, file, conf), m2, history[k].result.src)

\* What a conversion is given satisfies ConfOK.
LEMMA ConfIsOK ==
  ASSUME SessionAssumption, ConversionInv, NEW k \in 1 .. Len(history)
  PROVE  ConfOK(history[k].conf, k) /\ BlockOK(history[k].block)
<1> DEFINE conf == history[k].conf
<1>1. conf = ConfAt(history, k) /\ history[k].block \in FirstBlocks \cup Blocks BY DEF ConversionInv
<1>2. BlockOK(history[k].block) BY <1>1 DEF SessionAssumption
<1>3. Len(history) \in Nat /\ Len(history) <= MaxBlocks /\ MaxBlocks \in Nat
  <2>1. history \in Seq({history[j] : j \in DOMAIN history}) BY DEF ConversionInv
  <2>2. Len(history) \in Nat BY <2>1, LenProperties
  <2>3. QED BY <2>2 DEF ConversionInv, SessionAssumption
<1>4. k \in 1 .. MaxBlocks /\ k - 1 \in Nat BY <1>3
<1>5. conf.path = Exec(k) /\ conf.olds = OldsAt(history, k) /\ conf.oldImports = ImportsAt(history, k)
  BY <1>1 DEF ConfAt
<1> HIDE DEF conf
<1>6. ASSUME NEW n \in AllNames
      PROVE  /\ conf.olds[n] = None \/ \E j \in 1 .. (k - 1) : conf.olds[n] = Obj(Exec(j), n)
             /\ conf.oldImports[n] = None \/ \E p : conf.oldImports[n] = Pkg(p)
  <2> DEFINE D == DefinedIn(history, k, n)
  <2>1. conf.olds[n] = IF D = {} THEN None ELSE Obj(Exec(Latest(D)), n) BY <1>5 DEF OldsAt
  <2>2. D \subseteq 1 .. (k - 1) BY DEF DefinedIn
  <2> HIDE DEF D
  <2>3. D # {} => Latest(D) \in 1 .. (k - 1) BY <1>4, <2>2, LatestIn
  <2>4. conf.olds[n] = None \/ \E j \in 1 .. (k - 1) : conf.olds[n] = Obj(Exec(j), n) BY <2>1, <2>3
  <2>5. conf.oldImports[n] = None \/ \E p : conf.oldImports[n] = Pkg(p) BY <1>5 DEF ImportsAt
  <2>6. QED BY <2>4, <2>5
<1>7. DOMAIN conf.olds = AllNames BY <1>5 DEF OldsAt
<1>8. ConfOK(conf, k) BY <1>4, <1>5, <1>6, <1>7 DEF ConfOK
<1>9. QED BY <1>2, <1>8 DEF conf

\* An accepted block was made as Made says.
LEMMA MadeIs ==
  ASSUME SessionAssumption, ConversionInv, NEW k \in 1 .. Len(history), Accepted(k)
  PROVE  /\ \E m, m2 : MadeAt(k, m, m2)
         /\ Check1(history[k].block, history[k].conf)
         /\ Check2(history[k].block, Phase2(history[k].block, history[k].conf), history[k].conf)
<1> DEFINE b == history[k].block
           conf == history[k].conf
           file == Phase2(b, conf)
           m2 == FinalManager(b, file, Rechecked(b, file, conf), conf)
           result == history[k].result
<1>1. ConfOK(conf, k) /\ BlockOK(b) BY ConfIsOK
<1>2. result = Convert(b, conf) /\ ~result.err BY DEF ConversionInv, Accepted
<1> HIDE DEF b, conf, result
<1>3. Check1(b, conf) /\ Check2(b, file, conf) BY <1>2, ConvertIs
<1>4. result.src = Final(b, file, conf) BY <1>2, ConvertIs
<1>5. PICK m : Checked(b, conf, k, file, m) BY <1>1, <1>3, Phase2Is
<1>6. Made(b, conf, k, file, m, Rechecked(b, file, conf), m2, result.src) BY <1>4, <1>5 DEF Made
<1>7. \E x, y : Made(b, conf, k, file, x, Rechecked(b, file, conf), y, result.src) BY <1>6
<1>8. QED BY <1>3, <1>7 DEF MadeAt, b, conf, result

\* The definitions that the session remembers are in the sources it made.
LEMMA OldsAreDefined ==
  ASSUME SessionAssumption, ConversionInv, NEW k \in 1 .. Len(history)
  PROVE  OldsDefined(history[k].conf)
<1> DEFINE conf == history[k].conf
<1>1. SUFFICES ASSUME NEW n \in AllNames, conf.olds[n] # None, n # LgoInit
               PROVE  Member(conf.olds[n].path, [name |-> n, prefix |-> DefPrefix(n)]) = conf.olds[n]
  BY DEF OldsDefined
<1> DEFINE D == DefinedIn(history, k, n)
           j == Latest(D)
           id == [name |-> n, prefix |-> DefPrefix(n)]
<1>2. conf = ConfAt(history, k) BY DEF ConversionInv
<1>3. conf.olds = OldsAt(history, k) BY <1>2 DEF ConfAt
<1>4. D # {} /\ conf.olds[n] = Obj(Exec(j), n) BY <1>1, <1>3 DEF OldsAt
<1>5. D \subseteq 1 .. (k - 1) BY DEF DefinedIn
<1>6. history \in Seq({history[l] : l \in DOMAIN history}) BY DEF ConversionInv
<1>7. Len(history) \in Nat /\ DOMAIN history = 1 .. Len(history) BY <1>6, LenProperties
<1> HIDE DEF D
<1>8. j \in D
  <2>1. k - 1 \in Nat BY <1>7
  <2>2. QED BY <1>4, <1>5, <2>1, LatestIn
<1>9. j \in 1 .. Len(history) /\ j \in DOMAIN history
  <2>1. \A x \in 1 .. (k - 1) : x \in 1 .. Len(history) BY <1>7
  <2>2. QED BY <1>5, <1>7, <1>8, <2>1
<1>10. Accepted(j) /\ n \in Top2(history[j].block) BY <1>8 DEF D, DefinedIn, Accepted
<1> HIDE DEF j
<1>11. PICK m, m2 : MadeAt(j, m, m2) BY <1>9, <1>10, MadeIs
<1>12. history[j].result.src.defs = {[name |-> x, prefix |-> DefPrefix(x)] : x \in Top2(history[j].block)}
  BY <1>11, SourceIs DEF MadeAt
<1>13. id \in history[j].result.src.defs BY <1>10, <1>12
<1>14. id.name = n OBVIOUS
<1> HIDE DEF id
<1>15. Member(Exec(j), id) = Obj(Exec(j), n) BY <1>9, <1>10, <1>13, <1>14 DEF Member
<1>16. conf.olds[n].path = Exec(j) BY <1>4, ObjectsApart
<1>17. QED BY <1>4, <1>15, <1>16 DEF id

\* What a name refers to in the reference reading is what the session says its author meant.
LEMMA RefIsMeant ==
  ASSUME SessionAssumption, ConversionInv, NEW k \in 1 .. Len(history), NEW i, NEW n, IsUse(history[k].block, i, n)
  PROVE  Means(k, n, Locals(history[k].block, i), Above(history[k].block, i)) =
           Ref(history[k].block, i, n, history[k].conf)
<1> DEFINE b == history[k].block
           conf == history[k].conf
           locals == Locals(b, i)
           above == Above(b, i)
           D == DeclaredBefore(k, n)
           E == ImportedBefore(k, n)
           old == IF D # {} THEN Obj(Exec(Latest(D)), n)
                  ELSE IF E # {} THEN Pkg(PathOf(history[Latest(E)].block, n))
                  ELSE IF n = CtxName THEN Ctx ELSE None
<1>1. conf = ConfAt(history, k) BY DEF ConversionInv
<1>2. conf.path = Exec(k) /\ conf.olds = OldsAt(history, k) /\ conf.oldImports = ImportsAt(history, k)
  BY <1>1 DEF ConfAt
<1>3. BlockOK(b) BY ConfIsOK
<1>4. n \in AllNames /\ n # LgoInit BY <1>3, UseNames
<1>5. history \in Seq({history[l] : l \in DOMAIN history}) BY DEF ConversionInv
<1>6. Len(history) \in Nat BY <1>5, LenProperties
<1>7. DefinedIn(history, k, n) = D
  <2>1. ASSUME NEW j \in 1 .. (k - 1) PROVE n \in Top2(history[j].block) <=> n \in NewScope(history[j].block)
    <3>1. j \in 1 .. Len(history) BY <1>6
    <3>2. BlockOK(history[j].block) BY <3>1, ConfIsOK
    <3>3. QED BY <1>4, <3>2, Top2Is
  <2>2. QED BY <2>1 DEF DefinedIn, DeclaredBefore, Accepted
<1>8. ImportedIn(history, k, n) = E BY DEF ImportedIn, ImportedBefore, Accepted
<1> HIDE DEF D, E, b, locals, above, conf
<1>9. OldsAt(history, k)[n] = IF D = {} THEN None ELSE Obj(Exec(Latest(D)), n)
  BY <1>4, <1>7 DEF OldsAt
<1>10. ImportsAt(history, k)[n] = IF E = {} THEN None ELSE Pkg(PathOf(history[Latest(E)].block, n))
  BY <1>4, <1>8 DEF ImportsAt
<1>11. (\A p : Obj(p, n) # None) /\ (\A p : Pkg(p) # None) BY ObjectsApart
<1>12. OldValue(conf, n) = old
  <2>1. CASE D # {}
    <3>1. conf.olds[n] = Obj(Exec(Latest(D)), n) /\ conf.olds[n] # None BY <1>2, <1>9, <1>11, <2>1
    <3>2. QED BY <2>1, <3>1 DEF OldValue
  <2>2. CASE D = {} /\ E # {}
    <3>1. conf.olds[n] = None /\ conf.oldImports[n] = Pkg(PathOf(history[Latest(E)].block, n))
      BY <1>2, <1>9, <1>10, <2>2
    <3>2. conf.oldImports[n] # None BY <1>11, <3>1
    <3>3. QED BY <2>2, <3>1, <3>2 DEF OldValue
  <2>3. CASE D = {} /\ E = {}
    <3>1. conf.olds[n] = None /\ conf.oldImports[n] = None BY <1>2, <1>9, <1>10, <2>3
    <3>2. QED BY <2>3, <3>1 DEF OldValue
  <2>4. QED BY <2>1, <2>2, <2>3
<1> HIDE DEF old
<1>13. Resolve(n, locals, above, ImportsOf(b), conf) = Means(k, n, locals, above)
  <2>1. CASE n \in locals BY <2>1 DEF Resolve, Means
  <2>2. CASE n \in above \ locals BY <1>2, <2>2 DEF Resolve, Means
  <2>3. CASE n \notin locals \cup above /\ \E im \in ImportsOf(b) : im.name = n
    <3>1. Resolve(n, locals, above, ImportsOf(b), conf) = Pkg(PathOf(b, n)) BY <2>3 DEF Resolve, PathOf
    <3>2. Means(k, n, locals, above) = Pkg(PathOf(b, n)) BY <2>3 DEF Means, b
    <3>3. QED BY <3>1, <3>2
  <2>4. CASE n \notin locals \cup above /\ ~\E im \in ImportsOf(b) : im.name = n
    <3>1. Resolve(n, locals, above, ImportsOf(b), conf) = old BY <1>12, <2>4 DEF Resolve
    <3>2. Means(k, n, locals, above) = old BY <2>4 DEF Means, b, old, D, E
    <3>3. QED BY <3>1, <3>2
  <2>5. QED BY <2>1, <2>2, <2>3, <2>4
<1>14. QED BY <1>13 DEF Ref, b, conf, locals, above

\* The invariant implies that meaning is kept.
LEMMA InvMeaning ==
  ASSUME SessionAssumption, ConversionInv
  PROVE  MeaningKept
<1>1. history \in Seq({history[l] : l \in DOMAIN history}) BY DEF ConversionInv
<1>2. DOMAIN history = 1 .. Len(history) BY <1>1, LenProperties
<1>3. SUFFICES ASSUME NEW k \in 1 .. Len(history), Accepted(k), NEW i \in Texted(history[k].block)
               PROVE  Understood(k, i) = [j \in DOMAIN history[k].result.src.texts[i] |->
                        Denotes(history[k].result.src, Locals(history[k].block, i), history[k].result.src.texts[i][j])]
  BY <1>2 DEF MeaningKept, Texted
<1> DEFINE b == history[k].block
           conf == history[k].conf
           src == history[k].result.src
<1>4. PICK m, m2 : MadeAt(k, m, m2) BY <1>3, MadeIs
<1>5. OldsDefined(conf) BY OldsAreDefined
<1>6. /\ DOMAIN src.texts[i] = DOMAIN b[i].uses
      /\ \A j \in DOMAIN b[i].uses :
           Denotes(src, Locals(b, i), src.texts[i][j]) = Reading(b, i, b[i].uses[j].name, conf)
  BY <1>4, <1>5, SourceKeepsMeaning DEF MadeAt
<1>7. \A j \in DOMAIN b[i].uses : Means(k, b[i].uses[j].name, Locals(b, i), Above(b, i)) =
                                    Ref(b, i, b[i].uses[j].name, conf)
  BY RefIsMeant DEF IsUse
<1>8. Meant(k, i) = [j \in DOMAIN b[i].uses |-> Means(k, b[i].uses[j].name, Locals(b, i), Above(b, i))]
  BY DEF Meant
<1>9. conf = ConfAt(history, k) /\ ConfAt(history, k).path = Exec(k)
  <2>1. conf = ConfAt(history, k) BY DEF ConversionInv
  <2>2. QED BY <2>1 DEF ConfAt
<1>10. \A j \in DOMAIN b[i].uses : Captured(k, i, j) <=> Captures(b, i, b[i].uses[j].name, conf)
  BY <1>7, <1>8 DEF Captured, Captures
<1>11. Understood(k, i) = [j \in DOMAIN Meant(k, i) |->
                             IF Captured(k, i, j) THEN Obj(Exec(k), b[i].uses[j].name) ELSE Meant(k, i)[j]]
  BY DEF Understood
<1> HIDE DEF b, conf, src
<1>12. Understood(k, i) = [j \in DOMAIN b[i].uses |-> Reading(b, i, b[i].uses[j].name, conf)]
  BY <1>7, <1>8, <1>9, <1>10, <1>11 DEF Reading
<1>13. Understood(k, i) = [j \in DOMAIN src.texts[i] |-> Denotes(src, Locals(b, i), src.texts[i][j])]
  BY <1>6, <1>12
<1>14. QED BY <1>13 DEF b, src

\* It implies that the sources are valid.
LEMMA InvSources ==
  ASSUME SessionAssumption, ConversionInv
  PROVE  ValidSource
<1>1. history \in Seq({history[l] : l \in DOMAIN history}) BY DEF ConversionInv
<1>2. DOMAIN history = 1 .. Len(history) BY <1>1, LenProperties
<1>3. ASSUME NEW k \in 1 .. Len(history), Accepted(k), NEW src, src = history[k].result.src
      PROVE  ImportsFit(src)
  <2> DEFINE named == {im \in src.imports : im.name # BlankName}
             b == history[k].block
             conf == history[k].conf
             file == Phase2(b, conf)
             texts == Rechecked(b, file, conf)
  <2>1. PICK m, m2 : MadeAt(k, m, m2) BY <1>3, MadeIs
  <2>2. Made(b, conf, k, file, m, texts, m2, src) BY <1>3, <2>1 DEF MadeAt
  <2> HIDE DEF b, conf, file, texts
  <2>3. \A a, c \in named : a.name = c.name => a = c BY <1>3, <2>2, ImportsDistinct
  <2>4. \A im \in named : im.name \notin Top2(b) BY <1>3, <2>2, NamedImport
  <2>5. src.defs = {[name |-> n, prefix |-> DefPrefix(n)] : n \in Top2(b)} BY <2>2, SourceIs
  <2>6. \A im \in named : [name |-> im.name, prefix |-> FALSE] \notin src.defs
    <3>1. \A d \in src.defs : d.name \in Top2(b) BY <2>5
    <3>2. QED BY <2>4, <3>1
  <2>7. \A im \in named : im.name \in Qualifiers(src) \ {Unqualified} BY <1>3, <2>2, ImportsUsed
  <2>8. \A n \in Qualifiers(src) \ {Unqualified} : \E im \in named : im.name = n
    <3>1. SUFFICES ASSUME NEW n \in Qualifiers(src), n # Unqualified PROVE \E im \in named : im.name = n OBVIOUS
    <3>2. \E im \in src.imports : im.name = n /\ im.name # BlankName BY <2>2, <3>1, QualifiersImported
    <3>3. QED BY <1>3, <3>2
  <2>9. QED BY <2>3, <2>6, <2>7, <2>8 DEF ImportsFit
<1>4. QED BY <1>2, <1>3 DEF ValidSource

\* It implies that variables are registered first.
LEMMA InvRegistered ==
  ASSUME SessionAssumption, ConversionInv
  PROVE  RegisteredFirst
<1>1. history \in Seq({history[l] : l \in DOMAIN history}) BY DEF ConversionInv
<1>2. DOMAIN history = 1 .. Len(history) BY <1>1, LenProperties
<1>3. ASSUME NEW k \in 1 .. Len(history), Accepted(k)
      PROVE  /\ RegisteredOnce(history[k].block, history[k].result.src.init)
             /\ StatementsInOrder(history[k].block, history[k].result.src.init)
  <2> DEFINE b == history[k].block
             conf == history[k].conf
             init == history[k].result.src.init
  <2>1. PICK m, m2 : MadeAt(k, m, m2) BY <1>3, MadeIs
  <2>2. init = LgoInitBody(b) BY <2>1, SourceIs DEF MadeAt
  <2>3. BlockOK(b) BY ConfIsOK
  <2>4. Check1(b, conf) /\ Check2(b, Phase2(b, conf), conf) BY <1>3, MadeIs
  <2> HIDE DEF b, conf, init
  <2>5. PICK specs, stays : BodyIs(b, init, specs, stays) BY <2>2, <2>3, BodyExists
  <2>6. RegisteredOnce(b, init) /\ StatementsInOrder(b, init)
    BY <2>3, <2>4, <2>5, RegistersOnce, StatementsStay
  <2>7. QED BY <2>6 DEF b, init
<1>4. QED BY <1>2, <1>3 DEF RegisteredFirst

(* What LgoRunner.Run gives to a conversion is what the blocks that were   *)
(* accepted before declared and imported last, for sessions of any length: *)
(* a block that was refused leaves nothing behind.                         *)
THEOREM SessionCarriedOn == ConversionSpec => []ConversionInv
<1>1. ConversionInit => ConversionInv BY InitInv
<1>2. ConversionInv /\ [ConversionNext]_conversionVars => ConversionInv'
  <2> SUFFICES ASSUME ConversionInv, [ConversionNext]_conversionVars PROVE ConversionInv' OBVIOUS
  <2>1. CASE ConversionNext
    <3>1. PICK b \in FirstBlocks \cup Blocks : Run(b) BY <2>1 DEF ConversionNext
    <3>2. Len(history) < MaxBlocks BY <2>1 DEF ConversionNext
    <3>3. QED BY <3>1, <3>2, RunInv
  <2>2. CASE UNCHANGED conversionVars
    <3>1. vars' = vars /\ imports' = imports /\ history' = history BY <2>2 DEF conversionVars
    <3>2. QED BY <3>1 DEF ConversionInv
  <2>3. QED BY <2>1, <2>2
<1>3. QED BY <1>1, <1>2, PTL DEF ConversionSpec

(* Every name in the source of every accepted block denotes what the       *)
(* author of the block meant, whatever the session declared and imported   *)
(* before and whichever names are reused, shadowed or blank; except that a *)
(* package which only the session imports is, in the statements that run   *)
(* and in types, replaced by what the block declares under its name, when  *)
(* the second check finds the selected member there (converter.go 905-979).*)
THEOREM MeaningPreserved == ConversionSpec => []MeaningKept
<1>1. ConversionInv => MeaningKept BY InvMeaning, SessionAssumption
<1>2. QED BY <1>1, SessionCarriedOn, PTL

(* Every source that Convert returns without an error is valid: its        *)
(* imports fit its texts and definitions, and lgo_init registers each      *)
(* variable once, before the statements, which keep their order.           *)
THEOREM SourcesSound == ConversionSpec => []PackageSound
<1>1. ConversionInv => PackageSound BY InvSources, InvRegistered, SessionAssumption DEF PackageSound
<1>2. QED BY <1>1, SessionCarriedOn, PTL
===============================================================================
