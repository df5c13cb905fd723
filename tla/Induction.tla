------------------------------ MODULE Induction ------------------------------
(***************************************************************************)
(* Induction over the natural numbers in a form the backends can use: over *)
(* a set instead of a predicate.  The modules of proofs about recursive    *)
(* functions, on sequences and on texts, build on it.                      *)
(***************************************************************************)
EXTENDS Integers, Sequences, NaturalsInduction, WellFoundedInduction, TLAPS

LessThan == {ss \in Nat \X Nat : ss[1] < ss[2]}

LEMMA LessThanWellFounded == IsWellFoundedOn(LessThan, Nat)
  BY NatLessThanWellFounded DEF OpToRel, LessThan

\* A set that holds 0, and with each number the next one, holds all of them.
THEOREM SetInduction ==
  ASSUME NEW S, 0 \in S, \A n \in Nat : n \in S => n + 1 \in S
  PROVE  Nat \subseteq S
<1>1. SUFFICES ASSUME Nat \ S # {} PROVE FALSE
  OBVIOUS
<1>2. PICK x \in Nat \ S : \A y \in Nat \ S : <<y, x>> \notin LessThan
  BY <1>1, LessThanWellFounded, WFMin
<1>3. x # 0 /\ x - 1 \in Nat /\ <<x - 1, x>> \in LessThan
  BY DEF LessThan
<1>4. x - 1 \in S BY <1>2, <1>3
<1>5. QED BY <1>2, <1>3, <1>4

\* A set of natural numbers that is not empty has a least element.
LEMMA LeastExists ==
  ASSUME NEW S, S \subseteq Nat, S # {}
  PROVE  \E x \in S : \A y \in S : x <= y
<1>1. PICK x \in S : \A y \in S : <<y, x>> \notin LessThan BY LessThanWellFounded, WFMin
<1>2. ASSUME NEW y \in S PROVE x <= y
  <2>1. x \in Nat /\ y \in Nat /\ <<y, x>> \in Nat \X Nat OBVIOUS
  <2>2. ~(y < x) BY <1>1, <2>1 DEF LessThan
  <2>3. QED BY <2>1, <2>2
<1>3. QED BY <1>2

\* And a greatest one when it is bounded.
LEMMA GreatestExists ==
  ASSUME NEW m \in Nat, NEW S, S \subseteq 0 .. m, S # {}
  PROVE  \E x \in S : \A y \in S : y <= x
<1> DEFINE T == {m - x : x \in S}
<1>1. T \subseteq Nat /\ T # {}
  <2>1. \A x \in S : x \in 0 .. m /\ m - x \in Nat OBVIOUS
  <2>2. QED BY <2>1
<1>2. PICK t \in T : \A y \in T : t <= y BY <1>1, LeastExists
<1>3. m - t \in S /\ \A y \in S : y <= m - t
  <2>1. PICK x \in S : t = m - x OBVIOUS
  <2>2. m - t = x BY <2>1
  <2>3. ASSUME NEW y \in S PROVE y <= m - t BY <1>2, <2>2
  <2>4. QED BY <2>2, <2>3
<1>4. QED BY <1>3

\* The last element of a sequence, taken off and put back.
LEMMA LastOff ==
  ASSUME NEW T, NEW n \in Nat, NEW p \in Seq(T), Len(p) = n + 1
  PROVE  \E b \in Seq(T), m \in T : p = Append(b, m) /\ Len(b) = n
<1> DEFINE b == [i \in 1 .. n |-> p[i]]
<1>1. b \in Seq(T) /\ Len(b) = n /\ p[n + 1] \in T OBVIOUS
<1>2. p = Append(b, p[n + 1]) OBVIOUS
<1>3. QED BY <1>1, <1>2

LEMMA AppendConcat ==
  ASSUME NEW T, NEW a \in Seq(T), NEW q \in Seq(T), NEW m \in T
  PROVE  a \o q \in Seq(T) /\ a \o Append(q, m) = Append(a \o q, m)
  OBVIOUS
=============================================================================
