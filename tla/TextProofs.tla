------------------------------ MODULE TextProofs ------------------------------
(***************************************************************************)
(* How text is cut and put together.  utf8AwareReader delivers every text  *)
(* that it can cut between characters, however the writes fall, when a     *)
(* read is not left with less than four bytes before the end.  The liner   *)
(* ends a block with the line that completes it, whatever lines are typed  *)
(* and however many, as long as they are what Go allows.                   *)
(***************************************************************************)
EXTENDS Utf8Reader, Liner, Induction, FiniteSetTheorems, TLAPS

LongReads == MinRead >= UTFMax

-------------------------------------------------------------------------------
(* utf8AwareReader: cutting and joining sequences.                         *)
Cat(a, b) == a \o b
Front(a, m) == SubSeq(a, 1, m)
Rest(a, m) == SubSeq(a, m + 1, Len(a))

LEMMA CatType ==
  ASSUME NEW a \in Seq(Bytes), NEW b \in Seq(Bytes)
  PROVE  /\ Cat(a, b) \in Seq(Bytes) /\ Len(Cat(a, b)) = Len(a) + Len(b)
         /\ Len(a) \in Nat /\ Len(b) \in Nat
  BY DEF Cat

LEMMA CatElements ==
  ASSUME NEW a \in Seq(Bytes), NEW b \in Seq(Bytes)
  PROVE  /\ \A i \in 1 .. Len(a) : Cat(a, b)[i] = a[i]
         /\ \A i \in 1 .. Len(b) : Cat(a, b)[Len(a) + i] = b[i]
  BY DEF Cat

LEMMA CatAssoc ==
  ASSUME NEW a \in Seq(Bytes), NEW b \in Seq(Bytes), NEW c \in Seq(Bytes)
  PROVE  Cat(Cat(a, b), c) = Cat(a, Cat(b, c))
  BY DEF Cat

LEMMA CatEmpty ==
  ASSUME NEW a \in Seq(Bytes)
  PROVE  Cat(a, <<>>) = a /\ Cat(<<>>, a) = a
  BY DEF Cat

LEMMA Empty == <<>> \in Seq(Bytes) /\ Len(<<>>) = 0 /\ \A a \in Seq(Bytes) : a = <<>> <=> Len(a) = 0
  OBVIOUS

LEMMA EqualSeq ==
  ASSUME NEW a \in Seq(Bytes), NEW b \in Seq(Bytes), Len(a) = Len(b),
         \A i \in 1 .. Len(a) : a[i] = b[i]
  PROVE  a = b
  OBVIOUS

LEMMA CutInTwo ==
  ASSUME NEW a \in Seq(Bytes), NEW m \in 0 .. Len(a)
  PROVE  /\ Front(a, m) \in Seq(Bytes) /\ Rest(a, m) \in Seq(Bytes)
         /\ Len(Front(a, m)) = m /\ Len(Rest(a, m)) = Len(a) - m
         /\ Cat(Front(a, m), Rest(a, m)) = a
<1> DEFINE l == SubSeq(a, 1, m)
<1> DEFINE r == SubSeq(a, m + 1, Len(a))
<1>1. l \in Seq(Bytes) /\ Len(l) = m /\ \A i \in 1 .. m : l[i] = a[i]
  OBVIOUS
<1>2. r \in Seq(Bytes) /\ Len(r) = Len(a) - m /\ \A i \in 1 .. (Len(a) - m) : r[i] = a[m + i]
  OBVIOUS
<1> HIDE DEF l, r
<1>3. l \o r \in Seq(Bytes) /\ Len(l \o r) = Len(a) BY <1>1, <1>2
<1>4. \A i \in 1 .. Len(a) : (l \o r)[i] = a[i] BY <1>1, <1>2
<1> DEFINE lr == l \o r
<1> HIDE DEF lr
<1>5. lr = a
  <2>1. lr \in Seq(Bytes) /\ Len(lr) = Len(a) /\ \A i \in 1 .. Len(lr) : lr[i] = a[i] BY <1>3, <1>4 DEF lr
  <2>2. QED BY <2>1, EqualSeq
<1>6. QED BY <1>1, <1>2, <1>5 DEF l, r, lr, Cat, Front, Rest

\* The end of a character is the end of one in the rest of the text as well,
\* when that rest begins after a character.
LEMMA RuneEndsInRest ==
  ASSUME NEW t \in Seq(Bytes), NEW b \in Seq(Bytes), NEW m \in Nat,
         \A i \in 1 .. Len(b) : t[m + i] = b[i],
         m = 0 \/ RuneEndsAt(t, m),
         NEW j \in 1 .. Len(b)
  PROVE  RuneEndsAt(b, j) <=> RuneEndsAt(t, m + j)
<1> DEFINE e == m + j
<1>1. j \in Nat /\ e \in Nat /\ e = m + j OBVIOUS
<1>2. \A w \in 1 .. UTFMax : w \in Nat /\ w > 0 BY DEF UTFMax
<1> HIDE DEF e
<1>3. \A w \in Nat, i \in Nat : w <= j /\ i \in 1 .. w => t[e - w + i] = b[j - w + i]
  <2>1. TAKE w \in Nat, i \in Nat
  <2>2. HAVE w <= j /\ i \in 1 .. w
  <2>3. j - w + i \in 1 .. Len(b) /\ e - w + i = m + (j - w + i) BY <1>1, <2>2
  <2>4. QED BY <2>3
<1>4. ASSUME RuneEndsAt(b, j) PROVE RuneEndsAt(t, e)
  <2>1. PICK w \in 1 .. UTFMax : w <= j /\ \A i \in 1 .. w : b[j - w + i] = <<w, i>>
    BY <1>4 DEF RuneEndsAt
  <2>2. w \in Nat /\ w <= e BY <1>1, <1>2, <2>1
  <2>3. \A i \in 1 .. w : t[e - w + i] = <<w, i>>
    <3>1. TAKE i \in 1 .. w
    <3>2. i \in Nat BY <2>2
    <3>3. b[j - w + i] = <<w, i>> BY <2>1
    <3>4. t[e - w + i] = b[j - w + i] BY <1>3, <2>1, <2>2, <3>2
    <3>5. QED BY <3>3, <3>4
  <2>4. QED BY <2>2, <2>3 DEF RuneEndsAt
<1>5. ASSUME RuneEndsAt(t, e) PROVE RuneEndsAt(b, j)
  <2>1. PICK w \in 1 .. UTFMax : w <= e /\ \A i \in 1 .. w : t[e - w + i] = <<w, i>>
    BY <1>5 DEF RuneEndsAt
  <2>2. w \in Nat /\ w > 0 BY <1>2
  <2>3. w <= j
    <3>1. SUFFICES ASSUME w > j PROVE FALSE BY <1>1, <2>2
    <3>2. m > 0 BY <1>1, <2>1, <3>1
    <3>9. RuneEndsAt(t, m) BY <3>2
    <3>3. PICK v \in 1 .. UTFMax : v <= m /\ \A i \in 1 .. v : t[m - v + i] = <<v, i>>
      BY <3>9 DEF RuneEndsAt
    <3>4. v \in 1 .. v /\ m - v + v = m BY <1>2
    <3>5. t[m] = <<v, v>> BY <3>3, <3>4
    <3>6. w - j \in 1 .. w /\ e - w + (w - j) = m BY <1>1, <2>2, <3>1
    <3>7. t[m] = <<w, w - j>> BY <2>1, <3>6
    <3>8. QED BY <1>1, <2>2, <3>1, <3>5, <3>7
  <2>4. \A i \in 1 .. w : b[j - w + i] = <<w, i>>
    <3>1. TAKE i \in 1 .. w
    <3>2. i \in Nat BY <2>2
    <3>3. t[e - w + i] = <<w, i>> BY <2>1
    <3>4. t[e - w + i] = b[j - w + i] BY <1>3, <2>2, <2>3, <3>2
    <3>5. QED BY <3>3, <3>4
  <2>5. QED BY <2>3, <2>4 DEF RuneEndsAt
<1>6. QED BY <1>4, <1>5 DEF e

-------------------------------------------------------------------------------
(* utf8AwareReader: the invariant.                                         *)
LEMMA Kept ==
  ReaderInv <=>
    /\ text \in Seq(Bytes) /\ Cuttable(text)
    /\ residual \in Seq(Bytes) /\ unread \in Seq(Bytes) /\ delivered \in Seq(Bytes)
    /\ Len(residual) < UTFMax
    /\ ended \in BOOLEAN /\ pending \in BOOLEAN
    /\ ended \/ pending => residual = <<>> /\ unread = <<>>
    /\ unread # <<>> => Len(delivered) = 0 \/ RuneEndsAt(text, Len(delivered))
    /\ Cat(Cat(delivered, residual), unread) = text
    /\ ended => delivered = text
    /\ WholeRunes
  BY DEF ReaderInv, TextDelivered, BytesKept, Cat

LEMMA KeptNext ==
  ReaderInv' <=>
    (/\ text \in Seq(Bytes) /\ Cuttable(text)
     /\ residual \in Seq(Bytes) /\ unread \in Seq(Bytes) /\ delivered \in Seq(Bytes)
     /\ Len(residual) < UTFMax
     /\ ended \in BOOLEAN /\ pending \in BOOLEAN
     /\ ended \/ pending => residual = <<>> /\ unread = <<>>
     /\ unread # <<>> => Len(delivered) = 0 \/ RuneEndsAt(text, Len(delivered))
     /\ Cat(Cat(delivered, residual), unread) = text
     /\ ended => delivered = text
     /\ WholeRunes)'
  BY DEF ReaderInv, TextDelivered, BytesKept, Cat

LEMMA InvInit == ASSUME ReaderInit PROVE ReaderInv
<1>1. text \in Seq(Bytes) /\ Cuttable(text) BY TextsAssumption DEF ReaderInit
<1>2. Cat(Cat(<<>>, <<>>), text) = text BY <1>1, CatEmpty, Empty
<1>3. WholeRunes BY DEF ReaderInit, WholeRunes
<1>4. Len(residual) < UTFMax BY Empty DEF ReaderInit, UTFMax
<1>5. QED BY <1>1, <1>2, <1>3, <1>4, Empty, Kept DEF ReaderInit

LEMMA InvAtEnd == ASSUME ReaderInv, ReadPending \/ ReadAtEnd PROVE ReaderInv'
<1>1. /\ text \in Seq(Bytes) /\ Cuttable(text)
      /\ residual \in Seq(Bytes) /\ unread = <<>> /\ delivered \in Seq(Bytes)
      /\ Cat(Cat(delivered, residual), unread) = text /\ WholeRunes
      /\ text' = text /\ unread' = unread
  BY Kept DEF ReadPending, ReadAtEnd
<1>2. Cat(delivered, residual) = text /\ Len(text) = Len(delivered) + Len(residual)
  BY <1>1, CatType, CatEmpty
<1>3. Cat(Cat(text, <<>>), <<>>) = text BY <1>1, CatEmpty
<1>4. SUFFICES /\ delivered' = text /\ residual' = <<>>
               /\ ended' \in BOOLEAN /\ pending' \in BOOLEAN
               /\ breaks' \subseteq breaks \cup {Len(text)}
  <2>1. WholeRunes' BY <1>1, <1>4 DEF WholeRunes
  <2>2. Cuttable(text)' BY <1>1
  <2>3. Len(residual') < UTFMax BY <1>4, Empty DEF UTFMax
  <2>4. QED BY <1>1, <1>3, <1>4, <2>1, <2>2, <2>3, Empty, KeptNext
<1>5. CASE residual # <<>>
  <2>1. ReadAtEnd /\ Deliver(residual) /\ residual' = <<>> /\ pending' = TRUE /\ ended' = ended
    BY <1>5, Kept DEF ReadPending, ReadAtEnd
  <2>2. delivered' = text /\ breaks' = breaks \cup {Len(text)} BY <1>2, <2>1 DEF Deliver, Cat
  <2>3. QED BY <2>1, <2>2, Kept
<1>6. CASE residual = <<>>
  <2>1. delivered = text BY <1>1, <1>2, <1>6, CatEmpty
  <2>2. QED BY <1>6, <2>1, Kept DEF ReadPending, ReadAtEnd
<1>7. QED BY <1>5, <1>6

LEMMA InvReadBytes ==
  ASSUME LongReads, ReaderInv, NEW k \in 1 .. Len(unread),
         Len(residual) + k >= MinRead \/ k = Len(unread), ReadBytes(k)
  PROVE  ReaderInv'
<1> DEFINE d == Len(delivered)
<1> DEFINE o == Front(unread, k)
<1> DEFINE u == Rest(unread, k)
<1> DEFINE p == Cat(residual, o)
<1> DEFINE n == Len(p)
<1> DEFINE cuts == {i \in 0 .. (UTFMax - 1) : i < n /\ RuneEndsAt(p, n - i)}
<1> DEFINE i == CHOOSE c \in cuts : \A e \in cuts : c <= e
<1>1. /\ text \in Seq(Bytes) /\ residual \in Seq(Bytes) /\ unread \in Seq(Bytes) /\ delivered \in Seq(Bytes)
      /\ Len(unread) \in Nat /\ unread # <<>> /\ ~ended /\ ~pending /\ k \in Nat /\ k > 0
      /\ Cat(Cat(delivered, residual), unread) = text /\ d \in Nat /\ Len(residual) \in Nat
      /\ Cuttable(text) /\ WholeRunes /\ ended \in BOOLEAN /\ pending \in BOOLEAN
      /\ d = 0 \/ RuneEndsAt(text, d)
  BY Kept, Empty DEF ReadBytes
<1>2. /\ o \in Seq(Bytes) /\ u \in Seq(Bytes) /\ Cat(o, u) = unread
      /\ Len(o) = k /\ Len(u) = Len(unread) - k
  BY <1>1, CutInTwo
<1>3. /\ text' = text /\ ended' = ended /\ pending' = pending /\ unread' = u
      /\ IF cuts # {} THEN Deliver(Front(p, n - i)) /\ residual' = SubSeq(p, n - i + 1, n)
         ELSE Deliver(p) /\ UNCHANGED residual
  BY DEF ReadBytes, Cat, Front, Rest
<1> HIDE DEF o, u
<1>4. p \in Seq(Bytes) /\ n = Len(residual) + k /\ n \in Nat /\ n > 0
  <2>1. p \in Seq(Bytes) /\ Len(p) = Len(residual) + Len(o) BY <1>1, <1>2, CatType
  <2> HIDE DEF p
  <2>2. QED BY <1>1, <1>2, <2>1
<1>5. text = Cat(delivered, Cat(p, u))
  <2>1. Cat(residual, unread) = Cat(p, u) BY <1>1, <1>2, CatAssoc
  <2>2. QED BY <1>1, <2>1, CatAssoc
<1> HIDE DEF p
<1>6. Len(text) = d + n + Len(u) /\ Len(u) \in Nat /\ \A j \in 1 .. n : text[d + j] = p[j]
  <2> DEFINE r == Cat(p, u)
  <2>1. /\ r \in Seq(Bytes) /\ Len(r) = n + Len(u) /\ Len(u) \in Nat
        /\ \A j \in 1 .. n : r[j] = p[j]
    BY <1>2, <1>4, CatType, CatElements
  <2>2. text = Cat(delivered, r) BY <1>5
  <2> HIDE DEF r
  <2>3. Len(text) = d + Len(r) BY <1>1, <2>1, <2>2, CatType
  <2>4. \A j \in 1 .. Len(r) : text[d + j] = r[j]
    <3>1. \A j \in 1 .. Len(r) : Cat(delivered, r)[Len(delivered) + j] = r[j]
      BY <1>1, <2>1, CatElements, Zenon
    <3>2. QED BY <2>2, <3>1, Zenon
  <2> HIDE DEF d, n
  <2>5. QED BY <1>1, <1>4, <2>1, <2>3, <2>4
<1> HIDE DEF d, n
<1>7. \A j \in 1 .. n : RuneEndsAt(p, j) <=> RuneEndsAt(text, d + j)
  BY <1>1, <1>4, <1>6, RuneEndsInRest DEF n
<1>8. CASE cuts # {}
  <2>1. cuts \subseteq 0 .. 3 BY DEF UTFMax
  <2>2. i \in cuts
    <3>1. \E c \in cuts : \A e \in cuts : c <= e
      <4> HIDE DEF cuts
      <4>1. CASE 0 \in cuts BY <2>1, <4>1
      <4>2. CASE 0 \notin cuts /\ 1 \in cuts BY <2>1, <4>2
      <4>3. CASE 0 \notin cuts /\ 1 \notin cuts /\ 2 \in cuts BY <2>1, <4>3
      <4>4. CASE 0 \notin cuts /\ 1 \notin cuts /\ 2 \notin cuts
        <5>1. \A c \in cuts : c = 3 BY <2>1, <4>4
        <5>2. QED BY <1>8, <5>1
      <4>5. QED BY <4>1, <4>2, <4>3, <4>4
    <3>2. QED BY <3>1
  <2> DEFINE m == n - i
  <2>3. i \in 0 .. 3 /\ i < n /\ RuneEndsAt(p, m) BY <2>1, <2>2
  <2> HIDE DEF cuts, i
  <2>4. m \in 1 .. n /\ n - m = i BY <1>4, <2>3
  <2>5. RuneEndsAt(text, d + m) BY <1>7, <2>3, <2>4
  <2> HIDE DEF m
  <2> DEFINE l == Front(p, m)
  <2> DEFINE r == Rest(p, m)
  <2>6. /\ delivered' = Cat(delivered, l) /\ breaks' = breaks \cup {d + Len(l)} /\ residual' = r
    BY <1>3, <1>8 DEF Deliver, d, m, n, Cat, Rest
  <2>7. l \in Seq(Bytes) /\ r \in Seq(Bytes) /\ Len(l) = m /\ Len(r) = i /\ Cat(l, r) = p
    <3>1. m \in 0 .. Len(p) BY <1>4, <2>4 DEF n
    <3>2. QED BY <1>4, <2>4, <3>1, CutInTwo DEF n
  <2> HIDE DEF l, r
  <2>8. Cat(delivered, l) \in Seq(Bytes) /\ Len(Cat(delivered, l)) = d + m BY <1>1, <2>7, CatType DEF d
  <2>9. Cat(Cat(Cat(delivered, l), r), u) = text
    <3>1. Cat(r, u) \in Seq(Bytes) BY <1>2, <2>7, CatType
    <3>2. Cat(Cat(Cat(delivered, l), r), u) = Cat(Cat(delivered, l), Cat(r, u))
      BY <1>2, <2>7, <2>8, CatAssoc
    <3>3. Cat(Cat(delivered, l), Cat(r, u)) = Cat(delivered, Cat(l, Cat(r, u)))
      BY <1>1, <2>7, <3>1, CatAssoc
    <3>4. Cat(l, Cat(r, u)) = Cat(p, u) BY <1>2, <2>7, CatAssoc
    <3>5. QED BY <1>5, <3>2, <3>3, <3>4
  <2>10. WholeRunes' BY <1>1, <1>3, <2>5, <2>6, <2>7 DEF WholeRunes
  <2>11. Cuttable(text)' BY <1>1, <1>3
  <2>12. i < UTFMax BY <2>3 DEF UTFMax
  <2>13. QED
    BY <1>1, <1>2, <1>3, <2>5, <2>6, <2>7, <2>8, <2>9, <2>10, <2>11, <2>12, KeptNext DEF d
<1>9. CASE cuts = {}
  <2>1. \A j \in 1 .. n : j + UTFMax > n => ~RuneEndsAt(text, d + j)
    <3>1. SUFFICES ASSUME NEW j \in 1 .. n, j + UTFMax > n, RuneEndsAt(text, d + j) PROVE FALSE
      OBVIOUS
    <3>2. RuneEndsAt(p, j) BY <1>7, <3>1
    <3>3. n - j \in 0 .. (UTFMax - 1) /\ n - j < n /\ n - (n - j) = j BY <1>4, <3>1 DEF UTFMax
    <3>4. n - j \in cuts BY <3>2, <3>3
    <3>5. QED BY <1>9, <3>4
  <2> HIDE DEF cuts
  <2>2. n = 1 /\ Len(u) = 0
    <3>1. \A x \in 0 .. (Len(text) - 2) :
            \E j \in (x + 1) .. (x + UTFMax) : j <= Len(text) /\ RuneEndsAt(text, j)
      BY <1>1 DEF Cuttable
    <3>2. ASSUME n >= UTFMax PROVE FALSE
      <4> DEFINE x == d + n - UTFMax
      <4>1. x \in 0 .. (Len(text) - 2) /\ x + UTFMax = d + n BY <1>1, <1>4, <1>6, <3>2 DEF UTFMax
      <4>2. PICK j \in (x + 1) .. (x + UTFMax) : RuneEndsAt(text, j) BY <3>1, <4>1
      <4>3. j - d \in 1 .. n /\ j - d + UTFMax > n /\ d + (j - d) = j
        BY <1>1, <1>4, <3>2, <4>1, <4>2 DEF UTFMax
      <4>4. QED BY <2>1, <4>2, <4>3
    <3>3. ASSUME n < UTFMax PROVE Len(u) = 0
      BY <1>1, <1>2, <1>4, <3>3, MinReadAssumption DEF LongReads, UTFMax
    <3>4. ASSUME n < UTFMax, n > 1 PROVE FALSE
      <4>1. d \in 0 .. (Len(text) - 2) /\ Len(text) = d + n BY <1>1, <1>4, <1>6, <3>3, <3>4 DEF UTFMax
      <4>2. PICK j \in (d + 1) .. (d + UTFMax) : j <= d + n /\ RuneEndsAt(text, j) BY <3>1, <4>1
      <4>3. j - d \in 1 .. n /\ j - d + UTFMax > n /\ d + (j - d) = j
        BY <1>1, <1>4, <3>4, <4>1, <4>2 DEF UTFMax
      <4>4. QED BY <2>1, <4>2, <4>3
    <3>5. QED BY <1>4, <3>2, <3>3, <3>4 DEF UTFMax
  <2>3. residual = <<>> /\ u = <<>>
    <3>1. Len(residual) = 0 /\ Len(u) = 0 BY <1>1, <1>4, <2>2
    <3>2. QED BY <1>1, <1>2, <3>1, Empty
  <2>4. /\ delivered' = Cat(delivered, p) /\ breaks' = breaks \cup {d + n} /\ residual' = residual
    BY <1>3, <1>9 DEF Deliver, d, n, Cat
  <2>5. Len(text) = d + n BY <1>1, <1>4, <1>6, <2>2
  <2>6. delivered' = text
    <3>1. Cat(p, u) = p BY <1>4, <2>3, CatEmpty
    <3>2. QED BY <1>1, <1>5, <2>4, <3>1
  <2>7. Cat(Cat(text, <<>>), <<>>) = text BY <1>1, CatEmpty
  <2>8. WholeRunes' BY <1>1, <1>3, <2>4, <2>5 DEF WholeRunes
  <2>9. Cuttable(text)' BY <1>1, <1>3
  <2>10. Len(residual') < UTFMax BY <2>3, <2>4, Empty DEF UTFMax
  <2>11. QED BY <1>1, <1>3, <2>3, <2>4, <2>6, <2>7, <2>8, <2>9, <2>10, Empty, KeptNext
<1>10. QED BY <1>8, <1>9

-------------------------------------------------------------------------------
(* The reader of kernel.go delivers what an execution prints: every byte,  *)
(* once and in order, and no character in two pieces.  A read of less than *)
(* four bytes that is not the last one is excluded.                        *)
THEOREM ReaderInvariance == ASSUME LongReads PROVE ReaderSpec => []ReaderInv
<1>1. ASSUME ReaderInv, [ReaderNext]_readerVars PROVE ReaderInv'
  <2>1. CASE ReadPending \/ ReadAtEnd BY <1>1, <2>1, InvAtEnd
  <2>2. CASE \E k \in 1 .. Len(unread) :
               /\ Len(residual) + k >= MinRead \/ k = Len(unread)
               /\ ReadBytes(k)
    BY <1>1, <2>2, InvReadBytes
  <2>3. CASE UNCHANGED readerVars
    BY <1>1, <2>3 DEF readerVars, ReaderInv, TextDelivered, BytesKept, WholeRunes
  <2>4. QED BY <1>1, <2>1, <2>2, <2>3 DEF ReaderNext
<1>2. QED BY <1>1, InvInit, PTL DEF ReaderSpec

(* The property that the tools of the workbench are checked for.           *)
THEOREM TextIsDelivered == ASSUME LongReads PROVE ReaderSpec => []TextDelivered
<1>1. ReaderInv => TextDelivered BY DEF ReaderInv
<1>2. QED BY <1>1, ReaderInvariance, PTL
-------------------------------------------------------------------------------
(* Which texts the reader can cut.                                         *)
LEMMA OneMoreRune ==
  ASSUME NEW a \in Seq(Bytes), Cuttable(a), Len(a) = 0 \/ RuneEndsAt(a, Len(a)),
         NEW r \in Seq(Bytes), NEW w \in 1 .. UTFMax, Len(r) = w, \A i \in 1 .. w : r[i] = <<w, i>>
  PROVE  Cuttable(Cat(a, r)) /\ RuneEndsAt(Cat(a, r), Len(Cat(a, r)))
<1> DEFINE t == Cat(a, r)
<1> DEFINE n == Len(a)
<1>1. t \in Seq(Bytes) /\ Len(t) = n + w /\ n \in Nat /\ w \in 1 .. 4 BY CatType DEF UTFMax
<1>2. /\ \A i \in 1 .. n : t[i] = a[i]
      /\ \A i \in 1 .. w : t[n + i] = <<w, i>>
  BY CatElements
<1> HIDE DEF t, n
<1>3. RuneEndsAt(t, n + w)
  <2> DEFINE m == n + w
  <2>1. ASSUME NEW i \in 1 .. w PROVE t[m - w + i] = <<w, i>>
    <3>1. m - w + i = n + i BY <1>1
    <3>2. QED BY <1>2, <3>1
  <2>2. w <= m /\ w \in 1 .. UTFMax BY <1>1
  <2> HIDE DEF m
  <2>3. RuneEndsAt(t, m) BY <2>1, <2>2 DEF RuneEndsAt
  <2>4. QED BY <2>3 DEF m
<1>4. ASSUME NEW j \in 1 .. n, RuneEndsAt(a, j) PROVE RuneEndsAt(t, j)
  <2>1. PICK v \in 1 .. UTFMax : v <= j /\ \A i \in 1 .. v : a[j - v + i] = <<v, i>>
    BY <1>4 DEF RuneEndsAt
  <2>2. \A i \in 1 .. v : j - v + i \in 1 .. n BY <1>1, <2>1 DEF UTFMax
  <2>3. QED BY <1>2, <2>1, <2>2 DEF RuneEndsAt
<1>5. Cuttable(t)
  <2>0. SUFFICES ASSUME NEW i \in 0 .. (Len(t) - 2)
                 PROVE  \E j \in (i + 1) .. (i + UTFMax) : j <= Len(t) /\ RuneEndsAt(t, j)
    BY DEF Cuttable
  <2>1. Len(t) = n + w /\ i \in 0 .. (n + w - 2) BY <1>1
  <2>2. CASE i <= n - 2
    <3>1. i \in 0 .. (Len(a) - 2) BY <1>1, <2>2 DEF n
    <3>2. PICK j \in (i + 1) .. (i + UTFMax) : j <= n /\ RuneEndsAt(a, j) BY <3>1 DEF Cuttable, n
    <3>3. j \in 1 .. n /\ j <= n + w BY <1>1, <3>2 DEF UTFMax
    <3>4. QED BY <1>4, <2>1, <3>2, <3>3
  <2>3. CASE i = n - 1
    <3>1. n \in 1 .. n /\ n \in (i + 1) .. (i + UTFMax) /\ n <= n + w BY <1>1, <2>1, <2>3 DEF UTFMax
    <3>2. RuneEndsAt(a, n) BY <3>1 DEF n
    <3>3. QED BY <1>4, <2>1, <3>1, <3>2
  <2>4. CASE i >= n
    <3>1. n + w \in (i + 1) .. (i + UTFMax) BY <1>1, <2>1, <2>4 DEF UTFMax
    <3>2. QED BY <1>3, <2>1, <3>1
  <2>5. QED BY <1>1, <2>1, <2>2, <2>3, <2>4
<1>6. QED BY <1>1, <1>3, <1>5 DEF t

LEMMA RuneBytes ==
  ASSUME NEW w \in 1 .. UTFMax
  PROVE  LET r == BytesOfRune(w)
         IN  r \in Seq(Bytes) /\ Len(r) = w /\ \A i \in 1 .. w : r[i] = <<w, i>>
<1> DEFINE r == [i \in 1 .. w |-> <<w, i>>]
<1>1. w \in Nat /\ w # 5 /\ w # 0 BY DEF UTFMax
<1>2. (CASE w = 5 -> 3 [] w = 0 -> 1 [] OTHER -> w) = w BY <1>1
<1>3. BytesOfRune(w) = r BY <1>2 DEF BytesOfRune
<1>4. ASSUME NEW i \in 1 .. w PROVE <<w, i>> \in Bytes BY <1>1 DEF Bytes
<1>5. r \in Seq(Bytes) BY <1>1, <1>4
<1>6. Len(r) = w /\ \A i \in 1 .. w : r[i] = <<w, i>> BY <1>1
<1> HIDE DEF r
<1>7. QED BY <1>3, <1>5, <1>6

(* A text of characters of one to four bytes, whatever they are, is one    *)
(* that the reader can cut: the assumption of this module on texts excludes*)
(* none of those that utf8_reader_test.go calls valid.                     *)
THEOREM RunesAreCuttable ==
  ASSUME NEW upto \in [Nat -> Seq(Bytes)], upto[0] = <<>>,
         \A n \in Nat : \E w \in 1 .. UTFMax : upto[n + 1] = upto[n] \o BytesOfRune(w)
  PROVE  \A n \in Nat : Cuttable(upto[n])
<1> DEFINE Good(a) == Cuttable(a) /\ (Len(a) = 0 \/ RuneEndsAt(a, Len(a)))
<1> DEFINE S == {n \in Nat : Good(upto[n])}
<1>1. 0 \in S BY Empty DEF Cuttable
<1>2. ASSUME NEW n \in Nat, n \in S PROVE n + 1 \in S
  <2>1. PICK w \in 1 .. UTFMax : upto[n + 1] = upto[n] \o BytesOfRune(w) OBVIOUS
  <2> DEFINE r == BytesOfRune(w)
  <2>2. r \in Seq(Bytes) /\ Len(r) = w /\ \A i \in 1 .. w : r[i] = <<w, i>> BY RuneBytes
  <2>3. Good(upto[n]) BY <1>2
  <2>4. upto[n + 1] = Cat(upto[n], r) BY <2>1 DEF Cat
  <2> HIDE DEF r
  <2>5. Good(upto[n + 1]) BY <2>2, <2>3, <2>4, OneMoreRune
  <2>6. QED BY <2>5
<1> HIDE DEF Good
<1>3. Nat \subseteq S BY <1>1, <1>2, SetInduction
<1>4. QED BY <1>3 DEF Good

-------------------------------------------------------------------------------
(* The liner: reading a list of lines.                                     *)

\* r is the function of the definition of ReadAll, for the first m lines.
IsRead(r, step, start, lns, m) ==
  r = [i \in 0 .. m |-> IF i = 0 THEN start ELSE step[lns[i]][r[i - 1]]]

LEMMA ReadExists ==
  ASSUME NEW step, NEW start, NEW lns, NEW n \in Nat
  PROVE  \E r : IsRead(r, step, start, lns, n)
<1> DEFINE G == {m \in Nat : \E r : IsRead(r, step, start, lns, m)}
<1>1. 0 \in G
  <2> DEFINE c == [i \in 0 .. 0 |-> start]
  <2>1. c = [i \in 0 .. 0 |-> IF i = 0 THEN start ELSE step[lns[i]][c[i - 1]]] OBVIOUS
  <2>2. QED BY <2>1 DEF IsRead
<1>2. ASSUME NEW m \in Nat, m \in G PROVE m + 1 \in G
  <2>1. PICK c : c = [i \in 0 .. m |-> IF i = 0 THEN start ELSE step[lns[i]][c[i - 1]]]
    BY <1>2 DEF IsRead
  <2> DEFINE d == [i \in 0 .. m + 1 |-> IF i = m + 1 THEN step[lns[i]][c[i - 1]] ELSE c[i]]
             e == [i \in 0 .. m + 1 |-> IF i = 0 THEN start ELSE step[lns[i]][d[i - 1]]]
  <2>2. ASSUME NEW i \in 0 .. m + 1 PROVE d[i] = IF i = 0 THEN start ELSE step[lns[i]][d[i - 1]]
    <3>1. CASE i = 0 BY <2>1, <3>1
    <3>2. CASE i # 0
      <4>1. i - 1 \in 0 .. m /\ i - 1 # m + 1 /\ i - 1 \in 0 .. m + 1 BY <3>2
      <4>2. d[i - 1] = c[i - 1] BY <4>1
      <4>3. CASE i = m + 1 BY <4>2, <4>3
      <4>4. CASE i # m + 1
        <5>1. i \in 0 .. m /\ d[i] = c[i] BY <4>4
        <5>2. QED BY <2>1, <3>2, <4>2, <5>1
      <4>5. QED BY <4>3, <4>4
    <3>3. QED BY <3>1, <3>2
  <2>3. d = e
    <3>1. \A i \in 0 .. m + 1 : e[i] = d[i] BY <2>2
    <3>2. DOMAIN e = 0 .. m + 1 /\ DOMAIN d = 0 .. m + 1 OBVIOUS
    <3> HIDE DEF d
    <3>3. d = [i \in 0 .. m + 1 |-> d[i]] BY <3>2 DEF d
    <3>4. e = [i \in 0 .. m + 1 |-> d[i]] BY <2>2
    <3>5. QED BY <3>3, <3>4
  <2> HIDE DEF d
  <2>4. IsRead(d, step, start, lns, m + 1) BY <2>3 DEF IsRead
  <2>5. QED BY <2>4
<1> HIDE DEF G
<1>3. Nat \subseteq G BY <1>1, <1>2, SetInduction
<1>4. n \in G BY <1>3
<1>5. QED BY <1>4 DEF G

LEMMA ReadIs ==
  ASSUME NEW step, NEW start, NEW T, NEW lns \in Seq(T)
  PROVE  \E r : IsRead(r, step, start, lns, Len(lns)) /\ ReadAll(step, start, lns) = r[Len(lns)]
<1> DEFINE r == CHOOSE f : IsRead(f, step, start, lns, Len(lns))
<1>0. Len(lns) \in Nat OBVIOUS
<1>1. IsRead(r, step, start, lns, Len(lns)) BY <1>0, ReadExists
<1>2. ReadAll(step, start, lns) = r[Len(lns)] BY DEF ReadAll, IsRead
<1> HIDE DEF r
<1>3. QED BY <1>1, <1>2

LEMMA ReadsAgree ==
  ASSUME NEW step, NEW start, NEW p, NEW q, NEW c, NEW d, NEW l \in Nat, NEW k \in Nat,
         IsRead(c, step, start, p, l), IsRead(d, step, start, q, k),
         NEW n \in Nat, n <= l, n <= k, \A i \in 1 .. n : p[i] = q[i]
  PROVE  c[n] = d[n]
<1> DEFINE G == {m \in Nat : m <= n => c[m] = d[m]}
<1>1. 0 \in G BY DEF IsRead
<1>2. ASSUME NEW m \in Nat, m \in G PROVE m + 1 \in G
  <2>1. SUFFICES ASSUME m + 1 <= n PROVE c[m + 1] = d[m + 1] OBVIOUS
  <2>2. m + 1 \in 0 .. l /\ m + 1 \in 0 .. k /\ m + 1 # 0 /\ (m + 1) - 1 = m BY <2>1
  <2>3. c[m] = d[m] /\ p[m + 1] = q[m + 1] BY <1>2, <2>1
  <2>4. c[m + 1] = step[p[m + 1]][c[m]] BY <2>2 DEF IsRead
  <2>5. d[m + 1] = step[q[m + 1]][d[m]] BY <2>2 DEF IsRead
  <2>6. QED BY <2>3, <2>4, <2>5
<1> HIDE DEF G
<1>3. Nat \subseteq G BY <1>1, <1>2, SetInduction
<1>4. QED BY <1>3 DEF G

\* No lines leave the state as it is, one more line takes it one step on.
LEMMA ReadOfNone ==
  ASSUME NEW step, NEW start
  PROVE  ReadAll(step, start, <<>>) = start
<1>1. <<>> \in Seq({}) /\ Len(<<>>) = 0 OBVIOUS
<1>2. PICK r : IsRead(r, step, start, <<>>, 0) /\ ReadAll(step, start, <<>>) = r[0] BY <1>1, ReadIs
<1>3. QED BY <1>2 DEF IsRead

LEMMA ReadOfAppend ==
  ASSUME NEW step, NEW start, NEW T, NEW lns \in Seq(T), NEW t \in T
  PROVE  ReadAll(step, start, Append(lns, t)) = step[t][ReadAll(step, start, lns)]
<1> DEFINE p == Append(lns, t)
           n == Len(lns)
<1>1. /\ p \in Seq(T) /\ n \in Nat /\ Len(p) = n + 1 /\ p[n + 1] = t
      /\ \A i \in 1 .. n : p[i] = lns[i]
  OBVIOUS
<1> HIDE DEF p
<1>2. PICK c : IsRead(c, step, start, p, n + 1) /\ ReadAll(step, start, p) = c[n + 1] BY <1>1, ReadIs
<1>3. PICK d : IsRead(d, step, start, lns, n) /\ ReadAll(step, start, lns) = d[n] BY ReadIs
<1> HIDE DEF n
<1>4. c[n] = d[n]
  <2>1. n + 1 \in Nat /\ n <= n + 1 /\ n <= n BY <1>1
  <2>2. QED BY <1>1, <1>2, <1>3, <2>1, ReadsAgree
<1>5. n + 1 \in 0 .. n + 1 /\ n + 1 # 0 /\ (n + 1) - 1 = n BY <1>1
<1>6. c[n + 1] = step[p[n + 1]][c[n]] BY <1>2, <1>5 DEF IsRead
<1>7. QED BY <1>1, <1>2, <1>3, <1>4, <1>6 DEF p

LEMMA ReadTyped ==
  ASSUME NEW T, NEW S, NEW start \in S, NEW step, \A t \in T : step[t] \in [S -> S],
         NEW lns \in Seq(T)
  PROVE  ReadAll(step, start, lns) \in S
<1> DEFINE G == {n \in Nat : \A p \in Seq(T) : Len(p) = n => ReadAll(step, start, p) \in S}
<1>1. 0 \in G
  <2>1. \A p \in Seq(T) : Len(p) = 0 => p = <<>> OBVIOUS
  <2>2. QED BY <2>1, ReadOfNone
<1>2. ASSUME NEW n \in Nat, n \in G PROVE n + 1 \in G
  <2>1. SUFFICES ASSUME NEW p \in Seq(T), Len(p) = n + 1 PROVE ReadAll(step, start, p) \in S
    OBVIOUS
  <2>2. PICK b \in Seq(T), t \in T : p = Append(b, t) /\ Len(b) = n BY <2>1, LastOff
  <2>3. ReadAll(step, start, b) \in S BY <1>2, <2>2
  <2>4. ReadAll(step, start, p) = step[t][ReadAll(step, start, b)] BY <2>2, ReadOfAppend
  <2>5. QED BY <2>3, <2>4
<1> HIDE DEF G
<1>3. Nat \subseteq G BY <1>1, <1>2, SetInduction
<1>4. Len(lns) \in G BY <1>3
<1>5. QED BY <1>4 DEF G

-------------------------------------------------------------------------------
(* The states of the parser, of the scanner and of the kept lines.         *)

LEMMA KeepTyped == \A t \in Kinds : KeepLine[t] \in [Seq(Kinds) -> Seq(Kinds)]
  BY DEF KeepLine

LEMMA ScanTyped == \A t \in Kinds : ScanLine[t] \in [BraceStates -> BraceStates]
<1>1. SUFFICES ASSUME NEW t \in Kinds, NEW s \in BraceStates PROVE ScanLine[t][s] \in BraceStates
  BY DEF ScanLine
<1>2. s.indent \in Nat /\ s.raw \in BOOLEAN BY DEF BraceStates
<1>3. [s EXCEPT !.raw = (@ = FALSE)] \in BraceStates BY <1>2 DEF BraceStates
<1>4. [s EXCEPT !.indent = @ + 1] \in BraceStates BY <1>2 DEF BraceStates
<1>5. s.indent > 0 => [s EXCEPT !.indent = @ - 1] \in BraceStates BY <1>2 DEF BraceStates
<1>6. QED BY <1>3, <1>4, <1>5 DEF ScanLine

LEMMA ParseTyped == \A t \in Kinds : ParseLine[t] \in [ParserStates -> ParserStates]
<1>1. SUFFICES ASSUME NEW t \in Kinds, NEW p \in ParserStates PROVE ParseLine[t][p] \in ParserStates
  BY DEF ParseLine
<1>2. /\ p.line \in Nat /\ p.depth \in Nat /\ p.errs \subseteq Nat /\ p.decls \subseteq {"type", "method"}
      /\ p.raw \in BOOLEAN /\ p.operand \in BOOLEAN /\ p.over \in BOOLEAN
  BY DEF ParserStates
<1>3. Deeper(p, t) \in Nat BY <1>2 DEF Deeper
<1>4. p.line + 1 \in Nat /\ p.errs \cup {p.line + 1} \subseteq Nat BY <1>2
<1>5. ParseToken(p, t) \in ParserStates BY <1>2, <1>3, <1>4 DEF ParseToken, ParserStates
<1>6. [p EXCEPT !.line = @ + 1] \in ParserStates /\ [p EXCEPT !.line = @ + 1, !.raw = FALSE] \in ParserStates
  BY <1>2, <1>4 DEF ParserStates
<1>7. QED BY <1>5, <1>6 DEF ParseLine

LEMMA Typed ==
  ASSUME NEW lns \in Seq(Kinds)
  PROVE  /\ DropEmptyLine(lns) \in Seq(Kinds)
         /\ Parse(lns) \in ParserStates
         /\ Braces(lns) \in BraceStates
<1>1. Begin \in ParserStates BY DEF Begin, ParserStates
<1>2. [raw |-> FALSE, indent |-> 0] \in BraceStates BY DEF BraceStates
<1>3. DropEmptyLine(lns) \in Seq(Kinds)
  <2>1. <<>> \in Seq(Kinds) OBVIOUS
  <2>2. QED BY <2>1, KeepTyped, ReadTyped DEF DropEmptyLine
<1>4. Parse(lns) \in ParserStates BY <1>1, ParseTyped, ReadTyped DEF Parse
<1>5. Braces(lns) \in BraceStates BY <1>2, ScanTyped, ReadTyped DEF Braces
<1>6. QED BY <1>3, <1>4, <1>5

\* What one more line does to each of them.
LEMMA OneMore ==
  ASSUME NEW lns \in Seq(Kinds), NEW t \in Kinds
  PROVE  /\ DropEmptyLine(Append(lns, t)) =
              IF t = "empty" THEN DropEmptyLine(lns) ELSE Append(DropEmptyLine(lns), t)
         /\ Parse(Append(lns, t)) = ParseLine[t][Parse(lns)]
         /\ Braces(Append(lns, t)) = ScanLine[t][Braces(lns)]
<1>1. DropEmptyLine(Append(lns, t)) = KeepLine[t][DropEmptyLine(lns)]
  BY ReadOfAppend DEF DropEmptyLine
<1>2. KeepLine[t][DropEmptyLine(lns)] = IF t = "empty" THEN DropEmptyLine(lns) ELSE Append(DropEmptyLine(lns), t)
  BY Typed DEF KeepLine
<1>3. Parse(Append(lns, t)) = ParseLine[t][Parse(lns)] BY ReadOfAppend DEF Parse
<1>4. Braces(Append(lns, t)) = ScanLine[t][Braces(lns)] BY ReadOfAppend DEF Braces
<1>5. QED BY <1>1, <1>2, <1>3, <1>4

-------------------------------------------------------------------------------
(* What the user types, one line longer.                                   *)

\* The positions that Ticks, Opened and Shut count.
LEMMA OneMoreCounted ==
  ASSUME NEW n \in Nat, NEW A, NEW B, A \subseteq 1 .. n, B = A \/ B = A \cup {n + 1}
  PROVE  /\ Cardinality(A) \in Nat
         /\ Cardinality(B) = IF B = A THEN Cardinality(A) ELSE Cardinality(A) + 1
<1>0. IsFiniteSet(1 .. n) BY FS_Interval
<1>1. IsFiniteSet(A) BY <1>0, FS_Subset
<1>2. n + 1 \notin A OBVIOUS
<1>3. QED BY <1>1, <1>2, FS_CardinalityType, FS_AddElement

LEMMA CountsTyped ==
  ASSUME NEW lns, NEW n \in Nat
  PROVE  Ticks(lns, n) \in Nat /\ Opened(lns, n) \in Nat /\ Shut(lns, n) \in Nat
<1>1. IsFiniteSet(1 .. n) BY FS_Interval
<1>2. /\ IsFiniteSet({i \in 1 .. n : lns[i] = "quote"})
      /\ IsFiniteSet({i \in 1 .. n : lns[i] = "for" /\ Outside(lns, i)})
      /\ IsFiniteSet({i \in 1 .. n : lns[i] = "end" /\ Outside(lns, i)})
  BY <1>1, FS_Subset
<1>3. QED BY <1>2, FS_CardinalityType DEF Ticks, Opened, Shut

\* They depend on the lines up to n only.
LEMMA SameBelow ==
  ASSUME NEW p, NEW q, NEW m \in Nat, \A i \in 1 .. m : p[i] = q[i], NEW n \in 0 .. m
  PROVE  /\ Ticks(p, n) = Ticks(q, n) /\ Opened(p, n) = Opened(q, n) /\ Shut(p, n) = Shut(q, n)
         /\ Dangling(p, n) <=> Dangling(q, n)
<1>1. \A k \in 0 .. m : Ticks(p, k) = Ticks(q, k)
  <2>1. TAKE k \in 0 .. m
  <2>2. {i \in 1 .. k : p[i] = "quote"} = {i \in 1 .. k : q[i] = "quote"} OBVIOUS
  <2>3. QED BY <2>2 DEF Ticks
<1>2. \A i \in 1 .. n : Outside(p, i) <=> Outside(q, i)
  <2>1. TAKE i \in 1 .. n
  <2>2. i - 1 \in 0 .. m OBVIOUS
  <2>3. QED BY <1>1, <2>2 DEF Outside
<1>3. Opened(p, n) = Opened(q, n)
  <2>1. {i \in 1 .. n : p[i] = "for" /\ Outside(p, i)} = {i \in 1 .. n : q[i] = "for" /\ Outside(q, i)}
    BY <1>2
  <2>2. QED BY <2>1 DEF Opened
<1>4. Shut(p, n) = Shut(q, n)
  <2>1. {i \in 1 .. n : p[i] = "end" /\ Outside(p, i)} = {i \in 1 .. n : q[i] = "end" /\ Outside(q, i)}
    BY <1>2
  <2>2. QED BY <2>1 DEF Shut
<1>5. Dangling(p, n) <=> Dangling(q, n)
  <2>1. \A i \in 1 .. n : p[i] = q[i] /\ \A j \in i + 1 .. n : p[j] = q[j] OBVIOUS
  <2>2. QED BY <2>1 DEF Dangling
<1>6. QED BY <1>1, <1>3, <1>4, <1>5

\* The counts after the line n + 1.
LEMMA CountsNext ==
  ASSUME NEW p, NEW n \in Nat
  PROVE  LET t == p[n + 1]
             out == Ticks(p, n) % 2 = 0 IN
         /\ Outside(p, n + 1) <=> out
         /\ Ticks(p, n + 1) = IF t = "quote" THEN Ticks(p, n) + 1 ELSE Ticks(p, n)
         /\ Opened(p, n + 1) = IF t = "for" /\ out THEN Opened(p, n) + 1 ELSE Opened(p, n)
         /\ Shut(p, n + 1) = IF t = "end" /\ out THEN Shut(p, n) + 1 ELSE Shut(p, n)
         /\ Dangling(p, n + 1) <=> t = "operator" \/ (t \in Blank /\ Dangling(p, n))
<1> DEFINE t == p[n + 1]
           out == Ticks(p, n) % 2 = 0
<1>0. 1 .. n + 1 = (1 .. n) \cup {n + 1} /\ n + 1 \notin 1 .. n /\ (n + 1) - 1 = n OBVIOUS
<1>1. Outside(p, n + 1) <=> out BY <1>0 DEF Outside
<1>2. Ticks(p, n + 1) = IF t = "quote" THEN Ticks(p, n) + 1 ELSE Ticks(p, n)
  <2> DEFINE A == {i \in 1 .. n : p[i] = "quote"}
             B == {i \in 1 .. n + 1 : p[i] = "quote"}
  <2>1. A \subseteq 1 .. n /\ B = IF t = "quote" THEN A \cup {n + 1} ELSE A BY <1>0
  <2>2. n + 1 \notin A BY <1>0
  <2> HIDE DEF A, B
  <2>3. Cardinality(B) = IF t = "quote" THEN Cardinality(A) + 1 ELSE Cardinality(A)
    BY <2>1, <2>2, OneMoreCounted
  <2>4. QED BY <2>3 DEF Ticks, A, B
<1>3. Opened(p, n + 1) = IF t = "for" /\ out THEN Opened(p, n) + 1 ELSE Opened(p, n)
  <2> DEFINE A == {i \in 1 .. n : p[i] = "for" /\ Outside(p, i)}
             B == {i \in 1 .. n + 1 : p[i] = "for" /\ Outside(p, i)}
  <2>1. A \subseteq 1 .. n /\ B = IF t = "for" /\ out THEN A \cup {n + 1} ELSE A BY <1>0, <1>1
  <2>2. n + 1 \notin A BY <1>0
  <2> HIDE DEF A, B
  <2>3. Cardinality(B) = IF t = "for" /\ out THEN Cardinality(A) + 1 ELSE Cardinality(A)
    BY <2>1, <2>2, OneMoreCounted
  <2>4. QED BY <2>3 DEF Opened, A, B
<1>4. Shut(p, n + 1) = IF t = "end" /\ out THEN Shut(p, n) + 1 ELSE Shut(p, n)
  <2> DEFINE A == {i \in 1 .. n : p[i] = "end" /\ Outside(p, i)}
             B == {i \in 1 .. n + 1 : p[i] = "end" /\ Outside(p, i)}
  <2>1. A \subseteq 1 .. n /\ B = IF t = "end" /\ out THEN A \cup {n + 1} ELSE A BY <1>0, <1>1
  <2>2. n + 1 \notin A BY <1>0
  <2> HIDE DEF A, B
  <2>3. Cardinality(B) = IF t = "end" /\ out THEN Cardinality(A) + 1 ELSE Cardinality(A)
    BY <2>1, <2>2, OneMoreCounted
  <2>4. QED BY <2>3 DEF Shut, A, B
<1>5. Dangling(p, n + 1) <=> t = "operator" \/ (t \in Blank /\ Dangling(p, n))
  <2>1. ASSUME Dangling(p, n + 1) PROVE t = "operator" \/ (t \in Blank /\ Dangling(p, n))
    <3>1. PICK i \in 1 .. n + 1 : p[i] = "operator" /\ \A j \in i + 1 .. n + 1 : p[j] \in Blank
      BY <2>1 DEF Dangling
    <3>2. CASE i # n + 1
      <4>1. i \in 1 .. n /\ n + 1 \in i + 1 .. n + 1 /\ i + 1 .. n \subseteq i + 1 .. n + 1 BY <3>2
      <4>2. QED BY <3>1, <4>1 DEF Dangling
    <3>3. QED BY <3>1, <3>2
  <2>2. ASSUME t = "operator" PROVE Dangling(p, n + 1)
    <3>1. n + 1 \in 1 .. n + 1 /\ (n + 1) + 1 .. n + 1 = {} OBVIOUS
    <3>2. QED BY <2>2, <3>1 DEF Dangling
  <2>3. ASSUME t \in Blank, Dangling(p, n) PROVE Dangling(p, n + 1)
    <3>1. PICK i \in 1 .. n : p[i] = "operator" /\ \A j \in i + 1 .. n : p[j] \in Blank
      BY <2>3 DEF Dangling
    <3>2. i \in 1 .. n + 1 /\ i + 1 .. n + 1 \subseteq (i + 1 .. n) \cup {n + 1} OBVIOUS
    <3>3. \A j \in i + 1 .. n + 1 : p[j] \in Blank BY <2>3, <3>1, <3>2
    <3>4. QED BY <3>1, <3>2, <3>3 DEF Dangling
  <2>4. QED BY <2>1, <2>2, <2>3
<1>6. QED BY <1>1, <1>2, <1>3, <1>4, <1>5

LEMMA DeclaresNext ==
  ASSUME NEW lns \in Seq(Kinds), NEW t \in Kinds
  PROVE  LET n == Len(lns) IN
         Declares(Append(lns, t)) <=>
           \/ Declares(lns)
           \/ t \in {"type", "method"} /\ Ticks(lns, n) % 2 = 0 /\ Opened(lns, n) = Shut(lns, n)
<1> DEFINE n == Len(lns)
           p == Append(lns, t)
           At(q, i) == /\ q[i] \in {"type", "method"} /\ Outside(q, i)
                       /\ Opened(q, i - 1) = Shut(q, i - 1)
<1>1. n \in Nat /\ Len(p) = n + 1 /\ p[n + 1] = t /\ \A i \in 1 .. n : p[i] = lns[i] OBVIOUS
<1> HIDE DEF p, n
<1>2. ASSUME NEW i \in 1 .. n + 1
      PROVE  /\ i - 1 \in 0 .. n
             /\ Outside(p, i) <=> Outside(lns, i)
             /\ Opened(p, i - 1) = Opened(lns, i - 1) /\ Shut(p, i - 1) = Shut(lns, i - 1)
  <2>1. i - 1 \in 0 .. n BY <1>1
  <2>2. /\ Ticks(p, i - 1) = Ticks(lns, i - 1)
        /\ Opened(p, i - 1) = Opened(lns, i - 1) /\ Shut(p, i - 1) = Shut(lns, i - 1)
    BY <1>1, <2>1, SameBelow
  <2>3. QED BY <2>1, <2>2 DEF Outside
<1>3. \A i \in 1 .. n : i \in 1 .. n + 1 /\ p[i] = lns[i] BY <1>1
<1>4. \A i \in 1 .. n : At(p, i) <=> At(lns, i) BY <1>2, <1>3
<1>5. At(p, n + 1) <=> t \in {"type", "method"} /\ Ticks(lns, n) % 2 = 0 /\ Opened(lns, n) = Shut(lns, n)
  <2>1. n + 1 \in 1 .. n + 1 /\ (n + 1) - 1 = n BY <1>1
  <2>2. QED BY <1>1, <1>2, <2>1 DEF Outside
<1>6. 1 .. n + 1 = (1 .. n) \cup {n + 1} BY <1>1
<1>7. (\E i \in 1 .. n + 1 : At(p, i)) <=> (\E i \in 1 .. n : At(lns, i)) \/ At(p, n + 1)
  <2> HIDE DEF At
  <2>1. QED BY <1>4, <1>6
<1>8. Declares(p) <=> \E i \in 1 .. n + 1 : At(p, i) BY <1>1 DEF Declares
<1>9. Declares(lns) <=> \E i \in 1 .. n : At(lns, i) BY DEF Declares, n
<1>10. QED BY <1>5, <1>7, <1>8, <1>9 DEF p, n

\* What Go allows, it allows without its last line.
LEMMA AllowedNext ==
  ASSUME NEW lns \in Seq(Kinds), NEW t \in Kinds, Allowed(Append(lns, t))
  PROVE  LET n == Len(lns) IN
         /\ Allowed(lns)
         /\ Ticks(lns, n) % 2 = 0 =>
              /\ t # "error"
              /\ t \in {"for", "end", "type", "method"} => ~Dangling(lns, n)
              /\ t = "method" => Opened(lns, n) = Shut(lns, n)
              /\ t = "end" => Opened(lns, n) > Shut(lns, n)
<1> DEFINE n == Len(lns)
           p == Append(lns, t)
<1>1. n \in Nat /\ Len(p) = n + 1 /\ p[n + 1] = t /\ \A i \in 1 .. n : p[i] = lns[i] OBVIOUS
<1>0. Allowed(p) OBVIOUS
<1> HIDE DEF p, n
<1>2. ASSUME NEW i \in 1 .. n + 1
      PROVE  /\ Outside(p, i) <=> Outside(lns, i)
             /\ Opened(p, i - 1) = Opened(lns, i - 1) /\ Shut(p, i - 1) = Shut(lns, i - 1)
             /\ Dangling(p, i - 1) <=> Dangling(lns, i - 1)
  <2>1. i - 1 \in 0 .. n BY <1>1
  <2>2. /\ Ticks(p, i - 1) = Ticks(lns, i - 1) /\ (Dangling(p, i - 1) <=> Dangling(lns, i - 1))
        /\ Opened(p, i - 1) = Opened(lns, i - 1) /\ Shut(p, i - 1) = Shut(lns, i - 1)
    BY <1>1, <2>1, SameBelow
  <2>3. QED BY <2>2 DEF Outside
<1>3. \A i \in 1 .. n : i \in 1 .. n + 1 /\ p[i] = lns[i] BY <1>1
<1>4. Allowed(lns)
  <2>1. SUFFICES ASSUME NEW i \in 1 .. n, Outside(lns, i)
                 PROVE  /\ lns[i] # "error"
                        /\ lns[i] \in {"for", "end", "type", "method"} => ~Dangling(lns, i - 1)
                        /\ lns[i] = "method" => Opened(lns, i - 1) = Shut(lns, i - 1)
                        /\ lns[i] = "end" => Opened(lns, i - 1) > Shut(lns, i - 1)
    BY DEF Allowed, n
  <2>2. i \in 1 .. n + 1 /\ i \in 1 .. Len(p) /\ p[i] = lns[i] /\ Outside(p, i) BY <1>1, <1>2, <1>3, <2>1
  <2>3. QED BY <1>0, <1>2, <2>2 DEF Allowed
<1>5. ASSUME Ticks(lns, n) % 2 = 0
      PROVE  /\ t # "error"
             /\ t \in {"for", "end", "type", "method"} => ~Dangling(lns, n)
             /\ t = "method" => Opened(lns, n) = Shut(lns, n)
             /\ t = "end" => Opened(lns, n) > Shut(lns, n)
  <2>1. n + 1 \in 1 .. n + 1 /\ (n + 1) - 1 = n BY <1>1
  <2>2. Outside(p, n + 1) BY <1>2, <1>5, <2>1 DEF Outside
  <2>3. n + 1 \in 1 .. Len(p) BY <1>1
  <2>4. /\ p[n + 1] # "error"
        /\ p[n + 1] \in {"for", "end", "type", "method"} => ~Dangling(p, (n + 1) - 1)
        /\ p[n + 1] = "method" => Opened(p, (n + 1) - 1) = Shut(p, (n + 1) - 1)
        /\ p[n + 1] = "end" => Opened(p, (n + 1) - 1) > Shut(p, (n + 1) - 1)
    BY <1>0, <2>2, <2>3 DEF Allowed
  <2>5. QED BY <1>1, <1>2, <2>1, <2>4
<1>6. QED BY <1>4, <1>5 DEF n

-------------------------------------------------------------------------------
(* The parser and the scanner see what is open.                            *)
Agrees(lns) ==
  LET n == Len(lns)
      p == Parse(DropEmptyLine(lns))
      b == Braces(DropEmptyLine(lns))
  IN /\ p.errs = {} /\ ~p.over
     /\ p.raw <=> Ticks(lns, n) % 2 = 1
     /\ p.depth = Opened(lns, n) - Shut(lns, n)
     /\ p.operand <=> ~p.raw /\ Dangling(lns, n)
     /\ (p.decls # {}) <=> Declares(lns)
     /\ (b.raw <=> p.raw) /\ b.indent = p.depth

\* One line that is not empty, when it is allowed.
Moves(p, t, q) ==
  /\ q.errs = {} /\ ~q.over
  /\ q.raw <=> IF t = "quote" THEN ~p.raw ELSE p.raw
  /\ q.depth = IF ~p.raw /\ t = "for" THEN p.depth + 1
               ELSE IF ~p.raw /\ t = "end" THEN p.depth - 1 ELSE p.depth
  /\ q.operand <=> IF ~p.raw /\ t \notin Blank THEN t = "operator" ELSE p.operand
  /\ q.decls = IF ~p.raw /\ t \in {"type", "method"} /\ p.depth = 0 THEN p.decls \cup {t} ELSE p.decls
Expected(p, t) == /\ p.errs = {} /\ ~p.over /\ (~p.raw => ~Misplaced(p, t))
                  /\ ~p.raw /\ t = "end" => p.depth > 0

LEMMA LineParsed ==
  ASSUME NEW p \in ParserStates, NEW t \in Kinds, Expected(p, t)
  PROVE  Moves(p, t, ParseLine[t][p])
<1> DEFINE q == ParseLine[t][p]
<1> USE DEF Expected
<1>0. /\ p.line \in Nat /\ p.depth \in Nat /\ p.raw \in BOOLEAN
      /\ DOMAIN p = {"line", "depth", "raw", "operand", "over", "errs", "decls"}
  BY DEF ParserStates
<1>1. q = ParseLine[t][p] OBVIOUS
<1> HIDE DEF q
<1> SUFFICES Moves(p, t, q) BY <1>1
<1>2. CASE t \in Blank \/ (p.raw /\ t # "quote")
  <2>1. q = [p EXCEPT !.line = @ + 1] BY <1>2, <1>1 DEF ParseLine
  <2>2. t # "quote" /\ (t \notin {"type", "method", "for", "end"} \/ p.raw) BY <1>2 DEF Blank
  <2>3. QED BY <1>0, <1>2, <2>1, <2>2 DEF Moves
<1>3. CASE p.raw /\ t = "quote"
  <2>1. t \notin Blank BY <1>3 DEF Blank
  <2>2. q = [p EXCEPT !.line = @ + 1, !.raw = FALSE] BY <1>3, <2>1, <1>1 DEF ParseLine
  <2>3. QED BY <1>0, <1>3, <2>2 DEF Moves
<1>4. CASE ~p.raw /\ t \notin Blank
  <2>1. q = ParseToken(p, t) BY <1>4, <1>1 DEF ParseLine
  <2>2. ~Misplaced(p, t) BY <1>4
  <2>3. q.errs = {} BY <1>0, <2>1, <2>2 DEF ParseToken
  <2>4. ~q.over BY <1>0, <1>4, <2>1 DEF ParseToken
  <2>5. (q.raw <=> t = "quote") /\ (q.operand <=> t = "operator") BY <1>0, <2>1 DEF ParseToken
  <2>6. q.depth = Deeper(p, t) BY <1>0, <2>1 DEF ParseToken
  <2>7. q.depth = IF t = "for" THEN p.depth + 1 ELSE IF t = "end" THEN p.depth - 1 ELSE p.depth
    BY <1>0, <1>4, <2>6 DEF Deeper
  <2>8. q.decls = IF t \in {"type", "method"} /\ p.depth = 0 THEN p.decls \cup {t} ELSE p.decls
    BY <1>0, <2>1, <2>2 DEF ParseToken
  <2>9. QED BY <1>4, <2>3, <2>4, <2>5, <2>7, <2>8 DEF Moves
<1>5. QED BY <1>0, <1>2, <1>3, <1>4

LEMMA LineScanned ==
  ASSUME NEW b \in BraceStates, NEW t \in Kinds, NEW c, c = ScanLine[t][b],
         ~b.raw /\ t = "end" => b.indent > 0
  PROVE  /\ c.raw <=> IF t = "quote" THEN ~b.raw ELSE b.raw
         /\ c.indent = IF ~b.raw /\ t = "for" THEN b.indent + 1
                       ELSE IF ~b.raw /\ t = "end" THEN b.indent - 1 ELSE b.indent
<1>0. b.indent \in Nat /\ b.raw \in BOOLEAN /\ DOMAIN b = {"raw", "indent"} BY DEF BraceStates
<1>1. CASE t = "quote"
  <2>1. c = [b EXCEPT !.raw = (@ = FALSE)] BY <1>1 DEF ScanLine
  <2>2. QED BY <1>0, <1>1, <2>1
<1>2. CASE t # "quote" BY <1>0, <1>2 DEF ScanLine
<1>3. QED BY <1>1, <1>2

LEMMA AgreesNext ==
  ASSUME NEW lns \in Seq(Kinds), NEW t \in Kinds, Allowed(Append(lns, t)), Agrees(lns)
  PROVE  Agrees(Append(lns, t))
<1> DEFINE n == Len(lns)
           l == Append(lns, t)
           k == Ticks(lns, n)
           o == Opened(lns, n)
           s == Shut(lns, n)
           p == Parse(DropEmptyLine(lns))
           b == Braces(DropEmptyLine(lns))
           q == Parse(DropEmptyLine(l))
           c == Braces(DropEmptyLine(l))
<1>1. /\ n \in Nat /\ Len(l) = n + 1 /\ l[n + 1] = t /\ \A i \in 1 .. n : l[i] = lns[i]
      /\ n \in 0 .. n
  OBVIOUS
<1>2. k \in Nat /\ o \in Nat /\ s \in Nat BY <1>1, CountsTyped
<1>3. /\ p.errs = {} /\ ~p.over
      /\ p.raw <=> k % 2 = 1
      /\ p.depth = o - s
      /\ p.operand <=> ~p.raw /\ Dangling(lns, n)
      /\ (p.decls # {}) <=> Declares(lns)
      /\ (b.raw <=> p.raw) /\ b.indent = p.depth
  BY DEF Agrees
<1>4. p \in ParserStates /\ b \in BraceStates BY Typed
<1>5. /\ k % 2 = 0 => /\ t # "error"
                      /\ t \in {"for", "end", "type", "method"} => ~Dangling(lns, n)
                      /\ t = "method" => o = s
                      /\ t = "end" => o > s
  BY AllowedNext
<1>6. Declares(l) <=> Declares(lns) \/ (t \in {"type", "method"} /\ k % 2 = 0 /\ o = s)
  BY DeclaresNext
<1>7. /\ Ticks(l, n + 1) = IF t = "quote" THEN k + 1 ELSE k
      /\ Opened(l, n + 1) = IF t = "for" /\ k % 2 = 0 THEN o + 1 ELSE o
      /\ Shut(l, n + 1) = IF t = "end" /\ k % 2 = 0 THEN s + 1 ELSE s
      /\ Dangling(l, n + 1) <=> t = "operator" \/ (t \in Blank /\ Dangling(lns, n))
  <2> HIDE DEF l, n
  <2>1. /\ Ticks(l, n) = k /\ Opened(l, n) = o /\ Shut(l, n) = s
        /\ Dangling(l, n) <=> Dangling(lns, n)
    BY <1>1, SameBelow
  <2>2. /\ Ticks(l, n + 1) = IF l[n + 1] = "quote" THEN Ticks(l, n) + 1 ELSE Ticks(l, n)
        /\ Opened(l, n + 1) = IF l[n + 1] = "for" /\ Ticks(l, n) % 2 = 0 THEN Opened(l, n) + 1 ELSE Opened(l, n)
        /\ Shut(l, n + 1) = IF l[n + 1] = "end" /\ Ticks(l, n) % 2 = 0 THEN Shut(l, n) + 1 ELSE Shut(l, n)
        /\ Dangling(l, n + 1) <=> l[n + 1] = "operator" \/ (l[n + 1] \in Blank /\ Dangling(l, n))
    BY <1>1, CountsNext
  <2>3. QED BY <1>1, <2>1, <2>2
<1>8. CASE t = "empty"
  <2>1. q = p /\ c = b BY <1>8, OneMore
  <2>2. /\ Ticks(l, n + 1) = k /\ Opened(l, n + 1) = o /\ Shut(l, n + 1) = s
        /\ (Dangling(l, n + 1) <=> Dangling(lns, n)) /\ (Declares(l) <=> Declares(lns))
    BY <1>6, <1>7, <1>8 DEF Blank
  <2>3. QED BY <1>1, <1>3, <2>1, <2>2 DEF Agrees
<1>9. CASE t # "empty"
  <2>1. q = ParseLine[t][p] /\ c = ScanLine[t][b]
    <3>1. DropEmptyLine(lns) \in Seq(Kinds) BY Typed
    <3>2. DropEmptyLine(l) = Append(DropEmptyLine(lns), t) BY <1>9, OneMore
    <3>3. QED BY <3>1, <3>2, OneMore
  <2> HIDE DEF n, l, k, o, s, p, b, q, c
  <2>0. k % 2 \in {0, 1} /\ (k + 1) % 2 = 1 - (k % 2) BY <1>2
  <2>2. ~p.raw <=> k % 2 = 0 BY <1>3, <2>0
  <2>3. p.depth \in Nat /\ p.operand \in BOOLEAN /\ p.raw \in BOOLEAN /\ b.raw \in BOOLEAN BY <1>4 DEF ParserStates, BraceStates
  <2>4. ~p.raw => ~Misplaced(p, t) BY <1>2, <1>3, <1>5, <2>2 DEF Misplaced
  <2>5. ~p.raw /\ t = "end" => p.depth > 0 BY <1>2, <1>3, <1>5, <2>2
  <2>6. /\ q.errs = {} /\ ~q.over
        /\ q.raw <=> IF t = "quote" THEN ~p.raw ELSE p.raw
        /\ q.depth = IF ~p.raw /\ t = "for" THEN p.depth + 1
                     ELSE IF ~p.raw /\ t = "end" THEN p.depth - 1 ELSE p.depth
        /\ q.operand <=> IF ~p.raw /\ t \notin Blank THEN t = "operator" ELSE p.operand
        /\ q.decls = IF ~p.raw /\ t \in {"type", "method"} /\ p.depth = 0 THEN p.decls \cup {t} ELSE p.decls
    <3>1. Expected(p, t) BY <1>3, <2>4, <2>5 DEF Expected
    <3>2. Moves(p, t, q) BY <1>4, <2>1, <3>1, LineParsed
    <3>3. QED BY <3>2 DEF Moves
  <2>7. /\ c.raw <=> IF t = "quote" THEN ~b.raw ELSE b.raw
        /\ c.indent = IF ~b.raw /\ t = "for" THEN b.indent + 1
                      ELSE IF ~b.raw /\ t = "end" THEN b.indent - 1 ELSE b.indent
    BY <1>3, <1>4, <2>1, <2>5, LineScanned
  <2>8. q.raw <=> Ticks(l, n + 1) % 2 = 1 BY <1>2, <1>3, <2>0, <1>7, <2>6
  <2>9. q.depth = Opened(l, n + 1) - Shut(l, n + 1) BY <1>2, <1>3, <1>7, <2>2, <2>6
  <2>10. q.operand <=> ~q.raw /\ Dangling(l, n + 1)
    <3>1. CASE t \in Blank
      <4>1. t # "quote" /\ t # "operator" BY <3>1 DEF Blank
      <4>2. (q.operand <=> p.operand) /\ (q.raw <=> p.raw) /\ (Dangling(l, n + 1) <=> Dangling(lns, n))
        BY <1>7, <2>6, <3>1, <4>1
      <4>3. QED BY <1>3, <4>2 DEF n, p
    <3>2. CASE t \notin Blank
      <4>1. Dangling(l, n + 1) <=> t = "operator" BY <1>7, <3>2
      <4>2. CASE ~p.raw
        <5>1. q.operand <=> t = "operator" BY <2>6, <3>2, <4>2
        <5>2. t = "operator" => ~q.raw BY <2>6, <4>2
        <5>3. QED BY <4>1, <5>1, <5>2
      <4>3. CASE p.raw
        <5>1. ~p.operand /\ ~q.operand BY <1>3, <2>6, <4>3
        <5>2. t = "operator" => q.raw BY <2>6, <4>3
        <5>3. QED BY <4>1, <5>1, <5>2
      <4>4. QED BY <4>2, <4>3
    <3>3. QED BY <3>1, <3>2
  <2>11. (q.decls # {}) <=> Declares(l)
    <3>1. p.depth = 0 <=> o = s BY <1>2, <1>3
    <3>2. (p.decls # {}) <=> Declares(lns) BY <1>3
    <3>3. QED BY <1>6, <2>2, <2>6, <3>1, <3>2
  <2>12. (c.raw <=> q.raw) /\ c.indent = q.depth BY <1>3, <2>6, <2>7
  <2>13. QED BY <1>1, <2>6, <2>8, <2>9, <2>10, <2>11, <2>12 DEF Agrees, q, c, l
<1>10. QED BY <1>8, <1>9

LEMMA AlwaysAgrees ==
  ASSUME NEW lns \in Seq(Kinds), Allowed(lns)
  PROVE  Agrees(lns)
<1> DEFINE G == {n \in Nat : \A l \in Seq(Kinds) : Len(l) = n /\ Allowed(l) => Agrees(l)}
<1>1. 0 \in G
  <2>1. \A l \in Seq(Kinds) : Len(l) = 0 => l = <<>> OBVIOUS
  <2>2. Agrees(<<>>)
    <3>1. DropEmptyLine(<<>>) = <<>> /\ Parse(<<>>) = Begin /\ Braces(<<>>) = [raw |-> FALSE, indent |-> 0]
      BY ReadOfNone DEF DropEmptyLine, Parse, Braces
    <3>2. /\ Ticks(<<>>, 0) = 0 /\ Opened(<<>>, 0) = 0 /\ Shut(<<>>, 0) = 0
          /\ ~Dangling(<<>>, 0) /\ ~Declares(<<>>) /\ Len(<<>>) = 0
      BY FS_EmptySet DEF Ticks, Opened, Shut, Dangling, Declares
    <3>3. 0 % 2 = 0 OBVIOUS
    <3>4. QED BY <3>1, <3>2, <3>3 DEF Agrees, Begin
  <2>3. QED BY <2>1, <2>2
<1>2. ASSUME NEW n \in Nat, n \in G PROVE n + 1 \in G
  <2>1. SUFFICES ASSUME NEW l \in Seq(Kinds), Len(l) = n + 1, Allowed(l) PROVE Agrees(l)
    OBVIOUS
  <2>2. PICK a \in Seq(Kinds), t \in Kinds : l = Append(a, t) /\ Len(a) = n BY <2>1, LastOff
  <2>3. Allowed(a) BY <2>1, <2>2, AllowedNext
  <2>4. Agrees(a) BY <1>2, <2>2, <2>3
  <2>5. QED BY <2>1, <2>2, <2>4, AgreesNext
<1> HIDE DEF G
<1>3. Nat \subseteq G BY <1>1, <1>2, SetInduction
<1>4. Len(lns) \in G BY <1>3
<1>5. QED BY <1>4 DEF G

-------------------------------------------------------------------------------
(* What the liner decides.                                                 *)

\* No more is closed than was opened.
LEMMA NeverBelow ==
  ASSUME NEW lns \in Seq(Kinds), Allowed(lns)
  PROVE  Opened(lns, Len(lns)) >= Shut(lns, Len(lns))
<1>1. Parse(DropEmptyLine(lns)) \in ParserStates BY Typed
<1>2. Parse(DropEmptyLine(lns)).depth \in Nat BY <1>1 DEF ParserStates
<1>3. Opened(lns, Len(lns)) \in Nat /\ Shut(lns, Len(lns)) \in Nat BY CountsTyped
<1>4. QED BY <1>2, <1>3, AlwaysAgrees DEF Agrees

(* A list of lines that Go allows is continued while a string, a brace or  *)
(* an operator is open in it, and after a type or a method until a blank   *)
(* line; the prompt is indented as deep as braces are open                 *)
(* (cmd/lgo-internal/liner, continueLine).                                 *)
THEOREM ContinuesWhileOpen ==
  ASSUME NEW lns \in Seq(Kinds), lns # <<>>, Allowed(lns)
  PROVE  /\ ContinueLine(lns).cont <=> Waits(lns)
         /\ Waits(lns) => ContinueLine(lns).indent = Opened(lns, Len(lns)) - Shut(lns, Len(lns))
<1> DEFINE n == Len(lns)
           d == DropEmptyLine(lns)
           p == Parse(d)
           b == Braces(d)
           o == Opened(lns, n)
           s == Shut(lns, n)
           next == ContinueLine(lns)
<1>1. /\ p.errs = {} /\ ~p.over
      /\ p.raw <=> Ticks(lns, n) % 2 = 1
      /\ p.depth = o - s
      /\ p.operand <=> ~p.raw /\ Dangling(lns, n)
      /\ (p.decls # {}) <=> Declares(lns)
      /\ (b.raw <=> p.raw) /\ b.indent = p.depth
  BY AlwaysAgrees DEF Agrees
<1>2. o \in Nat /\ s \in Nat /\ o >= s BY CountsTyped, NeverBelow
<1>3. next = IF ~Errors(p) \/ ~IsUnexpectedEOF(p) THEN ContinueForMethods(p, lns)
             ELSE [cont |-> TRUE, indent |-> NextIndent(d)]
  BY DEF ContinueLine
<1>4. Open(lns) <=> Ticks(lns, n) % 2 = 1 \/ o > s \/ Dangling(lns, n) BY DEF Open
<1>5. Waits(lns) <=> Open(lns) \/ (Declares(lns) /\ lns[n] \notin Blank) BY DEF Waits
<1>6. NextIndent(d) = b.indent BY DEF NextIndent
<1>7. ContinueForMethods(p, lns) = [cont |-> p.decls # {} /\ lns[n] \notin Blank, indent |-> 0]
  BY DEF ContinueForMethods, HasTypeOrMethodDecl
<1> HIDE DEF n, d, p, b, o, s, next
<1>8. MissingAtEnd(p) <=> p.depth > 0 \/ p.operand BY <1>1 DEF MissingAtEnd
<1>9. (Errors(p) /\ IsUnexpectedEOF(p)) <=> Open(lns)
  <2>1. p.depth > 0 <=> o > s BY <1>1, <1>2
  <2>2. QED BY <1>1, <1>4, <1>8, <2>1 DEF Errors, IsUnexpectedEOF
<1>10. CASE Open(lns)
  <2>1. next = [cont |-> TRUE, indent |-> NextIndent(d)] BY <1>3, <1>9, <1>10
  <2>2. next.cont /\ next.indent = o - s BY <1>1, <1>6, <2>1
  <2>3. QED BY <1>5, <1>10, <2>2 DEF next, n, o, s
<1>11. CASE ~Open(lns)
  <2>1. next = [cont |-> p.decls # {} /\ lns[n] \notin Blank, indent |-> 0] BY <1>3, <1>7, <1>9, <1>11
  <2>2. o = s BY <1>2, <1>4, <1>11
  <2>3. (next.cont <=> p.decls # {} /\ lns[n] \notin Blank) /\ next.indent = 0 BY <2>1
  <2>4. next.cont <=> Waits(lns) BY <1>1, <1>5, <1>11, <2>3
  <2>5. next.indent = o - s BY <1>2, <2>2, <2>3
  <2>6. QED BY <2>4, <2>5 DEF next, n, o, s
<1>12. QED BY <1>10, <1>11

(* Where Next is: at the first line, or it did with the lines it has what  *)
(* continueLine says of them, or it ended with Ctrl-D.                     *)
LinerInv ==
  /\ lines \in Seq(Kinds)
  /\ \/ lines = <<>> /\ indent = 0 /\ returned = Nothing
     \/ returned \in {EOF, Content(<<>>)}
     \/ /\ lines # <<>>
        /\ indent = ContinueLine(lines).indent
        /\ returned = IF ContinueLine(lines).cont THEN Nothing ELSE Content(lines)

LEMMA LinerInvNext == LinerInv /\ [LinerNext]_linerVars => LinerInv'
<1> SUFFICES ASSUME LinerInv, [LinerNext]_linerVars PROVE LinerInv'
  OBVIOUS
<1>1. CASE UNCHANGED linerVars BY <1>1 DEF LinerInv, linerVars
<1>2. ASSUME NEW line \in Lines, PromptReturns(line) PROVE LinerInv'
  <2>1. line \in Kinds BY LinesAssumption
  <2>2. lines' = Append(lines, line) /\ lines \in Seq(Kinds) BY <1>2 DEF PromptReturns, LinerInv
  <2>3. lines' \in Seq(Kinds) /\ lines' # <<>> BY <2>1, <2>2
  <2>4. /\ indent' = ContinueLine(lines').indent
        /\ returned' = IF ContinueLine(lines').cont THEN Nothing ELSE Content(lines')
    BY <1>2 DEF PromptReturns
  <2>5. QED BY <2>3, <2>4 DEF LinerInv
<1>3. CASE CtrlD
  <2>1. lines' \in Seq(Kinds) /\ returned' \in {EOF, Content(<<>>)} BY <1>3 DEF CtrlD, LinerInv
  <2>2. QED BY <2>1 DEF LinerInv, EOF, Content
<1>4. QED BY <1>1, <1>2, <1>3 DEF LinerNext

(* The liner is in such a place after any lines.                           *)
THEOREM LinerInvariance == LinerSpec => []LinerInv
<1>1. LinerInit => LinerInv
  <2>1. <<>> \in Seq(Kinds) OBVIOUS
  <2>2. QED BY <2>1 DEF LinerInit, LinerInv
<1>2. QED BY <1>1, LinerInvNext, PTL DEF LinerSpec

LEMMA InvImpliesContinued == LinerInv => LinesContinued
<1> SUFFICES ASSUME LinerInv PROVE LinesContinued
  OBVIOUS
<1>1. lines \in Seq(Kinds) BY DEF LinerInv
<1>2. Nothing \notin {EOF, Content(<<>>)} BY DEF Nothing, EOF, Content
<1>3. EndsWhenComplete
  <2>1. SUFFICES ASSUME Allowed(lines), lines # <<>>, returned \notin {EOF, Content(<<>>)}
                 PROVE  returned = IF Waits(lines) THEN Nothing ELSE Content(lines)
    BY DEF EndsWhenComplete
  <2>2. returned = IF ContinueLine(lines).cont THEN Nothing ELSE Content(lines) BY <2>1 DEF LinerInv
  <2>3. ContinueLine(lines).cont <=> Waits(lines) BY <1>1, <2>1, ContinuesWhileOpen
  <2>4. QED BY <2>2, <2>3
<1>4. IndentMatches
  <2>1. SUFFICES ASSUME returned = Nothing, Allowed(lines)
                 PROVE  indent = Opened(lines, Len(lines)) - Shut(lines, Len(lines))
    BY DEF IndentMatches
  <2>2. CASE lines = <<>>
    <3>1. indent = 0
      <4>1. CASE lines = <<>> /\ indent = 0 BY <4>1
      <4>2. QED BY <1>2, <2>1, <2>2, <4>1 DEF LinerInv
    <3>2. Len(<<>>) = 0 /\ Opened(<<>>, 0) = 0 /\ Shut(<<>>, 0) = 0
      BY FS_EmptySet DEF Opened, Shut
    <3>3. QED BY <2>2, <3>1, <3>2
  <2>3. CASE lines # <<>>
    <3>1. /\ indent = ContinueLine(lines).indent
          /\ returned = IF ContinueLine(lines).cont THEN Nothing ELSE Content(lines)
      BY <1>2, <2>1, <2>3 DEF LinerInv
    <3>2. Nothing # Content(lines) BY DEF Nothing, Content
    <3>3. ContinueLine(lines).cont BY <2>1, <3>1, <3>2
    <3>4. QED BY <1>1, <2>1, <2>3, <3>1, <3>3, ContinuesWhileOpen
  <2>4. QED BY <2>2, <2>3
<1>5. QED BY <1>3, <1>4 DEF LinesContinued

(* A block ends with the line that completes it, after any lines whatever: *)
(* it is neither cut short nor does a finished one wait, and the prompt is *)
(* indented as deep as braces are open.                                    *)
THEOREM LinesAreContinued == LinerSpec => []LinesContinued
  BY LinerInvariance, InvImpliesContinued, PTL
===============================================================================
