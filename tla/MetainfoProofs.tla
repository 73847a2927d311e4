--------------------------- MODULE MetainfoProofs ----------------------------
(***************************************************************************)
(* Proofs about update_metainfo_xml.py, for every set of header files:    *)
(* its states are well typed, and a metainfo file it writes lists, in     *)
(* increasing order, exactly the ids of the supported devices             *)
(* (ModaliasListsSupported).                                               *)
(*                                                                         *)
(* The first part shows that IdsTo, the ids of a prefix of the header, is *)
(* a fixed point of its defining equation, and what FirstIvy is.  The     *)
(* second shows that sorted() is well defined: every list of numbers has  *)
(* a sorting permutation (by insertion of the last element), and reordering *)
(* a list by a permutation keeps its bag of elements.  The third is the   *)
(* loop invariant of the script's read loop.                               *)
(***************************************************************************)
EXTENDS MetainfoDevices, TLAPS, SequenceTheorems, FiniteSetTheorems

(***************************************************************************)
(* Part 1.  Least elements, header lines, FirstIvy and IdsTo.              *)
(***************************************************************************)

(* A non-empty set of naturals has a least element.                        *)
LEMMA LeastNat ==
  ASSUME NEW T \in SUBSET Nat, T # {}
  PROVE  \E x \in T : \A y \in T : x <= y
<1>1. \E x \in T : \A y \in T : ~(<<y, x>> \in OpToRel(<, Nat))
  BY NatLessThanWellFounded, WFMin
<1>2. \A x, y \in Nat : ~(<<y, x>> \in OpToRel(<, Nat)) => x <= y
  <2> SUFFICES ASSUME NEW x \in Nat, NEW y \in Nat, ~(x <= y)
               PROVE  <<y, x>> \in OpToRel(<, Nat)
    OBVIOUS
  <2>1. <<y, x>> \in Nat \X Nat /\ <<y, x>>[1] < <<y, x>>[2]
    OBVIOUS
  <2> QED  BY <2>1, Zenon DEF OpToRel
<1> QED  BY <1>1, <1>2

(* A header line that the regex of line 17 matches carries a family and a *)
(* numeric id.                                                             *)
LEMMA DefineLine ==
  ASSUME NEW l \in HLine, l.kind = "define"
  PROVE  l \in [kind : {"define"}, family : Families, id : Nat]
BY DEF HLine

(* FirstIvy is the position of the first IVYBRIDGE define, or one past    *)
(* the header when there is none.                                          *)
LEMMA FirstIvyFacts ==
  ASSUME NEW h \in Seq(HLine)
  PROVE  /\ FirstIvy(h) \in 1 .. Len(h) + 1
         /\ \A k \in 1 .. Len(h) :
              (h[k].kind = "define" /\ h[k].family = "IVYBRIDGE") => FirstIvy(h) <= k
         /\ FirstIvy(h) <= Len(h) =>
              h[FirstIvy(h)].kind = "define" /\ h[FirstIvy(h)].family = "IVYBRIDGE"
<1> DEFINE I == {k \in 1 .. Len(h) : h[k].kind = "define" /\ h[k].family = "IVYBRIDGE"}
<1>1. CASE I = {}
  <2>1. FirstIvy(h) = Len(h) + 1
    BY <1>1 DEF FirstIvy
  <2> QED  BY <1>1, <2>1
<1>2. CASE I # {}
  <2>0. I \in SUBSET Nat
    OBVIOUS
  <2>1. \E k \in I : \A j \in I : k <= j
    BY <1>2, <2>0, LeastNat
  <2>2. FirstIvy(h) = CHOOSE k \in I : \A j \in I : k <= j
    BY <1>2 DEF FirstIvy
  <2>3. FirstIvy(h) \in I /\ \A j \in I : FirstIvy(h) <= j
    BY <2>1, <2>2
  <2> QED  BY <2>3
<1> QED  BY <1>1, <1>2

(* The defining equation of IdsTo.                                         *)
IBody(h, D, m) == IF m = 0 THEN << >> ELSE D[m - 1] \o IdOf(h, m)

IGood(h, G, m) ==
  /\ DOMAIN G = 0 .. m
  /\ \A j \in 0 .. m : G[j] = IBody(h, G, j)

LEMMA IdsExist ==
  ASSUME NEW h \in Seq(HLine)
  PROVE  \E G : IGood(h, G, Len(h))
<1> DEFINE T == {m \in 0 .. Len(h) : ~ \E G : IGood(h, G, m)}
<1>0. Len(h) \in 0 .. Len(h) /\ T \in SUBSET Nat
  OBVIOUS
<1> SUFFICES T = {}
  BY <1>0, Zenon
<1>1. SUFFICES ASSUME T # {} PROVE FALSE
  OBVIOUS
<1>2. PICK m \in T : \A y \in T : m <= y
  BY <1>0, <1>1, LeastNat
<1>3. m # 0 /\ m \in 1 .. Len(h)
  <2>1. IGood(h, [j \in 0 .. 0 |-> << >>], 0)
    BY DEF IGood, IBody
  <2> QED  BY <2>1, <1>2
<1>4. PICK G : IGood(h, G, m - 1)
  <2>1. m - 1 \in 0 .. Len(h) /\ m - 1 < m
    BY <1>2, <1>3
  <2>2. m - 1 \notin T
    BY <1>2, <2>1
  <2> QED  BY <2>1, <2>2
<1> DEFINE G2 == [j \in 0 .. m |-> IF j < m THEN G[j] ELSE G[m - 1] \o IdOf(h, m)]
<1>5. IGood(h, G2, m)
  <2>1. DOMAIN G2 = 0 .. m
    OBVIOUS
  <2>2. ASSUME NEW j \in 0 .. m PROVE G2[j] = IBody(h, G2, j)
    <3>1. CASE j = 0
      BY <1>4, <3>1, <1>3 DEF IGood, IBody
    <3>2. CASE j # 0 /\ j < m
      <4>1. G2[j - 1] = G[j - 1] /\ G2[j] = G[j]
        BY <3>2, <1>3
      <4>2. G[j] = IBody(h, G, j)
        <5>1. j \in 0 .. m - 1
          BY <3>2, <1>3
        <5> QED  BY <5>1, <1>4 DEF IGood
      <4>3. G[j] = G[j - 1] \o IdOf(h, j)
        BY <4>2, <3>2 DEF IBody
      <4> QED  BY <3>2, <4>1, <4>3 DEF IBody
    <3>3. CASE j = m
      <4>1. G2[m - 1] = G[m - 1]
        BY <1>3
      <4>2. G2[m] = G[m - 1] \o IdOf(h, m)
        BY <1>3
      <4> QED  BY <1>3, <3>3, <4>1, <4>2 DEF IBody
    <3> QED  BY <3>1, <3>2, <3>3
  <2> QED  BY <2>1, <2>2 DEF IGood
<1> QED  BY <1>2, <1>5

(* IdsTo satisfies its defining equation: the ids of the first m lines    *)
(* are those of the first m - 1 followed by the id line m adds.           *)
LEMMA IdsFix ==
  ASSUME NEW h \in Seq(HLine)
  PROVE  /\ IdsTo(h)[0] = << >>
         /\ \A m \in 1 .. Len(h) : IdsTo(h)[m] = IdsTo(h)[m - 1] \o IdOf(h, m)
<1>1. PICK G : IGood(h, G, Len(h))
  BY IdsExist
<1>2. G = [m \in 0 .. Len(h) |-> IBody(h, G, m)]
  BY <1>1 DEF IGood
<1>3. \E D : D = [m \in 0 .. Len(h) |-> IBody(h, D, m)]
  BY <1>2
<1>4. IdsTo(h) = [m \in 0 .. Len(h) |-> IBody(h, IdsTo(h), m)]
  BY <1>3 DEF IdsTo, IBody
<1>5. IdsTo(h)[0] = << >>
  <2>1. 0 \in 0 .. Len(h)
    OBVIOUS
  <2> QED  BY <1>4, <2>1 DEF IBody
<1>6. ASSUME NEW m \in 1 .. Len(h)
      PROVE  IdsTo(h)[m] = IdsTo(h)[m - 1] \o IdOf(h, m)
  <2>1. m \in 0 .. Len(h) /\ m # 0
    OBVIOUS
  <2> QED  BY <1>4, <2>1 DEF IBody
<1> QED  BY <1>5, <1>6

(***************************************************************************)
(* Part 2.  sorted().  Every list of numbers has a permutation of its     *)
(* positions that orders it, so the CHOOSE of sorted picks one; and a      *)
(* list reordered by a permutation has the same bag of elements.           *)
(***************************************************************************)

(* The facts about a permutation of 1..n that the proofs use.              *)
LEMMA BijectionFacts ==
  ASSUME NEW n \in Nat, NEW p \in Bijection(1 .. n, 1 .. n)
  PROVE  /\ p \in [1 .. n -> 1 .. n]
         /\ \A a, b \in 1 .. n : p[a] = p[b] => a = b
         /\ \A w \in 1 .. n : \E v \in 1 .. n : p[v] = w
BY DEF Bijection, Injection, Surjection, IsInjective

(* s reordered by p is non-decreasing on its first m positions.           *)
OrderedBy(s, p, m) == \A i, j \in 1 .. m : i < j => s[p[i]] <= s[p[j]]

(* Position i of p comes at or after where s[n] is inserted.               *)
After(s, p, n, i) == i = n \/ s[p[i]] > s[n]

(* Insertion: a sorting permutation of the first n - 1 elements extends  *)
(* to one of the first n, with n put before the first element greater     *)
(* than s[n].                                                              *)
LEMMA InsertLast ==
  ASSUME NEW n \in Nat \ {0}, NEW s \in [1 .. n -> Nat],
         NEW p \in Bijection(1 .. n - 1, 1 .. n - 1), OrderedBy(s, p, n - 1)
  PROVE  \E q \in Bijection(1 .. n, 1 .. n) : OrderedBy(s, q, n)
<1>0. n - 1 \in Nat
  OBVIOUS
<1>c. p \in [1 .. n - 1 -> 1 .. n - 1]
  BY <1>0, BijectionFacts
<1>d. \A a, b \in 1 .. n - 1 : p[a] = p[b] => a = b
  BY <1>0, BijectionFacts
<1>e. \A w \in 1 .. n - 1 : \E v \in 1 .. n - 1 : p[v] = w
  BY <1>0, BijectionFacts
<1>a. \A i \in 1 .. n - 1 : p[i] \in 1 .. n /\ s[p[i]] \in Nat
  <2> SUFFICES ASSUME NEW i \in 1 .. n - 1 PROVE p[i] \in 1 .. n /\ s[p[i]] \in Nat
    OBVIOUS
  <2>1. p[i] \in 1 .. n - 1
    BY <1>c
  <2>2. p[i] \in 1 .. n
    BY <2>1
  <2> QED  BY <2>2
<1>b. s[n] \in Nat
  OBVIOUS
<1>1. PICK r \in 1 .. n : /\ After(s, p, n, r)
                          /\ \A i \in 1 .. n : After(s, p, n, i) => r <= i
  <2> DEFINE R == {i \in 1 .. n : After(s, p, n, i)}
  <2>1. R \in SUBSET Nat /\ n \in R
    BY DEF After
  <2>2. PICK r \in R : \A i \in R : r <= i
    BY <2>1, LeastNat
  <2> QED  BY <2>2
<1>3. \A i \in 1 .. n - 1 : i < r => s[p[i]] <= s[n]
  <2> SUFFICES ASSUME NEW i \in 1 .. n - 1, i < r PROVE s[p[i]] <= s[n]
    OBVIOUS
  <2>1. ~After(s, p, n, i)
    BY <1>1
  <2> QED  BY <2>1, <1>a, <1>b DEF After
<1>4. \A i \in 1 .. n - 1 : r <= i => s[n] < s[p[i]]
  <2> SUFFICES ASSUME NEW i \in 1 .. n - 1, r <= i PROVE s[n] < s[p[i]]
    OBVIOUS
  <2>1. r \in 1 .. n - 1 /\ r # n
    OBVIOUS
  <2>2. s[p[r]] > s[n]
    BY <1>1, <2>1 DEF After
  <2>3. s[p[r]] <= s[p[i]]
    <3>1. CASE r = i
      BY <3>1, <2>1, <1>a
    <3>2. CASE r < i
      BY <3>2, <2>1 DEF OrderedBy
    <3> QED  BY <3>1, <3>2
  <2> QED  BY <2>1, <2>2, <2>3, <1>a, <1>b
<1> DEFINE q == [i \in 1 .. n |-> IF i < r THEN p[i] ELSE IF i = r THEN n ELSE p[i - 1]]
<1> DEFINE ix(a) == IF a < r THEN a ELSE a - 1
<1>f. \A a \in 1 .. n : a # r => ix(a) \in 1 .. n - 1 /\ q[a] = p[ix(a)]
  BY <1>1
<1>g. q[r] = n
  BY <1>1
<1>5. q \in [1 .. n -> 1 .. n]
  <2> SUFFICES ASSUME NEW a \in 1 .. n PROVE q[a] \in 1 .. n
    OBVIOUS
  <2>1. CASE a = r
    BY <2>1, <1>g
  <2>2. CASE a # r
    <3>1. ix(a) \in 1 .. n - 1 /\ q[a] = p[ix(a)]
      BY <2>2, <1>f
    <3>2. p[ix(a)] \in 1 .. n
      BY <3>1, <1>a
    <3> QED  BY <3>1, <3>2
  <2> QED  BY <2>1, <2>2
<1>6. \A a, b \in 1 .. n : q[a] = q[b] => a = b
  <2> SUFFICES ASSUME NEW a \in 1 .. n, NEW b \in 1 .. n, q[a] = q[b], a # b
               PROVE  FALSE
    OBVIOUS
  <2>1. CASE a = r
    <3>1. ix(b) \in 1 .. n - 1 /\ q[b] = p[ix(b)]
      BY <2>1, <1>f
    <3>2. p[ix(b)] \in 1 .. n - 1
      BY <3>1, <1>c
    <3> QED  BY <3>1, <3>2, <2>1, <1>g
  <2>2. CASE b = r
    <3>1. ix(a) \in 1 .. n - 1 /\ q[a] = p[ix(a)]
      BY <2>2, <1>f
    <3>2. p[ix(a)] \in 1 .. n - 1
      BY <3>1, <1>c
    <3> QED  BY <3>1, <3>2, <2>2, <1>g
  <2>3. CASE a # r /\ b # r
    <3>1. ix(a) \in 1 .. n - 1 /\ q[a] = p[ix(a)] /\ ix(b) \in 1 .. n - 1 /\ q[b] = p[ix(b)]
      BY <2>3, <1>f
    <3>2. ix(a) = ix(b)
      BY <3>1, <1>d
    <3> QED  BY <3>2, <2>3, <1>1
  <2> QED  BY <2>1, <2>2, <2>3
<1>7. \A w \in 1 .. n : \E v \in 1 .. n : q[v] = w
  <2> SUFFICES ASSUME NEW w \in 1 .. n PROVE \E v \in 1 .. n : q[v] = w
    OBVIOUS
  <2>1. CASE w = n
    BY <2>1, <1>1
  <2>2. CASE w # n
    <3>0. w \in 1 .. n - 1
      BY <2>2
    <3>1. PICK v \in 1 .. n - 1 : p[v] = w
      BY <1>e, <3>0
    <3>2. CASE v < r
      <4>1. v \in 1 .. n /\ v # r /\ ix(v) = v
        BY <3>2
      <4> QED  BY <4>1, <1>f, <3>1
    <3>3. CASE ~(v < r)
      <4>1. v + 1 \in 1 .. n /\ ~(v + 1 < r) /\ v + 1 # r /\ (v + 1) - 1 = v
        BY <3>3
      <4>2. q[v + 1] = w
        BY <4>1, <3>1, <1>f
      <4> QED  BY <4>1, <4>2
    <3> QED  BY <3>2, <3>3
  <2> QED  BY <2>1, <2>2
<1>8. q \in Bijection(1 .. n, 1 .. n)
  BY <1>5, <1>6, <1>7 DEF Bijection, Injection, Surjection, IsInjective
<1>9. OrderedBy(s, q, n)
  <2> SUFFICES ASSUME NEW i \in 1 .. n, NEW j \in 1 .. n, i < j
               PROVE  s[q[i]] <= s[q[j]]
    BY DEF OrderedBy
  <2>1. CASE j < r
    <3>1. i \in 1 .. n - 1 /\ j \in 1 .. n - 1 /\ q[i] = p[i] /\ q[j] = p[j]
      BY <2>1
    <3> QED  BY <3>1 DEF OrderedBy
  <2>2. CASE i < r /\ j = r
    <3>1. i \in 1 .. n - 1 /\ q[i] = p[i] /\ q[j] = n
      BY <2>2, <1>1
    <3>2. s[p[i]] <= s[n]
      BY <3>1, <2>2, <1>3
    <3> QED  BY <3>1, <3>2
  <2>3. CASE i < r /\ j > r
    <3>1. i \in 1 .. n - 1 /\ j - 1 \in 1 .. n - 1 /\ i < j - 1
      BY <2>3
    <3>2. q[i] = p[i] /\ q[j] = p[j - 1]
      BY <2>3
    <3> QED  BY <3>1, <3>2 DEF OrderedBy
  <2>4. CASE i = r
    <3>1. j - 1 \in 1 .. n - 1 /\ r <= j - 1
      BY <2>4
    <3>2. q[i] = n /\ q[j] = p[j - 1]
      BY <2>4
    <3>3. s[n] < s[p[j - 1]]
      BY <3>1, <1>4
    <3> QED  BY <3>2, <3>3, <3>1, <1>a, <1>b
  <2>5. CASE i > r
    <3>1. i - 1 \in 1 .. n - 1 /\ j - 1 \in 1 .. n - 1 /\ i - 1 < j - 1
      BY <2>5
    <3>2. q[i] = p[i - 1] /\ q[j] = p[j - 1]
      BY <2>5
    <3> QED  BY <3>1, <3>2 DEF OrderedBy
  <2> QED  BY <2>1, <2>2, <2>3, <2>4, <2>5
<1> QED  BY <1>8, <1>9

(* Every list of n numbers has a sorting permutation: by insertion, on    *)
(* the least length that would have none.                                  *)
LEMMA SortExists ==
  ASSUME NEW n \in Nat, NEW s \in [1 .. n -> Nat]
  PROVE  \E p \in Bijection(1 .. n, 1 .. n) : OrderedBy(s, p, n)
<1> DEFINE Sortable(m, t) == \E p \in Bijection(1 .. m, 1 .. m) : OrderedBy(t, p, m)
           T == {m \in Nat : \E t \in [1 .. m -> Nat] : ~Sortable(m, t)}
<1> SUFFICES T = {}
  BY Zenon
<1>1. SUFFICES ASSUME T # {} PROVE FALSE
  OBVIOUS
<1>2. PICK m \in T : \A y \in T : m <= y
  BY <1>1, LeastNat
<1>3. PICK t \in [1 .. m -> Nat] : ~Sortable(m, t)
  BY <1>2
<1>4. m # 0
  <2>1. [i \in 1 .. 0 |-> 1] \in Bijection(1 .. 0, 1 .. 0)
    BY DEF Bijection, Injection, Surjection, IsInjective
  <2>2. OrderedBy(t, [i \in 1 .. 0 |-> 1], 0)
    BY DEF OrderedBy
  <2> QED  BY <2>1, <2>2, <1>3
<1> DEFINE t1 == [i \in 1 .. m - 1 |-> t[i]]
<1>5. m - 1 \in Nat /\ m \in Nat \ {0} /\ t1 \in [1 .. m - 1 -> Nat]
  BY <1>4
<1>6. Sortable(m - 1, t1)
  <2>0. ~(m <= m - 1)
    BY <1>5
  <2>1. m - 1 \notin T
    BY <1>2, <2>0, Zenon
  <2> QED  BY <2>1, <1>5
<1>7. PICK p \in Bijection(1 .. m - 1, 1 .. m - 1) : OrderedBy(t1, p, m - 1)
  BY <1>6
<1>8. OrderedBy(t, p, m - 1)
  <2> SUFFICES ASSUME NEW i \in 1 .. m - 1, NEW j \in 1 .. m - 1, i < j
               PROVE  t[p[i]] <= t[p[j]]
    BY DEF OrderedBy
  <2>1. p \in [1 .. m - 1 -> 1 .. m - 1]
    BY <1>5, BijectionFacts
  <2>2. p[i] \in 1 .. m - 1 /\ p[j] \in 1 .. m - 1
    BY <2>1
  <2>3. t1[p[i]] = t[p[i]] /\ t1[p[j]] = t[p[j]]
    BY <2>2
  <2>4. t1[p[i]] <= t1[p[j]]
    BY <1>7 DEF OrderedBy
  <2> QED  BY <2>3, <2>4
<1> QED  BY <1>3, <1>5, <1>7, <1>8, InsertLast

(* A list reordered by a permutation of its positions has the same        *)
(* elements, each as many times (ToBag).                                   *)
LEMMA PermBag ==
  ASSUME NEW n \in Nat, NEW S, NEW s \in [1 .. n -> S],
         NEW p \in Bijection(1 .. n, 1 .. n)
  PROVE  ToBag([i \in 1 .. n |-> s[p[i]]]) = ToBag(s)
<1> DEFINE t == [i \in 1 .. n |-> s[p[i]]]
<1>a. p \in [1 .. n -> 1 .. n]
  BY BijectionFacts
<1>b. \A a, b \in 1 .. n : p[a] = p[b] => a = b
  BY BijectionFacts
<1>c. \A w \in 1 .. n : \E v \in 1 .. n : p[v] = w
  BY BijectionFacts
<1>1. Range(t) = Range(s)
  <2>1. ASSUME NEW i \in 1 .. n PROVE t[i] \in Range(s)
    <3>1. p[i] \in 1 .. n
      BY <1>a
    <3> QED  BY <3>1 DEF Range
  <2>2. ASSUME NEW j \in 1 .. n PROVE s[j] \in Range(t)
    <3>1. PICK v \in 1 .. n : p[v] = j
      BY <1>c
    <3> QED  BY <3>1 DEF Range
  <2> QED  BY <2>1, <2>2 DEF Range
<1>2. ASSUME NEW x
      PROVE  Cardinality({i \in 1 .. n : t[i] = x}) = Cardinality({j \in 1 .. n : s[j] = x})
  <2> DEFINE A == {i \in 1 .. n : s[p[i]] = x}
             B == {j \in 1 .. n : s[j] = x}
             f == [i \in A |-> p[i]]
  <2>1. {i \in 1 .. n : t[i] = x} = A
    OBVIOUS
  <2>2. f \in [A -> B]
    BY <1>a
  <2>3. \A a, b \in A : f[a] = f[b] => a = b
    BY <1>b
  <2>4. \A j \in B : \E v \in A : f[v] = j
    <3> SUFFICES ASSUME NEW j \in B PROVE \E v \in A : f[v] = j
      OBVIOUS
    <3>1. PICK v \in 1 .. n : p[v] = j
      BY <1>c
    <3>2. v \in A
      BY <3>1
    <3> QED  BY <3>1, <3>2
  <2>5. ExistsBijection(A, B)
    BY <2>2, <2>3, <2>4, Zenon DEF ExistsBijection, Bijection, Injection, Surjection, IsInjective
  <2>6. IsFiniteSet(A)
    BY FS_Interval, FS_Subset
  <2> QED  BY <2>1, <2>5, <2>6, FS_Bijection
<1> QED  BY <1>1, <1>2 DEF ToBag

(* sorted() of a list of numbers is a list of numbers, in increasing      *)
(* order, with the same elements as many times.                            *)
LEMMA SortedFacts ==
  ASSUME NEW s \in Seq(Nat)
  PROVE  /\ sorted(s) \in Seq(Nat)
         /\ \A i, j \in DOMAIN sorted(s) : i < j => sorted(s)[i] <= sorted(s)[j]
         /\ ToBag(sorted(s)) = ToBag(s)
<1> DEFINE n == Len(s)
           p == CHOOSE p \in Bijection(1 .. n, 1 .. n) : OrdersSeq(s, p)
<1>1. n \in Nat /\ s \in [1 .. n -> Nat]
  OBVIOUS
<1>2. \E q \in Bijection(1 .. n, 1 .. n) : OrdersSeq(s, q)
  <2>1. \E q \in Bijection(1 .. n, 1 .. n) : OrderedBy(s, q, n)
    BY <1>1, SortExists
  <2> QED  BY <2>1 DEF OrdersSeq, OrderedBy
<1>3. p \in Bijection(1 .. n, 1 .. n) /\ OrdersSeq(s, p)
  BY <1>2
<1>4. sorted(s) = [i \in 1 .. n |-> s[p[i]]]
  BY DEF sorted
<1>5. p \in [1 .. n -> 1 .. n]
  BY <1>1, <1>3, BijectionFacts
<1>6. sorted(s) \in Seq(Nat)
  <2>1. [i \in 1 .. n |-> s[p[i]]] \in [1 .. n -> Nat]
    BY <1>1, <1>5
  <2> QED  BY <2>1, <1>1, <1>4
<1>7. \A i, j \in DOMAIN sorted(s) : i < j => sorted(s)[i] <= sorted(s)[j]
  BY <1>3, <1>4 DEF OrdersSeq
<1>8. ToBag(sorted(s)) = ToBag(s)
  BY <1>1, <1>3, <1>4, PermBag
<1> QED  BY <1>6, <1>7, <1>8

(***************************************************************************)
(* Part 3.  The read loop.  While it runs, device_ids holds the ids of the *)
(* lines read so far, and supported says whether the first IVYBRIDGE      *)
(* define is among them; once the header is read it holds SupportedIds,   *)
(* and the file is written with that list sorted.  The output file holds  *)
(* a modalias list only once WriteOut has run.                             *)
(***************************************************************************)
IInv ==
  /\ TypeOK
  /\ pc = "loop" => /\ device_ids = IdsTo(src)[line - 1]
                    /\ supported <=> FirstIvy(src) < line
  /\ pc \in {"write", "done"} => /\ line = Len(src) + 1
                                 /\ device_ids = SupportedIds(src)
  /\ pc = "done" => out = Written(sorted(device_ids))
  /\ pc # "done" => out \in {Absent, Prior, Truncated}

(* The script starts with no line read and nothing supported.              *)
LEMMA InitIInv == Init => IInv
<1> SUFFICES ASSUME Init PROVE IInv
  OBVIOUS
<1>1. src \in Seq(HLine)
  BY MetainfoAssumption DEF Init
<1>2. IdsTo(src)[0] = << >>
  BY <1>1, IdsFix
<1>3. FirstIvy(src) \in 1 .. Len(src) + 1
  BY <1>1, FirstIvyFacts
<1>4. TypeOK
  <2>1. line \in 1 .. Len(src) + 1
    BY <1>1 DEF Init
  <2>2. device_ids \in Seq(Nat)
    BY DEF Init
  <2>3. out \in {Absent, Prior, Truncated}
    BY DEF Init
  <2> QED  BY <2>1, <2>2, <2>3 DEF Init, TypeOK
<1> QED  BY <1>2, <1>3, <1>4 DEF Init, IInv, Absent, Prior, Truncated

(* A line read in the loop: the ids and the flag stay those of the lines  *)
(* read so far.                                                             *)
LEMMA LoopStep ==
  ASSUME IInv, pc = "loop", NEW k \in 1 .. Len(src), line = k, src \in Seq(HLine)
  PROVE  /\ IdsTo(src)[k] = IdsTo(src)[k - 1] \o IdOf(src, k)
         /\ IdsTo(src)[k - 1] = device_ids
         /\ device_ids \in Seq(Nat)
         /\ (FirstIvy(src) <= k) <=>
              (supported \/ (src[k].kind = "define" /\ src[k].family = "IVYBRIDGE"))
<1>1. IdsTo(src)[k] = IdsTo(src)[k - 1] \o IdOf(src, k)
  BY IdsFix
<1>2. FirstIvy(src) \in 1 .. Len(src) + 1
  BY FirstIvyFacts
<1>3. (src[k].kind = "define" /\ src[k].family = "IVYBRIDGE") => FirstIvy(src) <= k
  BY FirstIvyFacts
<1>4. FirstIvy(src) = k => src[k].kind = "define" /\ src[k].family = "IVYBRIDGE"
  BY FirstIvyFacts
<1>5. supported <=> FirstIvy(src) < k
  BY DEF IInv
<1> QED  BY <1>1, <1>2, <1>3, <1>4, <1>5 DEF IInv, TypeOK

(* Every step of the script keeps the invariant.                           *)
LEMMA NextIInv == IInv /\ [Next]_vars => IInv'
<1> SUFFICES ASSUME IInv, [Next]_vars PROVE IInv'
  OBVIOUS
<1>0. src \in Seq(HLine) /\ src \in HeaderFiles
  BY MetainfoAssumption DEF IInv, TypeOK
<1>1. CASE SkipLine
  <2> DEFINE k == line
  <2>1. k \in 1 .. Len(src) /\ src[k].kind = "other" /\ pc = "loop"
    BY <1>1 DEF SkipLine, IInv, TypeOK
  <2>2. /\ IdsTo(src)[k] = IdsTo(src)[k - 1] \o IdOf(src, k)
        /\ IdsTo(src)[k - 1] = device_ids
        /\ device_ids \in Seq(Nat)
        /\ (FirstIvy(src) <= k) <=> supported
    BY <2>1, <1>0, LoopStep
  <2>3. IdOf(src, k) = << >>
    BY <2>1 DEF IdOf
  <2>4. IdsTo(src)[k] = device_ids
    BY <2>2, <2>3, ConcatEmptySeq
  <2>5. line' - 1 = k /\ line' \in 1 .. Len(src) + 1
    BY <2>1, <1>1 DEF SkipLine
  <2>6. FirstIvy(src) \in Int
    BY <1>0, FirstIvyFacts
  <2> QED  BY <1>1, <2>1, <2>2, <2>4, <2>5, <2>6 DEF SkipLine, IInv, TypeOK
<1>2. CASE DeviceLine
  <2> DEFINE k == line
             sup == supported \/ src[k].family = "IVYBRIDGE"
  <2>1. k \in 1 .. Len(src) /\ src[k].kind = "define" /\ pc = "loop"
    BY <1>2 DEF DeviceLine, IInv, TypeOK
  <2>2. /\ IdsTo(src)[k] = IdsTo(src)[k - 1] \o IdOf(src, k)
        /\ IdsTo(src)[k - 1] = device_ids
        /\ device_ids \in Seq(Nat)
        /\ (FirstIvy(src) <= k) <=> sup
    BY <2>1, <1>0, LoopStep
  <2>3. src[k].id \in Nat
    BY <2>1, <1>0, DefineLine
  <2>4. device_ids' = IdsTo(src)[k] /\ device_ids' \in Seq(Nat)
    <3>1. CASE sup
      <4>1. IdOf(src, k) = << src[k].id >>
        BY <3>1, <2>1, <2>2 DEF IdOf
      <4>2. device_ids' = Append(device_ids, src[k].id)
        BY <3>1, <1>2 DEF DeviceLine
      <4>3. Append(device_ids, src[k].id) = device_ids \o << src[k].id >>
        BY <2>2, <2>3, AppendIsConcat
      <4>4. Append(device_ids, src[k].id) \in Seq(Nat)
        BY <2>2, <2>3, AppendProperties
      <4> QED  BY <2>2, <4>1, <4>2, <4>3, <4>4
    <3>2. CASE ~sup
      <4>1. IdOf(src, k) = << >>
        <5>1. ~(k >= FirstIvy(src))
          BY <3>2, <2>2
        <5> QED  BY <5>1 DEF IdOf
      <4>2. device_ids' = device_ids
        BY <3>2, <1>2 DEF DeviceLine
      <4> QED  BY <2>2, <4>1, <4>2, ConcatEmptySeq
    <3> QED  BY <3>1, <3>2
  <2>5. supported' = sup
    BY <1>2 DEF DeviceLine
  <2>6. line' - 1 = k /\ line' \in 1 .. Len(src) + 1
    BY <2>1, <1>2 DEF DeviceLine
  <2>7. FirstIvy(src) \in Int
    BY <1>0, FirstIvyFacts
  <2>8. (supported' <=> FirstIvy(src) < line')
    <3>1. FirstIvy(src) < line' <=> FirstIvy(src) <= k
      BY <2>6, <2>7
    <3> QED  BY <3>1, <2>2, <2>5, Zenon
  <2>9. TypeOK'
    BY <1>2, <2>4, <2>6 DEF DeviceLine, IInv, TypeOK
  <2> QED  BY <1>2, <2>1, <2>4, <2>6, <2>8, <2>9 DEF DeviceLine, IInv
<1>3. CASE OpenOut
  <2>1. device_ids = IdsTo(src)[Len(src)]
    BY <1>3 DEF OpenOut, IInv
  <2> QED  BY <1>3, <2>1 DEF OpenOut, IInv, TypeOK, SupportedIds, Truncated
<1>4. CASE WriteOut
  <2>1. device_ids \in Seq(Nat)
    BY DEF IInv, TypeOK
  <2>2. sorted(device_ids) \in Seq(Nat)
    BY <2>1, SortedFacts
  <2> QED  BY <1>4, <2>2 DEF WriteOut, IInv, TypeOK, Written
<1>5. CASE Kill
  BY <1>5 DEF Kill, IInv, TypeOK
<1>6. CASE UNCHANGED vars
  BY <1>6 DEF vars, IInv, TypeOK
<1> QED  BY <1>1, <1>2, <1>3, <1>4, <1>5, <1>6 DEF Next

LEMMA IInvInvariant == Spec => []IInv
BY InitIInv, NextIInv, PTL DEF Spec

(***************************************************************************)
(* Part 4.  The theorems.                                                  *)
(***************************************************************************)

(* Every state of the script is well typed: the header is one of the      *)
(* files, the line index stays within it plus one, and the ids and the    *)
(* output file have their types.                                           *)
THEOREM TypeCorrect == Spec => []TypeOK
<1>1. IInv => TypeOK
  BY DEF IInv
<1> QED  BY <1>1, IInvInvariant, PTL

(* Whenever the metainfo file holds a modalias list, the list is in        *)
(* increasing order and holds exactly the ids of the defines from the      *)
(* first IVYBRIDGE one to the end of the header: the supported flag of     *)
(* lines 15-23 is sticky, and sorted() at line 25 reorders the ids without *)
(* losing or adding any.                                                    *)
THEOREM ModaliasCorrect == Spec => []ModaliasListsSupported
<1>1. IInv => ModaliasListsSupported
  <2> SUFFICES ASSUME IInv, out \in [modalias : Seq(Nat)]
               PROVE  /\ \A i, j \in DOMAIN out.modalias :
                            i < j => out.modalias[i] <= out.modalias[j]
                      /\ ToBag(out.modalias) = ToBag(SupportedIds(src))
    BY DEF ModaliasListsSupported
  <2>1. out \notin {Absent, Prior, Truncated}
    <3>1. DOMAIN out = {"modalias"}
      OBVIOUS
    <3>2. /\ DOMAIN Absent = {"absent"}
          /\ DOMAIN Prior = {"prior"}
          /\ DOMAIN Truncated = {"truncated"}
      BY DEF Absent, Prior, Truncated
    <3> QED  BY <3>1, <3>2
  <2>2. pc = "done"
    BY <2>1 DEF IInv
  <2>3. out.modalias = sorted(device_ids) /\ device_ids = SupportedIds(src)
    BY <2>2 DEF IInv, Written
  <2>4. device_ids \in Seq(Nat)
    BY DEF IInv, TypeOK
  <2> QED  BY <2>3, <2>4, SortedFacts
<1> QED  BY <1>1, IInvInvariant, PTL

=============================================================================
