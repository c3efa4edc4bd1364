----------------------------- MODULE TextLemmas -----------------------------
(***************************************************************************)
(* Lemmas about naturals, sequences and the lines of a text, for the       *)
(* proofs about the scanner, Diagnose and the fallback indenter.           *)
(***************************************************************************)
EXTENDS Reindent, FiniteSetTheorems, SequenceTheorems, WellFoundedInduction,
        TLAPS

\* s is a sequence, of whatever it is a sequence of.
IsSeq(s) == s \in Seq({s[p] : p \in DOMAIN s})

----------------------------------------------------------------------------
(* Numbers and sequences.                                                  *)

\* A set of naturals that is not empty has a least element.
LEMMA Least ==
    ASSUME NEW S, S \subseteq Nat, S # {}
    PROVE  \E m \in S : \A l \in S : m <= l
<1>1. IsWellFoundedOn(OpToRel(<, Nat), Nat)
  BY NatLessThanWellFounded
<1>2. PICK x \in S : \A y \in S : ~ (<<y, x>> \in OpToRel(<, Nat))
  BY <1>1, WFMin
<1>3. ASSUME NEW y \in S PROVE x <= y
  <2>1. x \in Nat /\ y \in Nat
    BY <1>2
  <2>2. ~(y < x)
    BY <1>2, <2>1 DEF OpToRel
  <2> QED
    BY <2>1, <2>2
<1> QED
  BY <1>2, <1>3

\* Every sequence is one.
LEMMA SeqIs ==
    ASSUME NEW S, NEW s \in Seq(S)
    PROVE  IsSeq(s)
<1>1. DOMAIN s = 1 .. Len(s) /\ Len(s) \in Nat /\ s \in [1 .. Len(s) -> S]
  BY LenProperties
<1>2. s \in [1 .. Len(s) -> {s[p] : p \in DOMAIN s}]
  BY <1>1
<1> QED
  BY <1>1, <1>2, SeqDef DEF IsSeq

\* What IsSeq says.
LEMMA SeqFacts ==
    ASSUME NEW s, IsSeq(s)
    PROVE  Len(s) \in Nat /\ DOMAIN s = 1 .. Len(s)
<1> DEFINE S == {s[p] : p \in DOMAIN s}
<1>1. s \in Seq(S)
  BY DEF IsSeq
<1> HIDE DEF S
<1> QED
  BY <1>1, LenProperties

\* The empty sequence is one.
LEMMA EmptyIs == IsSeq(<<>>)
<1>1. <<>> \in Seq({})
  OBVIOUS
<1> QED
  BY <1>1, SeqIs

\* So is a function on an interval from 1.
LEMMA FunctionIs ==
    ASSUME NEW size \in Int, NEW f, f = [p \in 1 .. size |-> f[p]]
    PROVE  IsSeq(f) /\ DOMAIN f = 1 .. size
<1> DEFINE S == {f[p] : p \in 1 .. size}
<1>1. DOMAIN f = 1 .. size
  OBVIOUS
<1>2. f \in [1 .. size -> S]
  OBVIOUS
<1>3. CASE size >= 0
  <2>1. f \in Seq(S)
    BY <1>2, <1>3, SeqDef
  <2> QED
    BY <1>1, <2>1, SeqIs
<1>4. CASE size < 0
  <2>1. 1 .. size = 1 .. 0
    BY <1>4
  <2>2. f \in [1 .. 0 -> S]
    BY <1>2, <2>1
  <2>3. f \in Seq(S)
    BY <2>2, SeqDef
  <2> QED
    BY <1>1, <2>3, SeqIs
<1> QED
  BY <1>3, <1>4

\* Two texts one behind the other: each element is an element of one of them.
LEMMA ConcatIs ==
    ASSUME NEW s, NEW t, IsSeq(s), IsSeq(t)
    PROVE  /\ IsSeq(s \o t)
           /\ \A p \in DOMAIN (s \o t) : \/ \E q \in DOMAIN s : (s \o t)[p] = s[q]
                                         \/ \E q \in DOMAIN t : (s \o t)[p] = t[q]
<1> DEFINE S == {s[p] : p \in DOMAIN s}
           T == {t[p] : p \in DOMAIN t}
           U == S \cup T
<1>1. s \in Seq(S) /\ t \in Seq(T)
  BY DEF IsSeq
<1>2. \A x \in S : \E q \in DOMAIN s : x = s[q]
  OBVIOUS
<1>3. \A x \in T : \E q \in DOMAIN t : x = t[q]
  OBVIOUS
<1> HIDE DEF S, T
<1>4. s \in Seq(U) /\ t \in Seq(U)
  BY <1>1, SeqMonotonic
<1> DEFINE u == s \o t
<1>5. u \in Seq(U)
  BY <1>4
<1> HIDE DEF u
<1>6. IsSeq(u)
  BY <1>5, SeqIs
<1>7. \A p \in DOMAIN u : u[p] \in S \/ u[p] \in T
  BY <1>5
<1> QED
  BY <1>2, <1>3, <1>6, <1>7 DEF u

\* f goes through step from first: a recursive function over 0 .. n is what it
\* says, if every step gives an element of S.
FoldsTo(f, n, first, step) ==
    f = [q \in 0 .. n |-> IF q = 0 THEN first ELSE step[q][f[q - 1]]]

LEMMA FoldExists ==
    ASSUME NEW S, NEW n \in Nat, NEW first \in S, NEW step,
           \A q \in 1 .. n : \A v \in S : step[q][v] \in S
    PROVE  \E f : FoldsTo(f, n, first, step) /\ f \in [0 .. n -> S]
<1> DEFINE IsFold(f, m) == FoldsTo(f, m, first, step) /\ f \in [0 .. m -> S]
           bad == {m \in Nat : m <= n /\ ~ \E f : IsFold(f, m)}
<1> SUFFICES ASSUME bad # {} PROVE FALSE
  OBVIOUS
<1>1. PICK m \in bad : \A l \in bad : m <= l
  <2>1. bad \subseteq Nat
    OBVIOUS
  <2> HIDE DEF bad
  <2> QED
    BY <2>1, Least
<1>2. m \in Nat /\ m <= n
  BY <1>1
<1>3. m # 0
  <2> DEFINE f == [q \in {0} |-> first]
  <2>1. 0 .. 0 = {0}
    OBVIOUS
  <2>2. f = [q \in 0 .. 0 |-> IF q = 0 THEN first ELSE step[q][f[q - 1]]]
    BY <2>1
  <2>3. f \in [0 .. 0 -> S]
    BY <2>1
  <2> HIDE DEF f
  <2>4. IsFold(f, 0)
    BY <2>2, <2>3 DEF FoldsTo
  <2> QED
    BY <1>1, <2>4
<1> DEFINE l == m - 1
<1>4. l \in Nat /\ l < m /\ l <= n /\ l + 1 = m
  BY <1>2, <1>3
<1> HIDE DEF l
<1>5. PICK f : IsFold(f, l)
  <2>1. l \notin bad
    <3> HIDE DEF bad
    <3> QED
      BY <1>1, <1>2, <1>4
  <2> QED
    BY <1>4, <2>1
<1>6. f \in [0 .. l -> S] /\ \A q \in 0 .. l : f[q] = IF q = 0 THEN first ELSE step[q][f[q - 1]]
  BY <1>5 DEF FoldsTo
<1> DEFINE g == [q \in 0 .. m |-> IF q = m THEN step[m][f[l]] ELSE f[q]]
<1>7. step[m][f[l]] \in S
  BY <1>2, <1>3, <1>4, <1>6
<1>8. g \in [0 .. m -> S]
  BY <1>2, <1>4, <1>6, <1>7
<1>9. ASSUME NEW q \in 0 .. m
      PROVE  g[q] = IF q = 0 THEN first ELSE step[q][g[q - 1]]
  <2>1. CASE q = m
    <3>1. l \in 0 .. m /\ l # m /\ q # 0 /\ q - 1 = l
      BY <1>2, <1>3, <1>4, <2>1
    <3>2. g[l] = f[l]
      BY <3>1
    <3> QED
      BY <2>1, <3>1, <3>2
  <2>2. CASE q = 0
    BY <1>3, <1>4, <1>6, <2>2
  <2>3. CASE q # m /\ q # 0
    <3>1. q \in 0 .. l /\ q - 1 \in 0 .. m /\ q - 1 # m
      BY <1>2, <1>4, <2>3
    <3>2. g[q] = f[q] /\ g[q - 1] = f[q - 1]
      BY <2>3, <3>1
    <3> QED
      BY <1>6, <2>3, <3>1, <3>2
  <2> QED
    BY <2>1, <2>2, <2>3
<1>10. g = [q \in 0 .. m |-> g[q]]
  OBVIOUS
<1> HIDE DEF g
<1>11. g = [q \in 0 .. m |-> IF q = 0 THEN first ELSE step[q][g[q - 1]]]
  BY <1>9, <1>10
<1>12. IsFold(g, m)
  BY <1>8, <1>11 DEF FoldsTo
<1> QED
  BY <1>1, <1>12
\* Sequences put together are put together one by one: the recursive function in
\* FlattenSeq is what it says.
LEMMA FlattenParts ==
    ASSUME NEW seqs, Len(seqs) \in Nat \ {0}
    PROVE  \E h : /\ FlattenSeq(seqs) = h[Len(seqs)]
                  /\ \A i \in 1 .. Len(seqs) :
                        h[i] = IF i = 1 THEN seqs[i] ELSE h[i - 1] \o seqs[i]
<1> DEFINE size == Len(seqs)
           IsFlat(f, n) == f = [i \in 1 .. n |-> IF i = 1 THEN seqs[i] ELSE f[i - 1] \o seqs[i]]
<1>a. size \in Nat /\ size # 0
  OBVIOUS
<1> DEFINE bad == {n \in Nat : n > 0 /\ ~ \E f : IsFlat(f, n)}
<1>1. bad = {}
  <2> SUFFICES ASSUME bad # {} PROVE FALSE
    OBVIOUS
  <2>1. PICK n \in bad : \A l \in bad : n <= l
    <3>1. bad \subseteq Nat
      OBVIOUS
    <3> HIDE DEF bad
    <3> QED
      BY <3>1, Least
  <2>2. n # 1
    <3>1. IsFlat([i \in {1} |-> seqs[1]], 1)
      <4>1. 1 .. 1 = {1}
        OBVIOUS
      <4> QED
        BY <4>1
    <3> QED
      BY <2>1, <3>1
  <2>3. n \in Nat /\ n > 0
    BY <2>1
  <2> DEFINE m == n - 1
  <2> HIDE DEF m
  <2>a. m \in Nat /\ m > 0 /\ m < n /\ m = n - 1
    BY <2>2, <2>3 DEF m
  <2>b. m \notin bad
    <3> HIDE DEF bad
    <3> QED
      BY <2>1, <2>3, <2>a
  <2>4. PICK f : IsFlat(f, n - 1)
    BY <2>a, <2>b
  <2> DEFINE g == [i \in 1 .. n |-> IF i = n THEN f[n - 1] \o seqs[n] ELSE f[i]]
  <2>5. \A i \in 1 .. n - 1 : f[i] = IF i = 1 THEN seqs[i] ELSE f[i - 1] \o seqs[i]
    BY <2>4
  <2>6. ASSUME NEW i \in 1 .. n
        PROVE  g[i] = IF i = 1 THEN seqs[i] ELSE g[i - 1] \o seqs[i]
    <3>1. CASE i = n
      <4>1. n - 1 \in 1 .. n /\ n - 1 # n /\ i # 1
        BY <2>2, <2>3, <2>a, <3>1
      <4>2. g[n - 1] = f[n - 1]
        BY <4>1
      <4> QED
        BY <3>1, <4>1, <4>2
    <3>2. CASE i = 1
      BY <2>2, <2>3, <2>5, <3>2
    <3>3. CASE i # n /\ i # 1
      <4>1. i \in 1 .. n - 1 /\ i - 1 \in 1 .. n /\ i - 1 # n
        BY <2>3, <3>3
      <4>2. g[i] = f[i] /\ g[i - 1] = f[i - 1]
        BY <3>3, <4>1
      <4> QED
        BY <2>5, <3>3, <4>1, <4>2
    <3> QED
      BY <3>1, <3>2, <3>3
  <2>7. g = [i \in 1 .. n |-> g[i]]
    OBVIOUS
  <2> HIDE DEF g
  <2>8. IsFlat(g, n)
    BY <2>6, <2>7
  <2> QED
    BY <2>1, <2>8
<1> DEFINE h == CHOOSE f : IsFlat(f, size)
<1>2. FlattenSeq(seqs) = h[size]
  BY <1>a DEF FlattenSeq
<1>3. IsFlat(h, size)
  <2>a. size > 0
    <3> HIDE DEF size
    <3> QED
      BY <1>a, <1>a
  <2>b. size \notin bad
    BY <1>1
  <2>1. size > 0 /\ size \notin bad
    BY <2>a, <2>b
  <2>2. \E f : IsFlat(f, size)
    BY <1>a, <2>1
  <2> QED
    BY <2>2
<1> HIDE DEF h
<1>4. \A i \in 1 .. size : h[i] = IF i = 1 THEN seqs[i] ELSE h[i - 1] \o seqs[i]
  BY <1>3
<1> QED
  BY <1>2, <1>4

\* All elements of all of them, for texts put together.
LEMMA FlattenIs ==
    ASSUME NEW seqs, NEW S, seqs \in Seq(Seq(S))
    PROVE  FlattenSeq(seqs) \in Seq(S)
<1> DEFINE size == Len(seqs)
<1>1. size \in Nat /\ \A i \in 1 .. size : seqs[i] \in Seq(S)
  OBVIOUS
<1>2. CASE size = 0
  <2>1. seqs = <<>> /\ <<>> \in Seq(S)
    BY <1>2
  <2>2. FlattenSeq(seqs) = seqs
    BY <1>2 DEF FlattenSeq
  <2>3. FlattenSeq(seqs) = <<>>
    BY <2>1, <2>2
  <2> QED
    BY <2>1, <2>3
<1>3. CASE size # 0
  <2>1. PICK h : /\ FlattenSeq(seqs) = h[size]
                 /\ \A i \in 1 .. size : h[i] = IF i = 1 THEN seqs[i] ELSE h[i - 1] \o seqs[i]
    BY <1>1, <1>3, FlattenParts
  <2> DEFINE wrong == {i \in 1 .. size : h[i] \notin Seq(S)}
  <2>2. wrong = {}
    <3> SUFFICES ASSUME wrong # {} PROVE FALSE
      OBVIOUS
    <3>1. PICK i \in wrong : \A l \in wrong : i <= l
      <4>1. wrong \subseteq Nat
        BY <1>1
      <4> HIDE DEF wrong
      <4> QED
        BY <4>1, Least
    <3>2. i \in 1 .. size /\ i \in Nat /\ seqs[i] \in Seq(S)
      BY <1>1, <3>1
    <3>3. CASE i = 1
      BY <2>1, <3>1, <3>2, <3>3
    <3>4. CASE i # 1
      <4>1. i - 1 \in 1 .. size /\ i - 1 < i /\ i - 1 \in Int
        BY <1>1, <3>2, <3>4
      <4>2. h[i - 1] \in Seq(S)
        BY <3>1, <3>2, <4>1
      <4>3. h[i - 1] \o seqs[i] \in Seq(S)
        BY <3>2, <4>2
      <4> QED
        BY <2>1, <3>1, <3>2, <3>4, <4>3
    <3> QED
      BY <3>3, <3>4
  <2>3. size \in 1 .. size
    BY <1>1, <1>3
  <2> QED
    BY <2>1, <2>2, <2>3
<1> QED
  BY <1>2, <1>3

\* One element more.
LEMMA AppendIs ==
    ASSUME NEW s, NEW e, IsSeq(s)
    PROVE  /\ IsSeq(Append(s, e))
           /\ \A p \in DOMAIN Append(s, e) : \/ p \in DOMAIN s /\ Append(s, e)[p] = s[p]
                                             \/ Append(s, e)[p] = e
<1> DEFINE S == {s[p] : p \in DOMAIN s}
           T == S \cup {e}
<1>1. s \in Seq(S)
  BY DEF IsSeq
<1> HIDE DEF S
<1>2. s \in Seq(T)
  BY <1>1, SeqMonotonic
<1>3. e \in T
  OBVIOUS
<1> HIDE DEF T
<1>4. /\ Append(s, e) \in Seq(T) /\ Len(Append(s, e)) = Len(s) + 1
      /\ \A p \in 1 .. Len(s) : Append(s, e)[p] = s[p]
      /\ Append(s, e)[Len(s) + 1] = e
  BY <1>2, <1>3, AppendProperties
<1>5. Len(s) \in Nat /\ DOMAIN s = 1 .. Len(s) /\ DOMAIN Append(s, e) = 1 .. Len(s) + 1
  BY <1>2, <1>4
<1>6. IsSeq(Append(s, e))
  BY <1>4, SeqIs
<1>7. \A p \in 1 .. Len(s) + 1 : p \in 1 .. Len(s) \/ p = Len(s) + 1
  BY <1>5
<1> QED
  BY <1>4, <1>5, <1>6, <1>7
----------------------------------------------------------------------------
(* Lines.                                                                  *)

\* A finite set of naturals has a greatest element, and Max and Min find it
\* and the least.
LEMMA MaxType ==
    ASSUME NEW S, S \subseteq Nat, IsFiniteSet(S), S # {}
    PROVE  Max(S) \in S /\ \A y \in S : Max(S) >= y
<1> SUFFICES \E x \in S : \A y \in S : x >= y
  BY DEF Max
<1>1. \E n \in Nat : \A y \in S : y <= n
  <2> DEFINE Bounded(T) == \E n \in Nat : \A y \in T : y <= n
             sizes == {Cardinality(T) : T \in {U \in SUBSET S : ~Bounded(U)}}
  <2> SUFFICES ASSUME ~Bounded(S) PROVE FALSE
    OBVIOUS
  <2>1. \A T \in SUBSET S : IsFiniteSet(T) /\ Cardinality(T) \in Nat
    BY FS_Subset, FS_CardinalityType
  <2>2. sizes \subseteq Nat /\ sizes # {}
    BY <2>1
  <2> HIDE DEF Bounded
  <2>3. PICK c \in sizes : \A l \in sizes : c <= l
    <3> HIDE DEF sizes
    <3> QED
      BY <2>2, Least
  <2>4. PICK T \in SUBSET S : ~Bounded(T) /\ c = Cardinality(T)
    BY <2>3
  <2>5. T # {}
    BY <2>4 DEF Bounded
  <2>6. PICK t \in T : TRUE
    BY <2>5
  <2>7. T \ {t} \in SUBSET S /\ Cardinality(T \ {t}) = c - 1 /\ c \in Nat
    BY <2>1, <2>4, <2>6, FS_RemoveElement
  <2>8. Bounded(T \ {t})
    <3>1. ~Bounded(T \ {t}) => c - 1 \in sizes
      BY <2>7
    <3> HIDE DEF sizes
    <3> QED
      BY <2>3, <2>7, <3>1
  <2>9. PICK n \in Nat : \A y \in T \ {t} : y <= n
    BY <2>8 DEF Bounded
  <2>10. t \in Nat
    BY <2>4, <2>6
  <2>11. \E k \in Nat : \A y \in T : y <= k
    <3>1. T \subseteq Nat
      BY <2>4
    <3>2. CASE t <= n
      BY <2>9, <2>10, <3>2
    <3>3. CASE ~(t <= n)
      <4>1. \A y \in T : y <= t
        BY <2>9, <2>10, <3>1, <3>3
      <4> QED
        BY <2>10, <4>1
    <3> QED
      BY <3>2, <3>3
  <2> QED
    BY <2>4, <2>11 DEF Bounded
<1>2. PICK n \in Nat : \A y \in S : y <= n
  BY <1>1
<1> DEFINE gaps == {n - y : y \in S}
<1>3. gaps \subseteq Nat /\ gaps # {}
  <2>1. \A y \in S : y \in Nat /\ y <= n
    BY <1>2
  <2>2. \A y \in Nat : y <= n => n - y \in Nat
    BY <1>2
  <2> QED
    BY <2>1, <2>2
<1>4. PICK g \in gaps : \A l \in gaps : g <= l
  <2> HIDE DEF gaps
  <2> QED
    BY <1>3, Least
<1>5. PICK x \in S : g = n - x
  BY <1>4
<1>6. ASSUME NEW y \in S PROVE x >= y
  <2>1. n - y \in gaps /\ x \in Nat /\ y \in Nat
    BY <1>5
  <2>2. n - x <= n - y
    BY <1>4, <1>5, <2>1
  <2> QED
    BY <1>2, <2>1, <2>2
<1> QED
  BY <1>5, <1>6

LEMMA MinType ==
    ASSUME NEW S, S \subseteq Nat, S # {}
    PROVE  Min(S) \in S /\ \A y \in S : Min(S) <= y
<1>1. \E x \in S : \A y \in S : x <= y
  BY Least
<1> QED
  BY <1>1 DEF Min

\* For each k below its size, a set of naturals has an element that k others
\* are less than.
LEMMA NthExists ==
    ASSUME NEW S, S \subseteq Nat, IsFiniteSet(S), NEW k \in Nat, k < Cardinality(S)
    PROVE  \E p \in S : Cardinality({q \in S : q < p}) = k
<1> DEFINE Before(p) == {q \in S : q < p}
           Found(n) == \E p \in S : Cardinality(Before(p)) = n
           bad == {n \in Nat : n < Cardinality(S) /\ ~Found(n)}
<1>1. Cardinality(S) \in Nat
  BY FS_CardinalityType
<1> SUFFICES ASSUME bad # {} PROVE FALSE
  OBVIOUS
<1>2. PICK n \in bad : \A l \in bad : n <= l
  <2>1. bad \subseteq Nat
    OBVIOUS
  <2> HIDE DEF bad
  <2> QED
    BY <2>1, Least
<1>3. n \in Nat /\ n < Cardinality(S) /\ ~Found(n)
  BY <1>2
<1>4. S # {}
  BY <1>1, <1>3, FS_EmptySet
<1>5. CASE n = 0
  <2>1. PICK p \in S : \A y \in S : p <= y
    BY <1>4, Least
  <2>2. Before(p) = {}
    <3> SUFFICES ASSUME NEW q \in S, q < p PROVE FALSE
      OBVIOUS
    <3>1. p <= q /\ p \in Nat /\ q \in Nat
      BY <2>1
    <3> QED
      BY <3>1
  <2>3. Cardinality(Before(p)) = 0
    BY <2>2, FS_EmptySet
  <2> QED
    BY <1>3, <1>5, <2>3
<1>6. CASE n # 0
  <2>1. n - 1 \in Nat /\ n - 1 < n /\ n - 1 < Cardinality(S)
    BY <1>1, <1>3, <1>6
  <2>2. n - 1 \notin bad
    <3> HIDE DEF bad
    <3> QED
      BY <1>2, <1>3, <2>1
  <2>3. PICK p \in S : Cardinality(Before(p)) = n - 1
    BY <2>1, <2>2
  <2> DEFINE upTo == Before(p) \cup {p}
             above == {q \in S : q > p}
  <2>4. IsFiniteSet(Before(p)) /\ p \notin Before(p)
    BY FS_Subset
  <2>5. Cardinality(upTo) = n
    <3> DEFINE B == Before(p)
    <3>1. IsFiniteSet(B) /\ p \notin B /\ Cardinality(B) = n - 1
      BY <2>3, <2>4
    <3> HIDE DEF B
    <3>2. Cardinality(B \cup {p}) = Cardinality(B) + 1
      BY <3>1, FS_AddElement
    <3> QED
      BY <1>3, <3>1, <3>2 DEF B
  <2>6. above # {}
    <3>1. ASSUME above = {} PROVE upTo = S
      <4>1. ASSUME NEW q \in S PROVE q \in upTo
        <5>1. ~(q > p) /\ q \in Nat /\ p \in Nat
          BY <2>3, <3>1
        <5>2. q < p \/ q = p
          BY <5>1
        <5> QED
          BY <5>2
      <4> QED
        BY <2>3, <4>1
    <3>2. upTo # S
      <4> HIDE DEF upTo
      <4> QED
        BY <1>1, <1>3, <2>5
    <3> QED
      BY <3>1, <3>2
  <2>7. PICK r \in above : \A y \in above : r <= y
    <3>1. above \subseteq Nat
      OBVIOUS
    <3> HIDE DEF above
    <3> QED
      BY <2>6, <3>1, Least
  <2>8. Before(r) = upTo
    <3>1. r \in S /\ r > p /\ r \in Nat /\ p \in Nat
      BY <2>3, <2>7
    <3>2. ASSUME NEW q \in S PROVE q < r <=> (q < p \/ q = p)
      <4>1. q > p => r <= q
        BY <2>7
      <4>2. q \in Nat
        OBVIOUS
      <4> QED
        BY <3>1, <4>1, <4>2
    <3> QED
      BY <2>3, <3>2
  <2> QED
    BY <1>3, <2>5, <2>7, <2>8
<1> QED
  BY <1>5, <1>6

\* No two elements have as many others below them.
LEMMA NthUnique ==
    ASSUME NEW S, S \subseteq Nat, IsFiniteSet(S), NEW p \in S, NEW q \in S,
           Cardinality({r \in S : r < p}) = Cardinality({r \in S : r < q})
    PROVE  p = q
<1> DEFINE Before(x) == {r \in S : r < x}
<1>1. ASSUME NEW x \in S, NEW y \in S, x < y
      PROVE  Cardinality(Before(x)) < Cardinality(Before(y))
  <2>1. IsFiniteSet(Before(x)) /\ IsFiniteSet(Before(y)) /\ x \notin Before(x)
    BY FS_Subset
  <2>2. \A r \in S : r < x => r < y
    BY <1>1
  <2>3. Before(x) \cup {x} \subseteq Before(y)
    BY <1>1, <2>2
  <2> DEFINE A == Before(x)
             B == Before(y)
  <2> HIDE DEF A, B
  <2>4. /\ IsFiniteSet(A \cup {x}) /\ Cardinality(A \cup {x}) = Cardinality(A) + 1
        /\ Cardinality(A) \in Nat /\ Cardinality(B) \in Nat
    BY <2>1, FS_AddElement, FS_CardinalityType DEF A, B
  <2>5. Cardinality(A \cup {x}) <= Cardinality(B)
    BY <2>1, <2>3, FS_Subset DEF A, B
  <2>6. Cardinality(A) < Cardinality(B)
    BY <2>4, <2>5
  <2> QED
    BY <2>6 DEF A, B
<1>2. Cardinality(Before(p)) = Cardinality(Before(q)) /\ Cardinality(Before(p)) \in Nat
  BY FS_Subset, FS_CardinalityType
<1> HIDE DEF Before
<1>3. ~(p < q) /\ ~(q < p)
  BY <1>1, <1>2
<1> QED
  BY <1>3

\* Where the lines of a text end, and the line that ends there.
Ends_(cells) == {p \in DOMAIN cells : cells[p][2] = "\n"} \cup {Len(cells) + 1}
Before(cells, e) == {q \in Ends_(cells) : q < e}
LineTo(cells, e) == SubSeq(cells, 1 + Max({0} \cup Before(cells, e)), e - 1)

\* They are finitely many positions, the last one behind the text.
LEMMA EndsAre ==
    ASSUME NEW S, NEW cells \in Seq(S)
    PROVE  /\ Len(cells) \in Nat
           /\ Ends_(cells) \subseteq 1 .. Len(cells) + 1
           /\ Ends_(cells) \subseteq Nat /\ IsFiniteSet(Ends_(cells))
           /\ Cardinality(Ends_(cells)) \in Nat \ {0}
           /\ Len(cells) + 1 \in Ends_(cells)
<1>1. Len(cells) \in Nat /\ DOMAIN cells = 1 .. Len(cells)
  OBVIOUS
<1>2. Ends_(cells) \subseteq 1 .. Len(cells) + 1 /\ Len(cells) + 1 \in Ends_(cells)
  BY <1>1 DEF Ends_
<1>3. IsFiniteSet(1 .. Len(cells) + 1)
  BY <1>1, FS_Interval
<1>4. IsFiniteSet(Ends_(cells))
  BY <1>2, <1>3, FS_Subset
<1>5. Cardinality(Ends_(cells)) \in Nat /\ Cardinality(Ends_(cells)) # 0
  BY <1>2, <1>4, FS_CardinalityType, FS_EmptySet
<1> QED
  BY <1>1, <1>2, <1>4, <1>5

\* The line to an end begins behind the end before it.
LEMMA LineStart ==
    ASSUME NEW S, NEW cells \in Seq(S), NEW e \in Ends_(cells)
    PROVE  LET x == Max({0} \cup Before(cells, e))
           IN  /\ x \in Nat /\ x < e /\ x \in {0} \cup Ends_(cells)
               /\ \A q \in Ends_(cells) : q < e => q <= x
<1> DEFINE starts == {0} \cup Before(cells, e)
           x == Max(starts)
<1>1. e \in Nat /\ e > 0 /\ Ends_(cells) \subseteq Nat /\ IsFiniteSet(Ends_(cells))
  BY EndsAre
<1>2. starts \subseteq Nat /\ IsFiniteSet(starts) /\ starts # {}
  <2> DEFINE B == Before(cells, e)
  <2>1. B \subseteq Ends_(cells)
    BY DEF Before
  <2>2. IsFiniteSet(B) /\ B \subseteq Nat
    BY <1>1, <2>1, FS_Subset
  <2>3. starts = B \cup {0}
    OBVIOUS
  <2> HIDE DEF B, starts
  <2>4. IsFiniteSet(B \cup {0})
    BY <2>2, FS_AddElement
  <2> QED
    BY <2>2, <2>3, <2>4
<1>3. x \in starts /\ \A y \in starts : x >= y
  <2> HIDE DEF starts
  <2> QED
    BY <1>2, MaxType
<1>4. \A q \in Ends_(cells) : q < e => q \in starts
  BY DEF Before
<1>5. x \in Nat /\ x < e /\ x \in {0} \cup Ends_(cells)
  BY <1>1, <1>2, <1>3 DEF Before
<1> HIDE DEF x, starts
<1>6. \A q \in Ends_(cells) : q < e => q <= x
  BY <1>1, <1>3, <1>4, <1>5
<1> QED
  BY <1>5, <1>6 DEF x, starts

LEMMA LineToType ==
    ASSUME NEW S, NEW cells \in Seq(S), NEW e \in Ends_(cells)
    PROVE  LineTo(cells, e) \in Seq(S)
<1> DEFINE x == Max({0} \cup Before(cells, e))
<1>1. x \in Nat /\ x < e
  BY LineStart
<1>2. e \in 1 .. Len(cells) + 1 /\ Len(cells) \in Nat /\ \A p \in 1 .. Len(cells) : cells[p] \in S
  BY EndsAre
<1> HIDE DEF x
<1>3. 1 + x \in Int /\ e - 1 \in Int /\ \A p \in 1 + x .. e - 1 : cells[p] \in S
  BY <1>1, <1>2
<1>4. SubSeq(cells, 1 + x, e - 1) \in Seq(S)
  BY <1>3, SubSeqProperties
<1> QED
  BY <1>4 DEF LineTo, x

\* Lines has the line to each end, in order.
LEMMA LinesAre ==
    ASSUME NEW S, NEW cells \in Seq(S)
    PROVE  /\ Lines(cells) \in Seq(Seq(S))
           /\ Len(Lines(cells)) = Cardinality(Ends_(cells))
           /\ \A e \in Ends_(cells) :
                 /\ Cardinality(Before(cells, e)) + 1 \in 1 .. Len(Lines(cells))
                 /\ Lines(cells)[Cardinality(Before(cells, e)) + 1] = LineTo(cells, e)
           /\ \A m \in 1 .. Len(Lines(cells)) :
                 \E e \in Ends_(cells) :
                    Cardinality(Before(cells, e)) = m - 1 /\ Lines(cells)[m] = LineTo(cells, e)
<1> DEFINE ends == Ends_(cells)
           size == Cardinality(ends)
           B(p) == Before(cells, p)
           Nth(m) == CHOOSE p \in ends : Cardinality(B(p)) = m - 1
           lines == Lines(cells)
<1>1. lines = [m \in 1 .. size |-> LineTo(cells, Nth(m))]
  BY DEF Lines, Before, Ends_, LineTo
<1>2. ends \subseteq Nat /\ IsFiniteSet(ends) /\ size \in Nat
  BY EndsAre
<1>3. ASSUME NEW m \in 1 .. size
      PROVE  Nth(m) \in ends /\ Cardinality(B(Nth(m))) = m - 1
  <2>1. m - 1 \in Nat /\ m - 1 < size
    BY <1>2
  <2>2. \E p \in ends : Cardinality({q \in ends : q < p}) = m - 1
    <3> HIDE DEF ends
    <3> QED
      BY <1>2, <2>1, NthExists
  <2>3. \E p \in ends : Cardinality(B(p)) = m - 1
    BY <2>2 DEF Before
  <2> QED
    BY <2>3
<1>4. ASSUME NEW e \in ends
      PROVE  /\ Cardinality(B(e)) + 1 \in 1 .. size
             /\ Nth(Cardinality(B(e)) + 1) = e
  <2> DEFINE n == Cardinality(B(e))
  <2>1. /\ IsFiniteSet(B(e)) /\ n \in Nat
        /\ B(e) \cup {e} \subseteq ends /\ e \notin B(e)
    <3>1. B(e) \subseteq ends /\ e \notin B(e)
      BY <1>2 DEF Before
    <3>2. IsFiniteSet(B(e))
      BY <1>2, <3>1, FS_Subset
    <3> QED
      BY <3>1, <3>2, FS_CardinalityType
  <2>2. n + 1 <= size
    <3> DEFINE A == B(e)
               m == Cardinality(A \cup {e})
    <3>1. m = n + 1
      <4> HIDE DEF A, B
      <4> QED
        BY <2>1, FS_AddElement DEF A
    <3>2. m <= size
      <4> HIDE DEF ends, B
      <4> QED
        BY <1>2, <2>1, FS_Subset
    <3> QED
      BY <3>1, <3>2
  <2> HIDE DEF n, size
  <2>3. n + 1 \in 1 .. size /\ (n + 1) - 1 = n
    BY <1>2, <2>1, <2>2
  <2> DEFINE p == Nth(n + 1)
  <2>4. p \in ends /\ Cardinality(B(p)) = n
    BY <1>3, <2>3
  <2> HIDE DEF p
  <2>5. p = e
    <3>1. Cardinality({q \in ends : q < p}) = Cardinality({q \in ends : q < e})
      BY <2>4 DEF n, Before
    <3> HIDE DEF ends
    <3> QED
      BY <1>2, <2>4, <3>1, NthUnique
  <2> QED
    BY <2>3, <2>5 DEF n, p
<1>5. lines \in Seq(Seq(S)) /\ Len(lines) = size
  <2>1. \A m \in 1 .. size : LineTo(cells, Nth(m)) \in Seq(S)
    BY <1>3, LineToType
  <2> HIDE DEF Nth, size
  <2>2. lines \in [1 .. size -> Seq(S)]
    BY <1>1, <2>1
  <2> HIDE DEF lines
  <2>3. lines \in Seq(Seq(S))
    BY <1>2, <2>2, SeqDef
  <2>4. DOMAIN lines = 1 .. size
    BY <2>2
  <2>5. Len(lines) = size
    BY <1>2, <2>3, <2>4, LenProperties
  <2> QED
    BY <2>3, <2>5
<1>6. ASSUME NEW e \in ends
      PROVE  lines[Cardinality(B(e)) + 1] = LineTo(cells, e)
  BY <1>1, <1>4
<1>7. ASSUME NEW m \in 1 .. size
      PROVE  \E e \in ends : Cardinality(B(e)) = m - 1 /\ lines[m] = LineTo(cells, e)
  BY <1>1, <1>3
<1> QED
  BY <1>4, <1>5, <1>6, <1>7

\* A text's lines are made of its elements.
LEMMA LinesType ==
    ASSUME NEW S, NEW cells \in Seq(S)
    PROVE  Lines(cells) \in Seq(Seq(S))
  BY LinesAre

IsNewline(x) == x[2] = "\n"
NoNewline(cells) == \A p \in DOMAIN cells : ~IsNewline(cells[p])

\* What two texts have in common up to a position.
LEMMA SamePart ==
    ASSUME NEW S, NEW a \in Seq(S), NEW c \in Seq(S), NEW from \in Nat \ {0}, NEW to \in Nat,
           to <= Len(a), to <= Len(c), \A p \in 1 .. to : a[p] = c[p]
    PROVE  SubSeq(a, from, to) = SubSeq(c, from, to)
<1> DEFINE u == SubSeq(a, from, to)
           v == SubSeq(c, from, to)
<1>1. \A p \in from .. to : a[p] \in S /\ c[p] \in S /\ a[p] = c[p]
  OBVIOUS
<1>2. /\ u \in Seq(S) /\ Len(u) = IF from <= to THEN to - from + 1 ELSE 0
      /\ \A n \in 1 .. to - from + 1 : u[n] = a[from + n - 1]
  BY <1>1, SubSeqProperties
<1>3. /\ v \in Seq(S) /\ Len(v) = IF from <= to THEN to - from + 1 ELSE 0
      /\ \A n \in 1 .. to - from + 1 : v[n] = c[from + n - 1]
  BY <1>1, SubSeqProperties
<1> HIDE DEF u, v
<1>4. Len(u) = Len(v) /\ \A n \in 1 .. Len(u) : n \in 1 .. to - from + 1
  BY <1>2, <1>3
<1>5. \A n \in 1 .. to - from + 1 : from + n - 1 \in from .. to
  OBVIOUS
<1>6. \A n \in 1 .. Len(u) : u[n] = v[n]
  BY <1>1, <1>2, <1>3, <1>4, <1>5
<1>7. u = v
  BY <1>2, <1>3, <1>4, <1>6, SeqEqual
<1> QED
  BY <1>7 DEF u, v

\* The first elements of a text.
LEMMA PrefixIs ==
    ASSUME NEW S, NEW a \in Seq(S), NEW to \in Nat, to <= Len(a)
    PROVE  /\ SubSeq(a, 1, to) \in Seq(S) /\ Len(SubSeq(a, 1, to)) = to
           /\ \A p \in 1 .. to : SubSeq(a, 1, to)[p] = a[p]
<1> DEFINE u == SubSeq(a, 1, to)
<1>1. \A p \in 1 .. to : a[p] \in S
  OBVIOUS
<1>2. /\ u \in Seq(S) /\ Len(u) = IF 1 <= to THEN to - 1 + 1 ELSE 0
      /\ \A n \in 1 .. to - 1 + 1 : u[n] = a[1 + n - 1]
  BY <1>1, SubSeqProperties
<1> HIDE DEF u
<1>3. Len(u) = to /\ to - 1 + 1 = to /\ \A n \in 1 .. to : 1 + n - 1 = n
  BY <1>2
<1> QED
  BY <1>2, <1>3 DEF u

\* Two texts with one element between.
LEMMA Joined3 ==
    ASSUME NEW S, NEW a \in Seq(S), NEW x \in S, NEW b \in Seq(S)
    PROVE  LET c == a \o <<x>> \o b
           IN  /\ c \in Seq(S) /\ Len(c) = Len(a) + 1 + Len(b)
               /\ Len(a) \in Nat /\ Len(b) \in Nat
               /\ \A p \in 1 .. Len(a) : c[p] = a[p]
               /\ c[Len(a) + 1] = x
               /\ \A p \in 1 .. Len(b) : c[Len(a) + 1 + p] = b[p]
<1> DEFINE y == <<x>>
           d == a \o y
           c == d \o b
<1>1. y \in Seq(S) /\ Len(y) = 1 /\ y[1] = x
  OBVIOUS
<1>2. Len(a) \in Nat /\ Len(b) \in Nat
  OBVIOUS
<1> HIDE DEF y
<1>3. /\ d \in Seq(S) /\ Len(d) = Len(a) + 1
      /\ \A p \in 1 .. Len(a) + 1 : d[p] = IF p <= Len(a) THEN a[p] ELSE y[p - Len(a)]
  BY <1>1, ConcatProperties
<1> HIDE DEF d
<1>4. /\ c \in Seq(S) /\ Len(c) = Len(a) + 1 + Len(b)
      /\ \A p \in 1 .. Len(a) + 1 + Len(b) : c[p] = IF p <= Len(a) + 1 THEN d[p] ELSE b[p - (Len(a) + 1)]
  <2>1. /\ c \in Seq(S) /\ Len(c) = Len(d) + Len(b)
        /\ \A p \in 1 .. Len(d) + Len(b) : c[p] = IF p <= Len(d) THEN d[p] ELSE b[p - Len(d)]
    BY <1>3, ConcatProperties
  <2> HIDE DEF c
  <2> QED
    BY <1>3, <2>1
<1> HIDE DEF c
<1>5. \A p \in 1 .. Len(a) : c[p] = a[p]
  BY <1>2, <1>3, <1>4
<1>6. c[Len(a) + 1] = x
  <2>1. (Len(a) + 1) - Len(a) = 1
    BY <1>2
  <2> QED
    BY <1>1, <1>2, <1>3, <1>4, <2>1
<1>7. ASSUME NEW p \in 1 .. Len(b) PROVE c[Len(a) + 1 + p] = b[p]
  <2>1. /\ Len(a) + 1 + p \in 1 .. Len(a) + 1 + Len(b) /\ ~(Len(a) + 1 + p <= Len(a) + 1)
        /\ (Len(a) + 1 + p) - (Len(a) + 1) = p
    BY <1>2
  <2> QED
    BY <1>4, <2>1
<1> QED
  BY <1>2, <1>4, <1>5, <1>6, <1>7 DEF c, d, y

\* A newline and a text without one add a line.
LEMMA LinesSnoc ==
    ASSUME NEW S, NEW a \in Seq(S), NEW x \in S, IsNewline(x), NEW b \in Seq(S), NoNewline(b)
    PROVE  Lines(a \o <<x>> \o b) = Append(Lines(a), b)
<1> DEFINE c == a \o <<x>> \o b
           ea == Ends_(a)
           ec == Ends_(c)
           la == Len(a) + 1
           lc == Len(c) + 1
           T == Seq(S)
<1>1. /\ c \in Seq(S) /\ Len(c) = Len(a) + 1 + Len(b)
      /\ Len(a) \in Nat /\ Len(b) \in Nat
      /\ \A p \in 1 .. Len(a) : c[p] = a[p]
      /\ c[Len(a) + 1] = x
      /\ \A p \in 1 .. Len(b) : c[Len(a) + 1 + p] = b[p]
  BY Joined3
<1> HIDE DEF c
<1>2. DOMAIN a = 1 .. Len(a) /\ DOMAIN b = 1 .. Len(b) /\ DOMAIN c = 1 .. Len(c)
  BY <1>1
<1>3. ec = ea \cup {lc}
  <2>1. ASSUME NEW p \in 1 .. Len(c)
        PROVE  c[p][2] = "\n" <=> p \in ea
    <3>1. CASE p <= Len(a)
      <4>1. p \in 1 .. Len(a) /\ p # Len(a) + 1
        BY <1>1, <3>1
      <4> QED
        BY <1>1, <1>2, <4>1 DEF Ends_
    <3>2. CASE p = Len(a) + 1
      BY <1>1, <3>2 DEF Ends_, IsNewline
    <3>3. CASE p > Len(a) + 1
      <4> DEFINE q == p - (Len(a) + 1)
      <4>1. q \in 1 .. Len(b) /\ p = Len(a) + 1 + q /\ p \notin 1 .. Len(a) /\ p # Len(a) + 1
        BY <1>1, <3>3
      <4>2. c[p] = b[q]
        BY <1>1, <4>1
      <4>3. ~(b[q][2] = "\n")
        BY <1>2, <4>1 DEF NoNewline, IsNewline
      <4> QED
        BY <1>2, <4>1, <4>2, <4>3 DEF Ends_
    <3> QED
      BY <1>1, <3>1, <3>2, <3>3
  <2>2. ea \subseteq 1 .. Len(c)
    <3>1. ea \subseteq 1 .. Len(a) + 1
      BY EndsAre
    <3> HIDE DEF ea
    <3> QED
      BY <1>1, <3>1
  <2> QED
    BY <1>2, <2>1, <2>2 DEF Ends_
<1>4. /\ ea \subseteq 1 .. la /\ IsFiniteSet(ea) /\ Cardinality(ea) \in Nat \ {0} /\ la \in ea
      /\ la \in Nat /\ lc \in Nat /\ la < lc
  BY <1>1, EndsAre
<1> DEFINE n == Cardinality(ea)
<1>5. Cardinality(ec) = n + 1
  <2>1. lc \notin ea
    <3> HIDE DEF la, lc, ea
    <3> QED
      BY <1>4
  <2> HIDE DEF ec, ea, lc
  <2> QED
    BY <1>3, <1>4, <2>1, FS_AddElement
<1> DEFINE old == Lines(a)
           new == Lines(c)
<1>6. /\ old \in Seq(T) /\ Len(old) = n
      /\ \A m \in 1 .. Len(old) :
            \E e \in ea : Cardinality(Before(a, e)) = m - 1 /\ old[m] = LineTo(a, e)
  BY LinesAre
<1>7. /\ new \in Seq(T) /\ Len(new) = n + 1
      /\ \A e \in ec :
            /\ Cardinality(Before(c, e)) + 1 \in 1 .. Len(new)
            /\ new[Cardinality(Before(c, e)) + 1] = LineTo(c, e)
  BY <1>1, <1>5, LinesAre
<1>8. ASSUME NEW e \in ea
      PROVE  Before(c, e) = Before(a, e) /\ LineTo(c, e) = LineTo(a, e)
  <2>1. e \in 1 .. la /\ ~(lc < e)
    BY <1>4
  <2>2. Before(c, e) = Before(a, e)
    <3> HIDE DEF lc
    <3> QED
      BY <1>3, <2>1 DEF Before
  <2> DEFINE from == 1 + Max({0} \cup Before(a, e))
             to == e - 1
  <2>3. from \in Nat \ {0}
    <3> DEFINE z == Max({0} \cup Before(a, e))
    <3>1. z \in Nat
      BY LineStart
    <3> HIDE DEF z
    <3>2. 1 + z \in Nat \ {0}
      BY <3>1
    <3> QED
      BY <3>2 DEF z
  <2>4. to \in Nat /\ to <= Len(a) /\ to <= Len(c) /\ \A p \in 1 .. to : a[p] = c[p]
    BY <1>1, <2>1
  <2> HIDE DEF from, to
  <2>5. SubSeq(a, from, to) = SubSeq(c, from, to)
    BY <1>1, <2>3, <2>4, SamePart
  <2> QED
    BY <2>2, <2>5 DEF LineTo, from, to
<1> HIDE DEF old, new, ea, ec, n
<1>9. ASSUME NEW m \in 1 .. n PROVE new[m] = old[m]
  <2>1. PICK e \in ea : Cardinality(Before(a, e)) = m - 1 /\ old[m] = LineTo(a, e)
    BY <1>6
  <2>2. e \in ec /\ Cardinality(Before(c, e)) = m - 1 /\ LineTo(c, e) = old[m]
    BY <1>3, <1>8, <2>1
  <2>3. (m - 1) + 1 = m
    BY <1>4 DEF n
  <2> QED
    BY <1>7, <2>2, <2>3
<1>10. new[n + 1] = b
  <2>1. Before(c, lc) = ea
    <3>1. \A q \in ea : q < lc
      <4> HIDE DEF la, lc
      <4> QED
        BY <1>4
    <3>2. ~(lc < lc)
      BY <1>4
    <3>3. Ends_(c) = ea \cup {lc}
      BY <1>3 DEF ec
    <3> HIDE DEF lc
    <3> QED
      BY <3>1, <3>2, <3>3 DEF Before
  <2>2. Max({0} \cup ea) = la
    <3> DEFINE z == Max({0} \cup ea)
    <3>1. z \in {0} \cup ea /\ \A q \in ea : q <= z
      <4>1. lc \in Ends_(c)
        BY <1>3 DEF ec
      <4>2. /\ z \in Nat /\ z < lc /\ z \in {0} \cup Ends_(c)
            /\ \A q \in Ends_(c) : q < lc => q <= z
        BY <1>1, <2>1, <4>1, LineStart
      <4>3. Ends_(c) = ea \cup {lc} /\ lc \in Nat /\ \A q \in ea : q < lc
        <5> HIDE DEF la
        <5> QED
          BY <1>3, <1>4 DEF ec
      <4> HIDE DEF z, lc
      <4> QED
        BY <4>2, <4>3
    <3> HIDE DEF z
    <3>2. la <= z /\ (z = 0 \/ z \in 1 .. la)
      BY <1>4, <3>1
    <3> QED
      BY <1>4, <3>2 DEF z
  <2>3. LineTo(c, lc) = SubSeq(c, 1 + la, lc - 1)
    BY <2>1, <2>2 DEF LineTo
  <2> DEFINE to == Len(c)
             v == SubSeq(c, 1 + la, to)
  <2>4. lc - 1 = to /\ to \in Nat
    BY <1>1
  <2>5. v = b
    <3>1. \A p \in 1 + la .. to : c[p] \in S
      BY <1>1, <1>2, <1>4
    <3>2. 1 + la \in Int /\ to \in Int
      BY <1>1
    <3>3. /\ v \in Seq(S) /\ Len(v) = IF 1 + la <= to THEN to - (1 + la) + 1 ELSE 0
          /\ \A p \in 1 .. to - (1 + la) + 1 : v[p] = c[1 + la + p - 1]
      <4> HIDE DEF la, to
      <4> QED
        BY <3>1, <3>2, SubSeqProperties
    <3>4. Len(v) = Len(b) /\ to - (1 + la) + 1 = Len(b)
      <4> HIDE DEF v
      <4> QED
        BY <1>1, <3>3
    <3>5. \A p \in 1 .. Len(b) : 1 + la + p - 1 = Len(a) + 1 + p
      BY <1>1
    <3> HIDE DEF v, to, la
    <3>6. \A p \in 1 .. Len(b) : v[p] = b[p]
      BY <1>1, <3>3, <3>4, <3>5
    <3> QED
      BY <3>3, <3>4, <3>6, SeqEqual
  <2>6. lc \in ec
    BY <1>3
  <2> HIDE DEF lc, v, to
  <2>7. new[Cardinality(Before(c, lc)) + 1] = LineTo(c, lc)
    BY <1>7, <2>6
  <2>8. LineTo(c, lc) = b
    BY <2>3, <2>4, <2>5 DEF v
  <2> QED
    BY <2>1, <2>7, <2>8 DEF n
<1> HIDE DEF T
<1>11. b \in T
  BY DEF T
<1>12. /\ Append(old, b) \in Seq(T) /\ Len(Append(old, b)) = n + 1
       /\ \A m \in 1 .. n : Append(old, b)[m] = old[m]
       /\ Append(old, b)[n + 1] = b
  BY <1>6, <1>11, AppendProperties
<1>13. \A m \in 1 .. n + 1 : m \in 1 .. n \/ m = n + 1
  BY <1>4 DEF n
<1>14. new = Append(old, b)
  BY <1>7, <1>9, <1>10, <1>12, <1>13, SeqEqual
<1> QED
  BY <1>14 DEF new, old, c

\* A text without a newline is one line.
LEMMA LinesNone ==
    ASSUME NEW S, NEW b \in Seq(S), NoNewline(b)
    PROVE  Lines(b) = <<b>>
<1> DEFINE end == Len(b) + 1
           lines == Lines(b)
           T == Seq(S)
<1>1. Ends_(b) = {end} /\ Len(b) \in Nat
  BY DEF Ends_, NoNewline, IsNewline
<1>2. Before(b, end) = {}
  <2>1. ~(end < end)
    BY <1>1
  <2> HIDE DEF end
  <2> QED
    BY <1>1, <2>1 DEF Before
<1>3. Cardinality({end}) = 1 /\ Cardinality({}) = 0
  BY FS_Singleton, FS_EmptySet
<1>4. /\ lines \in Seq(T) /\ Len(lines) = 1 /\ lines[1] = LineTo(b, end)
  <2>1. end \in Ends_(b)
    BY <1>1
  <2> DEFINE z == Cardinality(Before(b, end))
  <2>2. lines \in Seq(T) /\ Len(lines) = Cardinality(Ends_(b)) /\ lines[z + 1] = LineTo(b, end)
    BY <2>1, LinesAre
  <2>3. z + 1 = 1
    BY <1>2, <1>3
  <2> HIDE DEF z, lines, end
  <2> QED
    BY <1>1, <1>3, <2>2, <2>3
<1>5. LineTo(b, end) = b
  <2> DEFINE z == Max({0} \cup Before(b, end))
  <2>1. z \in Nat /\ z < end /\ z \in {0} \cup Ends_(b)
    BY <1>1, LineStart
  <2> HIDE DEF z
  <2>2. z = 0 /\ end - 1 = Len(b)
    BY <1>1, <2>1
  <2>3. LineTo(b, end) = SubSeq(b, 1 + z, end - 1)
    BY DEF LineTo, z
  <2> HIDE DEF end
  <2>4. LineTo(b, end) = SubSeq(b, 1, Len(b))
    BY <2>2, <2>3
  <2> QED
    BY <2>4, SubSeqFull
<1> HIDE DEF lines, T
<1>6. b \in T
  BY DEF T
<1>7. lines = <<b>>
  <2> DEFINE one == <<b>>
  <2>1. one \in Seq(T) /\ Len(one) = 1 /\ one[1] = b
    BY <1>6
  <2> HIDE DEF one
  <2>2. \A m \in 1 .. 1 : lines[m] = one[m]
    BY <1>4, <1>5, <2>1
  <2>3. lines = one
    BY <1>4, <2>1, <2>2, SeqEqual
  <2> QED
    BY <2>3 DEF one
<1> QED
  BY <1>7 DEF lines

\* Where four texts are joined first makes no difference.
JoinedAlike(a, b, c, d) == a \o ((b \o c) \o d) = ((a \o b) \o c) \o d

LEMMA JoinsFour ==
    ASSUME NEW S, NEW a \in Seq(S), NEW b \in Seq(S), NEW c \in Seq(S), NEW d \in Seq(S)
    PROVE  JoinedAlike(a, b, c, d)
<1>1. b \o c \in Seq(S) /\ a \o b \in Seq(S)
  BY ConcatProperties
<1>2. \A w \in Seq(S) : (a \o w) \o d = a \o (w \o d)
  BY ConcatAssociative
<1>3. a \o (b \o c) = (a \o b) \o c
  BY ConcatAssociative
<1> QED
  BY <1>1, <1>2, <1>3, Zenon DEF JoinedAlike

\* A text of two lines after a line.
LinesInto(a, x, b, y, c) ==
    (a \o <<x>>) \o (b \o <<y>> \o c) = (a \o <<x>> \o b) \o <<y>> \o c

LEMMA JoinsInto ==
    ASSUME NEW S, NEW a \in Seq(S), NEW x \in S, NEW b \in Seq(S), NEW y \in S, NEW c \in Seq(S)
    PROVE  LinesInto(a, x, b, y, c)
<1>1. a \o <<x>> \in Seq(S) /\ <<y>> \in Seq(S)
  OBVIOUS
<1>2. JoinedAlike(a \o <<x>>, b, <<y>>, c)
  BY <1>1, JoinsFour, Zenon
<1> QED
  BY <1>2 DEF JoinedAlike, LinesInto

\* Appending to the second of two sequences.
AppendsInto(a, b, x) == Append(a \o b, x) = a \o Append(b, x)

LEMMA AppendJoins ==
    ASSUME NEW S, NEW a \in Seq(S), NEW b \in Seq(S), NEW x \in S
    PROVE  AppendsInto(a, b, x)
<1>1. a \o b \in Seq(S) /\ <<x>> \in Seq(S)
  OBVIOUS
<1>2. \A s \in Seq(S) : Append(s, x) = s \o <<x>>
  BY AppendIsConcat
<1>3. \A k \in Seq(S) : (a \o b) \o k = a \o (b \o k)
  BY ConcatAssociative
<1> QED
  BY <1>1, <1>2, <1>3, Zenon DEF AppendsInto

\* A text, up to an element and from it.
LEMMA SplitAt ==
    ASSUME NEW S, NEW b \in Seq(S), NEW l \in 1 .. Len(b)
    PROVE  LET u == SubSeq(b, 1, l - 1)
               v == SubSeq(b, l + 1, Len(b))
           IN  /\ b[l] \in S /\ u \in Seq(S) /\ v \in Seq(S)
               /\ b = u \o <<b[l]>> \o v
               /\ Len(u) = l - 1 /\ Len(v) = Len(b) - l
               /\ \A p \in 1 .. l - 1 : u[p] = b[p]
               /\ \A p \in 1 .. Len(b) - l : v[p] = b[l + p]
<1> DEFINE size == Len(b)
           u == SubSeq(b, 1, l - 1)
           v == SubSeq(b, l + 1, size)
<1>1. size \in Nat /\ DOMAIN b = 1 .. size /\ \A p \in 1 .. size : b[p] \in S
  OBVIOUS
<1>2. l - 1 \in Int /\ l + 1 \in Int /\ l \in Nat /\ l >= 1 /\ l <= size
  BY <1>1
<1>3. /\ u \in Seq(S) /\ Len(u) = l - 1
      /\ \A p \in 1 .. l - 1 : u[p] = b[p]
  <2>1. \A p \in 1 .. l - 1 : b[p] \in S
    BY <1>1, <1>2
  <2> DEFINE to == l - 1
  <2> HIDE DEF to
  <2>2. /\ SubSeq(b, 1, to) \in Seq(S) /\ Len(SubSeq(b, 1, to)) = IF 1 <= to THEN to - 1 + 1 ELSE 0
        /\ \A p \in 1 .. to - 1 + 1 : SubSeq(b, 1, to)[p] = b[1 + p - 1]
    BY <1>2, <2>1, SubSeqProperties DEF to
  <2>3. u = SubSeq(b, 1, to) /\ to \in Nat /\ to = l - 1
    BY <1>2 DEF to
  <2> HIDE DEF u
  <2>4. Len(u) = to /\ \A p \in 1 .. to : u[p] = b[p]
    BY <2>2, <2>3
  <2> QED
    BY <2>2, <2>3, <2>4
<1>4. /\ v \in Seq(S) /\ Len(v) = size - l
      /\ \A p \in 1 .. size - l : v[p] = b[l + p]
  <2>1. \A p \in l + 1 .. size : b[p] \in S
    BY <1>1, <1>2
  <2>2. /\ v \in Seq(S) /\ Len(v) = IF l + 1 <= size THEN size - (l + 1) + 1 ELSE 0
        /\ \A p \in 1 .. size - (l + 1) + 1 : v[p] = b[l + 1 + p - 1]
    BY <1>1, <1>2, <2>1, SubSeqProperties
  <2> HIDE DEF v, size
  <2>3. Len(v) = size - l /\ size - (l + 1) + 1 = size - l
    BY <1>1, <1>2, <2>2
  <2>4. \A p \in 1 .. size - l : l + 1 + p - 1 = l + p
    BY <1>1, <1>2
  <2> QED
    BY <2>2, <2>3, <2>4
<1> HIDE DEF u, v
<1>5. b = u \o <<b[l]>> \o v
  <2> DEFINE x == b[l]
             c == u \o <<x>> \o v
  <2>1. x \in S
    BY <1>1, <1>2
  <2> HIDE DEF x
  <2>2. /\ c \in Seq(S) /\ Len(c) = Len(u) + 1 + Len(v)
        /\ Len(u) \in Nat /\ Len(v) \in Nat
        /\ \A p \in 1 .. Len(u) : c[p] = u[p]
        /\ c[Len(u) + 1] = x
        /\ \A p \in 1 .. Len(v) : c[Len(u) + 1 + p] = v[p]
    <3>1. u \in Seq(S) /\ v \in Seq(S) /\ x \in S
      BY <1>3, <1>4, <2>1
    <3> QED
      BY <3>1, Joined3
  <2> HIDE DEF c
  <2>3. Len(c) = size
    BY <1>1, <1>2, <1>3, <1>4, <2>2
  <2>4. ASSUME NEW p \in 1 .. size PROVE c[p] = b[p]
    <3>1. CASE p < l
      <4>1. p \in 1 .. l - 1 /\ Len(u) = l - 1
        BY <1>1, <1>2, <1>3, <3>1
      <4> QED
        BY <1>3, <2>2, <4>1
    <3>2. CASE p = l
      <4>1. Len(u) + 1 = l
        BY <1>2, <1>3
      <4> QED
        BY <2>2, <3>2, <4>1 DEF x
    <3>3. CASE p > l
      <4>1. p - l \in 1 .. size - l /\ Len(u) + 1 + (p - l) = p /\ l + (p - l) = p
        BY <1>1, <1>2, <1>3, <3>3
      <4> QED
        BY <1>4, <2>2, <4>1
    <3> QED
      BY <1>1, <1>2, <3>1, <3>2, <3>3
  <2>5. c = b
    <3> HIDE DEF size
    <3>1. \A p \in 1 .. Len(c) : c[p] = b[p]
      BY <2>3, <2>4
    <3> QED
      BY <2>2, <2>3, <3>1, SeqEqual DEF size
  <2> QED
    BY <2>5 DEF c, x
<1>6. b[l] \in S
  BY <1>1
<1> QED
  BY <1>3, <1>4, <1>5, <1>6 DEF u, v

\* A text with a newline is a text, its last newline, and a text without one.
LEMMA LastNewline ==
    ASSUME NEW S, NEW b \in Seq(S), ~NoNewline(b)
    PROVE  \E u \in Seq(S), x \in S, v \in Seq(S) :
              /\ IsNewline(x) /\ NoNewline(v) /\ b = u \o <<x>> \o v
              /\ Len(u) < Len(b)
<1> DEFINE size == Len(b)
           nls == {p \in DOMAIN b : IsNewline(b[p])}
           l == Max(nls)
           u == SubSeq(b, 1, l - 1)
           v == SubSeq(b, l + 1, size)
<1>1. size \in Nat /\ DOMAIN b = 1 .. size
  OBVIOUS
<1>2. l \in 1 .. size /\ IsNewline(b[l]) /\ \A p \in 1 .. size : IsNewline(b[p]) => p <= l
  <2>1. nls \subseteq Nat /\ nls # {}
    BY <1>1 DEF NoNewline
  <2>2. IsFiniteSet(nls)
    <3>1. nls \subseteq 1 .. size /\ IsFiniteSet(1 .. size)
      BY <1>1, FS_Interval
    <3> HIDE DEF nls
    <3> QED
      BY <3>1, FS_Subset
  <2>3. l \in nls /\ \A y \in nls : l >= y
    <3> HIDE DEF nls
    <3> QED
      BY <2>1, <2>2, MaxType
  <2> HIDE DEF l
  <2> QED
    BY <1>1, <2>3
<1> HIDE DEF l
<1>3. /\ b[l] \in S /\ u \in Seq(S) /\ v \in Seq(S)
      /\ b = u \o <<b[l]>> \o v
      /\ Len(u) = l - 1 /\ Len(v) = size - l
      /\ \A p \in 1 .. size - l : v[p] = b[l + p]
  BY <1>2, SplitAt
<1> HIDE DEF u, v
<1>4. NoNewline(v)
  <2> SUFFICES ASSUME NEW p \in DOMAIN v PROVE ~IsNewline(v[p])
    BY DEF NoNewline
  <2>1. p \in 1 .. size - l
    BY <1>3, LenProperties
  <2>2. v[p] = b[l + p] /\ l + p \in 1 .. size /\ ~(l + p <= l)
    BY <1>1, <1>2, <1>3, <2>1
  <2> QED
    BY <1>2, <2>2
<1>5. Len(u) < size
  BY <1>1, <1>2, <1>3
<1> QED
  BY <1>2, <1>3, <1>4, <1>5

\* b is its first line u, the newline x and v.
Broken(b, u, x, v) ==
    /\ IsNewline(x) /\ NoNewline(u) /\ b = u \o <<x>> \o v
    /\ Len(u) + 1 <= Len(b)
    /\ x = b[Len(u) + 1] /\ \A p \in 1 .. Len(u) : u[p] = b[p]

\* A text with a newline has a first line.
LEMMA FirstNewline ==
    ASSUME NEW S, NEW b \in Seq(S), ~NoNewline(b)
    PROVE  \E u \in Seq(S), x \in S, v \in Seq(S) : Broken(b, u, x, v)
<1> DEFINE size == Len(b)
           nls == {p \in DOMAIN b : IsNewline(b[p])}
           l == Min(nls)
           u == SubSeq(b, 1, l - 1)
           v == SubSeq(b, l + 1, size)
<1>1. size \in Nat /\ DOMAIN b = 1 .. size
  OBVIOUS
<1>2. l \in 1 .. size /\ IsNewline(b[l]) /\ \A p \in 1 .. size : IsNewline(b[p]) => l <= p
  <2>1. nls \subseteq Nat /\ nls # {}
    BY <1>1 DEF NoNewline
  <2>2. l \in nls /\ \A y \in nls : l <= y
    <3> HIDE DEF nls
    <3> QED
      BY <2>1, MinType
  <2> HIDE DEF l
  <2> QED
    BY <1>1, <2>2
<1> HIDE DEF l
<1>3. /\ b[l] \in S /\ u \in Seq(S) /\ v \in Seq(S)
      /\ b = u \o <<b[l]>> \o v
      /\ Len(u) = l - 1
      /\ \A p \in 1 .. l - 1 : u[p] = b[p]
  BY <1>2, SplitAt
<1> HIDE DEF u, v
<1>4. NoNewline(u)
  <2> SUFFICES ASSUME NEW p \in DOMAIN u PROVE ~IsNewline(u[p])
    BY DEF NoNewline
  <2>1. p \in 1 .. l - 1
    BY <1>3, LenProperties
  <2>2. u[p] = b[p] /\ p \in 1 .. size /\ ~(l <= p)
    BY <1>1, <1>2, <1>3, <2>1
  <2> QED
    BY <1>2, <2>2
<1>5. Len(u) + 1 = l /\ l <= size
  BY <1>1, <1>2, <1>3
<1> QED
  BY <1>2, <1>3, <1>4, <1>5 DEF Broken

\* A sequence behind an element.
LEMMA ConsIs ==
    ASSUME NEW S, NEW x \in S, NEW s \in Seq(S)
    PROVE  /\ Len(<<x>> \o s) = 1 + Len(s)
           /\ (<<x>> \o s)[1] = x
           /\ \A k \in 1 .. Len(s) : (<<x>> \o s)[1 + k] = s[k]
<1> DEFINE one == <<x>>
           c == one \o s
<1>1. one \in Seq(S) /\ Len(one) = 1 /\ one[1] = x /\ Len(s) \in Nat
  OBVIOUS
<1> HIDE DEF one
<1>2. /\ Len(c) = Len(one) + Len(s)
      /\ \A p \in 1 .. Len(one) + Len(s) :
            c[p] = IF p <= Len(one) THEN one[p] ELSE s[p - Len(one)]
  BY <1>1, ConcatProperties
<1> HIDE DEF c
<1>3. Len(c) = 1 + Len(s) /\ c[1] = x
  BY <1>1, <1>2
<1>4. ASSUME NEW k \in 1 .. Len(s) PROVE c[1 + k] = s[k]
  <2>1. 1 + k \in 1 .. Len(one) + Len(s) /\ ~(1 + k <= Len(one)) /\ 1 + k - Len(one) = k
    BY <1>1
  <2> QED
    BY <1>2, <2>1
<1> QED
  BY <1>3, <1>4 DEF c, one

\* Two texts without newlines.
LEMMA NoNewlineJoin ==
    ASSUME NEW S, NEW a \in Seq(S), NEW b \in Seq(S), NoNewline(a), NoNewline(b)
    PROVE  a \o b \in Seq(S) /\ NoNewline(a \o b)
<1> DEFINE c == a \o b
<1>1. /\ c \in Seq(S) /\ Len(c) = Len(a) + Len(b)
      /\ \A p \in 1 .. Len(a) + Len(b) : c[p] = IF p <= Len(a) THEN a[p] ELSE b[p - Len(a)]
  BY ConcatProperties
<1>2. /\ Len(a) \in Nat /\ DOMAIN a = 1 .. Len(a)
      /\ Len(b) \in Nat /\ DOMAIN b = 1 .. Len(b)
  OBVIOUS
<1> HIDE DEF c
<1>3. ASSUME NEW p \in DOMAIN c PROVE ~IsNewline(c[p])
  <2>1. p \in 1 .. Len(a) + Len(b)
    BY <1>1
  <2>2. CASE p <= Len(a)
    BY <1>1, <1>2, <2>1, <2>2 DEF NoNewline
  <2>3. CASE ~(p <= Len(a))
    <3>1. p - Len(a) \in 1 .. Len(b)
      BY <1>2, <2>1, <2>3
    <3> QED
      BY <1>1, <1>2, <2>1, <2>3, <3>1 DEF NoNewline
  <2> QED
    BY <2>2, <2>3
<1> QED
  BY <1>1, <1>3 DEF NoNewline, c

\* The lines of two texts with a newline between.
LEMMA LinesJoin ==
    ASSUME NEW S, NEW a \in Seq(S), NEW x \in S, IsNewline(x), NEW b \in Seq(S)
    PROVE  Lines(a \o <<x>> \o b) = Lines(a) \o Lines(b)
<1> DEFINE Fits(t) == Lines(a \o <<x>> \o t) = Lines(a) \o Lines(t)
           bad == {Len(t) : t \in {w \in Seq(S) : ~Fits(w)}}
           T == Seq(S)
<1> SUFFICES ASSUME ~Fits(b) PROVE FALSE
  OBVIOUS
<1>1. bad \subseteq Nat /\ bad # {}
  <2> HIDE DEF Fits
  <2>1. \A t \in Seq(S) : Len(t) \in Nat
    OBVIOUS
  <2>2. b \in {w \in Seq(S) : ~Fits(w)}
    BY Zenon DEF Fits
  <2> QED
    BY <2>1, <2>2
<1>2. PICK n \in bad : \A l \in bad : n <= l
  <2> HIDE DEF bad
  <2> QED
    BY <1>1, Least
<1>3. PICK t \in Seq(S) : ~Fits(t) /\ n = Len(t)
  BY <1>2
<1>4. Lines(a) \in Seq(T) /\ t \in T
  BY LinesType
<1>5. CASE NoNewline(t)
  <2>1. Lines(a \o <<x>> \o t) = Append(Lines(a), t)
    BY <1>5, LinesSnoc
  <2>2. Lines(t) = <<t>>
    BY <1>5, LinesNone
  <2>3. Append(Lines(a), t) = Lines(a) \o <<t>>
    <3> DEFINE la == Lines(a)
    <3> HIDE DEF T, la
    <3>1. la \in Seq(T)
      BY <1>4 DEF la
    <3> QED
      BY <1>4, <3>1, AppendIsConcat DEF la
  <2> QED
    BY <1>3, <2>1, <2>2, <2>3
<1>6. CASE ~NoNewline(t)
  <2>1. PICK u \in Seq(S), y \in S, v \in Seq(S) :
              /\ IsNewline(y) /\ NoNewline(v) /\ t = u \o <<y>> \o v
              /\ Len(u) < Len(t)
    BY <1>6, LastNewline
  <2>2. Fits(u)
    <3>1. ~Fits(u) => Len(u) \in bad
      OBVIOUS
    <3>2. Len(u) \in Nat /\ Len(t) \in Nat
      OBVIOUS
    <3> HIDE DEF Fits, bad
    <3> QED
      BY <1>2, <1>3, <2>1, <3>1, <3>2
  <2> DEFINE head == a \o <<x>>
             d == head \o u
             la == Lines(a)
             lu == Lines(u)
  <2>3. head \in Seq(S) /\ <<y>> \in Seq(S)
    OBVIOUS
  <2>4. head \o t = d \o <<y>> \o v
    <3>1. LinesInto(a, x, u, y, v)
      BY JoinsInto, Zenon
    <3> QED
      BY <2>1, <3>1 DEF LinesInto
  <2>5. d \in Seq(S)
    <3> HIDE DEF head
    <3> QED
      BY <2>3
  <2>6. Lines(d \o <<y>> \o v) = Append(Lines(d), v)
    <3> HIDE DEF d
    <3> QED
      BY <2>1, <2>5, LinesSnoc
  <2>7. Lines(t) = Append(lu, v)
    BY <2>1, LinesSnoc
  <2>8. Lines(d) = la \o lu
    BY <2>2
  <2>9. la \in Seq(T) /\ lu \in Seq(T) /\ v \in T
    BY LinesType
  <2> HIDE DEF T, la, lu
  <2>10. Append(la \o lu, v) = la \o Append(lu, v)
    <3>1. AppendsInto(la, lu, v)
      BY <2>9, AppendJoins, Zenon
    <3> QED
      BY <3>1 DEF AppendsInto
  <2>11. Lines(head \o t) = la \o Lines(t)
    <3> HIDE DEF d, head
    <3> QED
      BY <2>4, <2>6, <2>7, <2>8, <2>10
  <2> QED
    BY <1>3, <2>11 DEF la
<1> QED
  BY <1>5, <1>6

\* The first line of a text, and the rest.
LEMMA LinesCons ==
    ASSUME NEW S, NEW a \in Seq(S), NoNewline(a), NEW x \in S, IsNewline(x), NEW b \in Seq(S)
    PROVE  Lines(a \o <<x>> \o b) = <<a>> \o Lines(b)
<1>1. Lines(a \o <<x>> \o b) = Lines(a) \o Lines(b)
  BY LinesJoin
<1>2. Lines(a) = <<a>>
  BY LinesNone
<1> QED
  BY <1>1, <1>2, Zenon

\* A text has a line, made of its elements.
LEMMA LineCells ==
    ASSUME NEW S, NEW t \in Seq(S)
    PROVE  /\ Len(Lines(t)) \in Nat \ {0} /\ DOMAIN Lines(t) = 1 .. Len(Lines(t))
           /\ \A m \in 1 .. Len(Lines(t)) :
                 /\ Lines(t)[m] \in Seq(S)
                 /\ \A p \in DOMAIN Lines(t)[m] : \E q \in DOMAIN t : Lines(t)[m][p] = t[q]
<1> DEFINE lines == Lines(t)
           T == Seq(S)
<1>1. lines \in Seq(T) /\ Len(lines) = Cardinality(Ends_(t))
  BY LinesAre
<1>2. Len(lines) \in Nat \ {0}
  BY <1>1, EndsAre
<1>3. DOMAIN lines = 1 .. Len(lines) /\ \A m \in 1 .. Len(lines) : lines[m] \in T
  <2> HIDE DEF lines, T
  <2> QED
    BY <1>1
<1>4. ASSUME NEW m \in 1 .. Len(lines), NEW p \in DOMAIN lines[m]
      PROVE  \E q \in DOMAIN t : lines[m][p] = t[q]
  <2>1. PICK e \in Ends_(t) : lines[m] = LineTo(t, e)
    BY LinesAre
  <2> DEFINE z == Max({0} \cup Before(t, e))
  <2>2. z \in Nat /\ z < e /\ e \in 1 .. Len(t) + 1 /\ Len(t) \in Nat
    BY LineStart, EndsAre
  <2>3. lines[m] = SubSeq(t, 1 + z, e - 1)
    BY <2>1 DEF LineTo
  <2> HIDE DEF z, lines
  <2>4. \A q \in 1 + z .. e - 1 : t[q] \in S
    BY <2>2
  <2>5. /\ DOMAIN SubSeq(t, 1 + z, e - 1) = 1 .. e - 1 - z
        /\ \A q \in 1 .. e - 1 - z : SubSeq(t, 1 + z, e - 1)[q] = t[z + q]
    <3> DEFINE from == 1 + z
               to == e - 1
    <3>1. from \in Int /\ to \in Int /\ from <= to + 1 /\ to - from + 1 = e - 1 - z
      BY <2>2
    <3> HIDE DEF from, to
    <3>2. /\ SubSeq(t, from, to) \in Seq(S)
          /\ Len(SubSeq(t, from, to)) = IF from <= to THEN to - from + 1 ELSE 0
          /\ \A q \in 1 .. to - from + 1 : SubSeq(t, from, to)[q] = t[from + q - 1]
      BY <2>4, <3>1, SubSeqProperties DEF from, to
    <3> DEFINE w == SubSeq(t, from, to)
    <3> HIDE DEF w
    <3>3. Len(w) = to - from + 1 /\ DOMAIN w = 1 .. Len(w)
      BY <3>1, <3>2, LenProperties DEF w
    <3>4. \A q \in 1 .. e - 1 - z : from + q - 1 = z + q
      BY <2>2 DEF from
    <3> QED
      BY <3>1, <3>2, <3>3, <3>4 DEF w, from, to
  <2>6. p \in 1 .. e - 1 - z /\ lines[m][p] = t[z + p] /\ z + p \in 1 .. Len(t)
    BY <2>2, <2>3, <2>5
  <2> QED
    BY <2>6
<1> QED
  BY <1>2, <1>3, <1>4

\* Where every newline of a text comes after a backslash, every line but the last
\* ends in one.
LEMMA LinesEscape ==
    ASSUME NEW S, NEW t \in Seq(S),
           \A p \in 1 .. Len(t) : IsNewline(t[p]) => p > 1 /\ t[p - 1][2] = "\\",
           NEW m \in 1 .. Len(Lines(t)), m < Len(Lines(t))
    PROVE  Escapes(Lines(t), m)
<1> DEFINE lines == Lines(t)
<1>1. PICK e \in Ends_(t) : Cardinality(Before(t, e)) = m - 1 /\ lines[m] = LineTo(t, e)
  BY LinesAre
<1>2. /\ Ends_(t) \subseteq 1 .. Len(t) + 1 /\ Len(t) \in Nat /\ IsFiniteSet(Ends_(t))
      /\ Len(lines) = Cardinality(Ends_(t)) /\ Len(t) + 1 \in Ends_(t)
      /\ Len(lines) \in Nat
  BY EndsAre, LinesAre
<1>3. e # Len(t) + 1
  <2> SUFFICES ASSUME e = Len(t) + 1 PROVE FALSE
    OBVIOUS
  <2>1. Before(t, e) = Ends_(t) \ {e}
    BY <1>2 DEF Before
  <2>2. Cardinality(Ends_(t) \ {e}) = Cardinality(Ends_(t)) - 1
    BY <1>2, FS_RemoveElement
  <2> DEFINE size == Len(lines)
  <2>3. m \in 1 .. size /\ m < size /\ size \in Nat /\ m - 1 = size - 1
    BY <1>1, <1>2, <2>1, <2>2
  <2> HIDE DEF size
  <2> QED
    BY <2>3
<1>4. e \in 1 .. Len(t) /\ IsNewline(t[e])
  BY <1>2, <1>3 DEF Ends_, IsNewline
<1>5. e > 1 /\ t[e - 1][2] = "\\"
  BY <1>4
<1> DEFINE z == Max({0} \cup Before(t, e))
<1>6. z \in Nat /\ z < e /\ z \in {0} \cup Ends_(t)
  BY LineStart
<1>7. lines[m] = SubSeq(t, 1 + z, e - 1)
  BY <1>1 DEF LineTo
<1>8. z < e - 1
  <2>1. ~(t[e - 1][2] = "\n")
    BY <1>5, Zenon
  <2>2. e - 1 \notin Ends_(t) /\ e - 1 # 0
    BY <1>2, <1>4, <1>5, <2>1 DEF Ends_
  <2> HIDE DEF z
  <2> QED
    BY <1>4, <1>6, <2>2
<1> DEFINE w == SubSeq(t, 1 + z, e - 1)
<1>9. /\ Len(w) = e - 1 - z /\ w \in Seq(S)
      /\ w[e - 1 - z] = t[e - 1]
  <2> DEFINE from == 1 + z
             to == e - 1
  <2> HIDE DEF z
  <2>1. from \in Int /\ to \in Int /\ from <= to /\ to - from + 1 = e - 1 - z
        /\ \A q \in from .. to : t[q] \in S
    BY <1>2, <1>4, <1>6, <1>8
  <2>2. w = SubSeq(t, from, to)
    OBVIOUS
  <2> HIDE DEF from, to, w
  <2>3. /\ w \in Seq(S)
        /\ Len(w) = IF from <= to THEN to - from + 1 ELSE 0
        /\ \A q \in 1 .. to - from + 1 : w[q] = t[from + q - 1]
    BY <2>1, <2>2, SubSeqProperties
  <2>4. e - 1 - z \in 1 .. to - from + 1 /\ from + (e - 1 - z) - 1 = e - 1
    BY <1>4, <1>6, <1>8, <2>1 DEF from
  <2> QED
    BY <2>1, <2>3, <2>4
<1> HIDE DEF z
<1>10. w # <<>> /\ Last(w)[2] = "\\"
  <2> HIDE DEF w
  <2>1. Len(w) # 0
    BY <1>4, <1>6, <1>8, <1>9
  <2>2. w # <<>>
    BY <2>1
  <2> QED
    BY <1>5, <1>9, <2>2 DEF Last
<1>11. m \in DOMAIN lines
  BY LineCells
<1> QED
  BY <1>7, <1>10, <1>11 DEF Escapes

----------------------------------------------------------------------------
(* A text without the blanks at its beginning.                             *)

AllBlank(text) == \A p \in DOMAIN text : text[p][2] \in Blank

\* What begins at the first cell that is not blank.
LEMMA TrimLeftAt ==
    ASSUME NEW S, NEW text \in Seq(S), NEW k \in 1 .. Len(text),
           text[k][2] \notin Blank, \A q \in 1 .. k - 1 : text[q][2] \in Blank
    PROVE  TrimLeft(text) = SubSeq(text, k, Len(text))
<1> DEFINE solid == {p \in DOMAIN text : text[p][2] \notin Blank}
           first == CHOOSE p \in solid : \A q \in solid : p <= q
<1>1. TrimLeft(text) = IF solid = {} THEN <<>> ELSE SubSeq(text, first, Len(text))
  BY DEF TrimLeft
<1>2. Len(text) \in Nat /\ DOMAIN text = 1 .. Len(text)
  OBVIOUS
<1>3. k \in solid /\ \A q \in solid : k <= q
  BY <1>2
<1>4. solid \subseteq Nat
  BY <1>2
<1>5. first = k
  <2> HIDE DEF solid
  <2>1. first \in solid /\ \A q \in solid : first <= q
    BY <1>3
  <2> HIDE DEF first
  <2>2. first <= k /\ k <= first /\ first \in Nat /\ k \in Nat
    BY <1>3, <1>4, <2>1
  <2> QED
    BY <2>2
<1> QED
  BY <1>1, <1>3, <1>5

\* The first cell that is not blank.
LEMMA FirstSolid ==
    ASSUME NEW S, NEW text \in Seq(S), ~AllBlank(text)
    PROVE  \E k \in 1 .. Len(text) :
              text[k][2] \notin Blank /\ \A q \in 1 .. k - 1 : text[q][2] \in Blank
<1> DEFINE solid == {p \in DOMAIN text : text[p][2] \notin Blank}
<1>1. Len(text) \in Nat /\ DOMAIN text = 1 .. Len(text)
  OBVIOUS
<1>2. solid \subseteq Nat /\ solid # {}
  BY <1>1 DEF AllBlank
<1>3. PICK k \in solid : \A q \in solid : k <= q
  <2> HIDE DEF solid
  <2> QED
    BY <1>2, Least
<1>4. k \in 1 .. Len(text) /\ text[k][2] \notin Blank
  BY <1>1
<1>5. ASSUME NEW q \in 1 .. k - 1 PROVE text[q][2] \in Blank
  <2>1. q \in 1 .. Len(text) /\ ~(k <= q)
    BY <1>1, <1>4
  <2> QED
    BY <1>1, <1>3, <2>1
<1> QED
  BY <1>4, <1>5

LEMMA TrimLeftIs ==
    ASSUME NEW S, NEW text \in Seq(S)
    PROVE  /\ TrimLeft(text) \in Seq(S)
           /\ TrimLeft(text) = <<>> <=> AllBlank(text)
           /\ \A p \in DOMAIN TrimLeft(text) : \E q \in DOMAIN text : TrimLeft(text)[p] = text[q]
<1>1. CASE AllBlank(text)
  <2>1. {p \in DOMAIN text : text[p][2] \notin Blank} = {}
    BY <1>1 DEF AllBlank
  <2>2. TrimLeft(text) = <<>>
    BY <2>1 DEF TrimLeft
  <2> QED
    BY <1>1, <2>2
<1>2. CASE ~AllBlank(text)
  <2>1. PICK k \in 1 .. Len(text) :
              text[k][2] \notin Blank /\ \A q \in 1 .. k - 1 : text[q][2] \in Blank
    BY <1>2, FirstSolid
  <2> DEFINE size == Len(text)
             w == SubSeq(text, k, size)
  <2>2. TrimLeft(text) = w
    BY <2>1, TrimLeftAt
  <2>3. /\ size \in Nat /\ DOMAIN text = 1 .. size /\ k \in 1 .. size
        /\ \A q \in 1 .. size : text[q] \in S
    OBVIOUS
  <2> HIDE DEF size
  <2>4. \A q \in k .. size : text[q] \in S
    BY <2>3
  <2>5. /\ w \in Seq(S) /\ Len(w) = IF k <= size THEN size - k + 1 ELSE 0
        /\ \A q \in 1 .. size - k + 1 : w[q] = text[k + q - 1]
    BY <2>3, <2>4, SubSeqProperties
  <2> HIDE DEF w
  <2>6. Len(w) = size - k + 1 /\ DOMAIN w = 1 .. size - k + 1 /\ w # <<>>
    <3>1. Len(w) = size - k + 1 /\ Len(w) # 0 /\ DOMAIN w = 1 .. Len(w)
      BY <2>3, <2>5, LenProperties
    <3>2. w # <<>>
      BY <3>1
    <3> QED
      BY <3>1, <3>2
  <2>7. ASSUME NEW p \in DOMAIN w PROVE \E q \in DOMAIN text : w[p] = text[q]
    <3>1. w[p] = text[k + p - 1] /\ k + p - 1 \in 1 .. size
      BY <2>3, <2>5, <2>6
    <3> QED
      BY <2>3, <3>1
  <2> QED
    BY <1>2, <2>2, <2>5, <2>6, <2>7
<1> QED
  BY <1>1, <1>2

\* What is not blank in the first line is where the text begins.
LEMMA TrimLeftJoin ==
    ASSUME NEW S, NEW u \in Seq(S), ~AllBlank(u), NEW x \in S, NEW v \in Seq(S)
    PROVE  TrimLeft(u \o <<x>> \o v) = TrimLeft(u) \o <<x>> \o v
<1>1. PICK k \in 1 .. Len(u) :
            u[k][2] \notin Blank /\ \A q \in 1 .. k - 1 : u[q][2] \in Blank
  BY FirstSolid
<1> DEFINE c == u \o <<x>> \o v
           tu == SubSeq(u, k, Len(u))
           tc == SubSeq(c, k, Len(c))
           d == tu \o <<x>> \o v
<1>2. /\ c \in Seq(S) /\ Len(c) = Len(u) + 1 + Len(v)
      /\ Len(u) \in Nat /\ Len(v) \in Nat
      /\ \A p \in 1 .. Len(u) : c[p] = u[p]
      /\ c[Len(u) + 1] = x
      /\ \A p \in 1 .. Len(v) : c[Len(u) + 1 + p] = v[p]
  BY Joined3
<1> HIDE DEF c
<1>3. TrimLeft(u) = tu
  BY <1>1, TrimLeftAt
<1>4. TrimLeft(c) = tc
  <2>1. k \in 1 .. Len(c) /\ c[k] = u[k] /\ \A q \in 1 .. k - 1 : c[q] = u[q]
    BY <1>2
  <2> QED
    BY <1>1, <1>2, <2>1, TrimLeftAt
<1>5. /\ tu \in Seq(S) /\ Len(tu) = Len(u) - k + 1
      /\ \A p \in 1 .. Len(u) - k + 1 : tu[p] = u[k + p - 1]
  <2>1. \A q \in k .. Len(u) : u[q] \in S
    BY <1>2
  <2>2. /\ tu \in Seq(S) /\ Len(tu) = IF k <= Len(u) THEN Len(u) - k + 1 ELSE 0
        /\ \A q \in 1 .. Len(u) - k + 1 : tu[q] = u[k + q - 1]
    BY <1>2, <2>1, SubSeqProperties
  <2> QED
    BY <2>2
<1>6. /\ tc \in Seq(S) /\ Len(tc) = Len(c) - k + 1
      /\ \A p \in 1 .. Len(c) - k + 1 : tc[p] = c[k + p - 1]
  <2>1. \A q \in k .. Len(c) : c[q] \in S
    BY <1>2
  <2>2. /\ tc \in Seq(S) /\ Len(tc) = IF k <= Len(c) THEN Len(c) - k + 1 ELSE 0
        /\ \A q \in 1 .. Len(c) - k + 1 : tc[q] = c[k + q - 1]
    BY <1>2, <2>1, SubSeqProperties
  <2> QED
    BY <1>2, <2>2
<1> HIDE DEF tu, tc
<1>7. /\ d \in Seq(S) /\ Len(d) = Len(tu) + 1 + Len(v)
      /\ \A p \in 1 .. Len(tu) : d[p] = tu[p]
      /\ d[Len(tu) + 1] = x
      /\ \A p \in 1 .. Len(v) : d[Len(tu) + 1 + p] = v[p]
  <2>1. tu \in Seq(S)
    BY <1>5
  <2> QED
    BY <2>1, Joined3
<1> HIDE DEF d
<1>8. Len(d) = Len(tc)
  BY <1>2, <1>5, <1>6, <1>7
<1>9. ASSUME NEW p \in 1 .. Len(d) PROVE d[p] = tc[p]
  <2>1. tc[p] = c[k + p - 1] /\ p \in Nat \ {0} /\ p <= Len(c) - k + 1
    BY <1>2, <1>6, <1>8
  <2> DEFINE size == Len(tu)
  <2>2. /\ p \in Int /\ k \in Int /\ size \in Int /\ Len(u) \in Int /\ Len(v) \in Int
        /\ size = Len(u) - k + 1 /\ p <= size + 1 + Len(v)
    BY <1>2, <1>5, <1>7
  <2>3. CASE p <= Len(tu)
    <3>1. p \in 1 .. Len(u) - k + 1 /\ k + p - 1 \in 1 .. Len(u) /\ p \in 1 .. Len(tu)
      BY <1>2, <1>5, <2>1, <2>3
    <3> QED
      BY <1>2, <1>5, <1>7, <2>1, <3>1
  <2>4. CASE p = Len(tu) + 1
    <3>1. k + p - 1 = Len(u) + 1
      BY <1>2, <1>5, <2>4
    <3> QED
      BY <1>2, <1>7, <2>1, <2>4, <3>1
  <2>5. CASE p > Len(tu) + 1
    <3> DEFINE q == p - (Len(tu) + 1)
    <3>1. q \in 1 .. Len(v) /\ Len(tu) + 1 + q = p /\ k + p - 1 = Len(u) + 1 + q
      <4>1. p > size + 1 /\ q = p - (size + 1)
        BY <2>5
      <4> HIDE DEF size, q
      <4>2. q \in 1 .. Len(v) /\ size + 1 + q = p /\ k + p - 1 = Len(u) + 1 + q
        BY <2>2, <4>1
      <4> QED
        BY <4>2 DEF size
    <3> HIDE DEF q
    <3> QED
      BY <1>2, <1>7, <2>1, <3>1
  <2>6. p <= size \/ p = size + 1 \/ p > size + 1
    <3> HIDE DEF size
    <3> QED
      BY <2>2
  <2> QED
    BY <2>3, <2>4, <2>5, <2>6
<1>10. d = tc
  BY <1>6, <1>7, <1>8, <1>9, SeqEqual
<1> QED
  BY <1>3, <1>4, <1>10 DEF c, d

\* f says where each line of a text starts: at the end of the one before it.
LEMMA LinesInPlace ==
    ASSUME NEW S, NEW cells \in Seq(S), NEW f,
           \A m \in DOMAIN Lines(cells) :
              f[m] = IF m = 1 THEN 1 ELSE f[m - 1] + Len(Lines(cells)[m - 1]) + 1,
           NEW n \in DOMAIN Lines(cells)
    PROVE  /\ f[n] \in Nat \ {0}
           /\ \A p \in DOMAIN Lines(cells)[n] :
                 f[n] + p - 1 \in DOMAIN cells /\ Lines(cells)[n][p] = cells[f[n] + p - 1]
<1> DEFINE lines == Lines(cells)
           From(e) == 1 + Max({0} \cup Before(cells, e))
           At(m, e) == /\ e \in Ends_(cells) /\ Cardinality(Before(cells, e)) = m - 1
                       /\ lines[m] = LineTo(cells, e) /\ f[m] = From(e)
           bad == {m \in DOMAIN lines : ~ \E e : At(m, e)}
<1>1. /\ Len(lines) \in Nat /\ DOMAIN lines = 1 .. Len(lines)
      /\ \A m \in 1 .. Len(lines) :
            \E e \in Ends_(cells) : Cardinality(Before(cells, e)) = m - 1 /\ lines[m] = LineTo(cells, e)
  <2> DEFINE T == Seq(S)
  <2>1. lines \in Seq(T)
    BY LinesAre
  <2> HIDE DEF T, lines
  <2>2. Len(lines) \in Nat /\ DOMAIN lines = 1 .. Len(lines)
    BY <2>1
  <2> QED
    BY <2>2, LinesAre DEF lines
<1>2. /\ Len(cells) \in Nat /\ Ends_(cells) \subseteq 1 .. Len(cells) + 1
      /\ Ends_(cells) \subseteq Nat /\ IsFiniteSet(Ends_(cells))
  BY EndsAre
<1>3. \A m \in 1 .. Len(lines) : f[m] = IF m = 1 THEN 1 ELSE f[m - 1] + Len(lines[m - 1]) + 1
  BY <1>1
<1>4. ASSUME NEW e \in Ends_(cells)
      PROVE  /\ From(e) \in Nat /\ From(e) > 0 /\ From(e) <= e
             /\ From(e) - 1 \in {0} \cup Ends_(cells)
             /\ \A q \in Ends_(cells) : q < e => q <= From(e) - 1
             /\ LineTo(cells, e) = SubSeq(cells, From(e), e - 1)
             /\ Len(LineTo(cells, e)) = e - From(e)
             /\ \A p \in DOMAIN LineTo(cells, e) :
                   From(e) + p - 1 \in DOMAIN cells
                   /\ LineTo(cells, e)[p] = cells[From(e) + p - 1]
  <2> DEFINE x == Max({0} \cup Before(cells, e))
             l == LineTo(cells, e)
  <2>1. x \in Nat /\ x < e /\ x \in {0} \cup Ends_(cells) /\ \A q \in Ends_(cells) : q < e => q <= x
    BY LineStart
  <2>2. l = SubSeq(cells, 1 + x, e - 1)
    BY DEF LineTo
  <2> HIDE DEF x, l
  <2> DEFINE a == 1 + x
             b == e - 1
  <2>3. e \in 1 .. Len(cells) + 1
    BY <1>2
  <2>4. a \in Int /\ b \in Int /\ a > 0 /\ b <= Len(cells) /\ a - 1 = x /\ a <= b + 1 /\ b + 1 = e
    BY <1>2, <2>1, <2>3
  <2>5. l = SubSeq(cells, a, b)
    BY <2>2
  <2> HIDE DEF a, b
  <2>6. \A p \in a .. b : cells[p] \in S /\ p \in DOMAIN cells
    BY <1>2, <2>4
  <2>7. /\ l \in Seq(S) /\ Len(l) = IF a <= b THEN b - a + 1 ELSE 0
        /\ \A p \in 1 .. b - a + 1 : l[p] = cells[a + p - 1]
    BY <2>4, <2>5, <2>6, SubSeqProperties
  <2>8. Len(l) = e - a
    BY <1>2, <2>3, <2>4, <2>7
  <2>9. ASSUME NEW p \in DOMAIN l PROVE a + p - 1 \in DOMAIN cells /\ l[p] = cells[a + p - 1]
    <3>1. p \in 1 .. b - a + 1
      BY <2>4, <2>7
    <3>2. a + p - 1 \in a .. b
      BY <2>4, <3>1
    <3> QED
      BY <2>6, <2>7, <3>1, <3>2
  <2>10. From(e) = a
    BY DEF a, x
  <2>11. a \in Nat /\ a <= e
    BY <1>2, <2>1, <2>3 DEF a
  <2> HIDE DEF From
  <2>12. LineTo(cells, e) = l /\ \A q \in Ends_(cells) : q < e => q <= a - 1
    BY <2>1, <2>4 DEF l
  <2>13. a - 1 \in {0} \cup Ends_(cells) /\ e - 1 = b
    BY <2>1, <2>4 DEF b
  <2> QED
    BY <2>4, <2>5, <2>8, <2>9, <2>10, <2>11, <2>12, <2>13
<1>5. bad = {}
  <2> SUFFICES ASSUME bad # {} PROVE FALSE
    OBVIOUS
  <2>1. PICK m \in bad : \A l \in bad : m <= l
    <3>1. bad \subseteq Nat
      BY <1>1
    <3> HIDE DEF bad
    <3> QED
      BY <3>1, Least
  <2>2. m \in 1 .. Len(lines) /\ m \in Nat
    BY <1>1, <2>1
  <2>3. PICK e \in Ends_(cells) : Cardinality(Before(cells, e)) = m - 1 /\ lines[m] = LineTo(cells, e)
    BY <1>1, <2>2
  <2>4. SUFFICES f[m] = From(e)
    BY <2>1, <2>3
  <2> DEFINE x == From(e) - 1
             B == Before(cells, e)
  <2>5. /\ From(e) \in Nat /\ From(e) > 0 /\ From(e) <= e /\ x \in {0} \cup Ends_(cells)
        /\ \A q \in Ends_(cells) : q < e => q <= x
    BY <1>4
  <2>6. B \subseteq Ends_(cells) /\ IsFiniteSet(B)
    <3>1. B \subseteq Ends_(cells)
      BY DEF Before
    <3> HIDE DEF B
    <3> QED
      BY <1>2, <3>1, FS_Subset
  <2>7. CASE m = 1
    <3>1. B = {}
      <4>1. Cardinality(B) = 0
        BY <2>3, <2>7
      <4> HIDE DEF B
      <4> QED
        BY <2>6, <4>1, FS_EmptySet
    <3>2. x \notin Ends_(cells)
      <4>1. x \in Ends_(cells) => x \in B
        BY <1>2, <2>5 DEF Before
      <4> QED
        BY <3>1, <4>1
    <3>3. x = 0
      BY <2>5, <3>2
    <3> QED
      BY <1>3, <2>2, <2>5, <2>7, <3>3
  <2>8. CASE m # 1
    <3> DEFINE l == m - 1
    <3>1. l \in 1 .. Len(lines) /\ l < m /\ l \in DOMAIN lines
      BY <1>1, <2>2, <2>8
    <3> HIDE DEF l
    <3>2. PICK o : At(l, o)
      <4>1. l \notin bad
        <5> HIDE DEF bad
        <5> QED
          BY <2>1, <2>2, <3>1
      <4> QED
        BY <3>1, <4>1
    <3>3. x \in B /\ x \in Ends_(cells)
      <4>1. Cardinality(B) # 0
        BY <2>2, <2>3, <2>8
      <4>2. B # {}
        <5> HIDE DEF B
        <5> QED
          BY <4>1, FS_EmptySet
      <4>3. PICK q \in B : TRUE
        BY <4>2
      <4>4. q \in Ends_(cells) /\ q < e /\ q \in Nat /\ q # 0
        BY <1>2, <4>3 DEF Before
      <4>5. x # 0
        <5>1. q <= x
          BY <2>5, <4>4
        <5> HIDE DEF x
        <5> QED
          BY <4>4, <5>1
      <4> QED
        BY <1>2, <2>5, <4>5 DEF Before
    <3> HIDE DEF x
    <3>4. Before(cells, x) = B \ {x}
      <4>1. e \in Nat /\ x \in Nat /\ x < e
        BY <1>2, <3>3 DEF Before
      <4>2. \A q \in Ends_(cells) : q < x <=> (q < e /\ q # x)
        <5> SUFFICES ASSUME NEW q \in Ends_(cells) PROVE q < x <=> (q < e /\ q # x)
          OBVIOUS
        <5>1. q \in Nat /\ (q < e => q <= x)
          BY <1>2, <2>5 DEF x
        <5> QED
          BY <4>1, <5>1
      <4> QED
        BY <4>2 DEF Before
    <3>5. Cardinality(B \ {x}) = m - 2
      <4> HIDE DEF B
      <4>1. Cardinality(B \ {x}) = Cardinality(B) - 1
        BY <2>6, <3>3, FS_RemoveElement
      <4>2. Cardinality(B) = m - 1
        BY <2>3 DEF B
      <4> QED
        BY <2>2, <4>1, <4>2
    <3>6. o = x
      <4>1. Cardinality(Before(cells, o)) = Cardinality(Before(cells, x))
        <5>1. l - 1 = m - 2
          BY <2>2 DEF l
        <5> QED
          BY <3>2, <3>4, <3>5, <5>1
      <4>2. Cardinality({q \in Ends_(cells) : q < o}) = Cardinality({q \in Ends_(cells) : q < x})
        BY <4>1 DEF Before
      <4> QED
        BY <1>2, <3>2, <3>3, <4>2, NthUnique
    <3>7. /\ f[l] = From(x) /\ Len(lines[l]) = x - From(x) /\ From(x) \in Nat /\ x \in Nat
      <4>1. o \in Ends_(cells) /\ lines[l] = LineTo(cells, o) /\ f[l] = From(o)
        BY <3>2
      <4>2. Len(LineTo(cells, o)) = o - From(o) /\ From(o) \in Nat /\ o \in Nat
        BY <1>2, <1>4, <4>1
      <4> HIDE DEF From, lines
      <4> QED
        BY <3>6, <4>1, <4>2
    <3>8. f[m] = f[l] + Len(lines[l]) + 1
      BY <1>3, <2>2, <2>8 DEF l
    <3>9. f[m] = x + 1
      <4> HIDE DEF From, lines
      <4> QED
        BY <3>7, <3>8
    <3>10. x + 1 = From(e)
      <4> HIDE DEF From
      <4> QED
        BY <2>5 DEF x
    <3> QED
      BY <3>9, <3>10
  <2> QED
    BY <2>7, <2>8
<1>6. PICK e : At(n, e)
  BY <1>5
<1>7. e \in Ends_(cells) /\ lines[n] = LineTo(cells, e) /\ f[n] = From(e)
  BY <1>6
<1>8. /\ From(e) \in Nat /\ From(e) > 0
      /\ \A p \in DOMAIN LineTo(cells, e) :
            From(e) + p - 1 \in DOMAIN cells /\ LineTo(cells, e)[p] = cells[From(e) + p - 1]
  BY <1>4, <1>7
<1> HIDE DEF From
<1> QED
  BY <1>7, <1>8
=============================================================================
