---------------------------- MODULE SequenceLemmas ----------------------------
(***************************************************************************)
(* Facts about sequences that need induction, for the proofs of the other  *)
(* modules: what flattening a sequence of sequences and adding up a        *)
(* sequence of numbers mean, which the library defines by recursion.       *)
(* Induction is over the least number of a set, from the well-foundedness  *)
(* of the natural numbers.                                                 *)
(***************************************************************************)
EXTENDS Integers, SequencesExt, SequenceTheorems, WellFoundedInduction, TLAPS

\* A set of natural numbers has a least one.
LEMMA LeastNumber ==
  ASSUME NEW T \in SUBSET Nat, T # {}
  PROVE  \E m \in T : \A k \in T : m <= k
  <1> DEFINE R == OpToRel(<, Nat)
  <1>1. IsWellFoundedOn(R, Nat)
    BY NatLessThanWellFounded
  <1>2. \E x \in T : \A y \in T : ~ (<<y, x>> \in R)
    <2> HIDE DEF R
    <2> QED BY <1>1, WFMin
  <1>3. \A x \in T, y \in T : y < x => <<y, x>> \in R
    BY DEF OpToRel
  <1>4. PICK x \in T : \A y \in T : ~ (<<y, x>> \in R)
    BY <1>2
  <1>5. \A y \in T : ~ (y < x)
    BY <1>3, <1>4
  <1>6. \A y \in T : x <= y
    BY SMT, <1>5
  <1> QED BY <1>6

\* Induction, with the statement as a set: the numbers it holds for.
LEMMA InductionOnSet ==
  ASSUME NEW T \in SUBSET Nat, 0 \in T, \A n \in T : n + 1 \in T
  PROVE  T = Nat
  <1> SUFFICES ASSUME Nat \ T # {} PROVE FALSE
    OBVIOUS
  <1>1. PICK m \in Nat \ T : \A k \in Nat \ T : m <= k
    BY LeastNumber
  <1>2. m # 0 /\ m - 1 \in Nat /\ m - 1 \notin Nat \ T
    BY SMT, <1>1
  <1>3. (m - 1) + 1 \in T
    BY <1>2
  <1> QED BY SMT, <1>1, <1>3

\* A sequence is what it begins with and what it ends with.
LEMMA Split ==
  ASSUME NEW S, NEW s \in Seq(S), NEW k \in 0..Len(s)
  PROVE  /\ SubSeq(s, 1, k) \in Seq(S) /\ Len(SubSeq(s, 1, k)) = k
         /\ SubSeq(s, k + 1, Len(s)) \in Seq(S) /\ Len(SubSeq(s, k + 1, Len(s))) = Len(s) - k
         /\ s = SubSeq(s, 1, k) \o SubSeq(s, k + 1, Len(s))
  <1> DEFINE l == Len(s)   a == SubSeq(s, 1, k)   b == SubSeq(s, k + 1, l)
  <1>1. l \in Nat /\ k \in Nat /\ k <= l /\ l - k \in Nat
    BY SMT
  <1>2. a \in Seq(S) /\ Len(a) = k /\ \A i \in 1..k : a[i] = s[i]
    BY SMT, <1>1
  <1>3. b \in Seq(S) /\ Len(b) = l - k /\ \A i \in 1..(l - k) : b[i] = s[k + i]
    BY SMT, <1>1
  <1> HIDE DEF a, b
  <1>4. a \o b \in Seq(S) /\ Len(a \o b) = l
    BY SMT, <1>1, <1>2, <1>3
  <1>5. \A i \in 1..l : (a \o b)[i] = IF i <= k THEN a[i] ELSE b[i - k]
    BY SMT, <1>1, <1>2, <1>3
  <1>6. ASSUME NEW i \in 1..l PROVE (a \o b)[i] = s[i]
    <2>1. CASE i <= k
      <3>1. i \in 1..k
        BY SMT, <2>1
      <3> QED BY <1>2, <1>5, <2>1, <3>1
    <2>2. CASE ~(i <= k)
      <3>1. i - k \in 1..(l - k) /\ k + (i - k) = i
        BY SMT, <1>1, <2>2
      <3> QED BY <1>3, <1>5, <2>2, <3>1
    <2> QED BY <2>1, <2>2
  <1>7. s = a \o b
    <2> DEFINE t == a \o b
    <2>1. t \in Seq(S) /\ Len(t) = Len(s) /\ \A i \in 1..Len(s) : t[i] = s[i]
      BY <1>4, <1>6
    <2> HIDE DEF t, l
    <2>2. t = s
      BY SMT, <2>1
    <2> QED BY <2>2 DEF t
  <1> QED BY <1>2, <1>3, <1>7 DEF a, b

\* f joins the sequences of s one by one.
Joins(f, s, n) == f = [i \in 1..n |-> IF i = 1 THEN s[i] ELSE f[i-1] \o s[i]]

\* There is such an f, and only one, on as many sequences as two of them share.
LEMMA JoinExists ==
  ASSUME NEW s
  PROVE  \A n \in Nat : \E f : Joins(f, s, n)
  <1> DEFINE T == {n \in Nat : \E f : Joins(f, s, n)}
  <1>1. 0 \in T
    <2> DEFINE f == [i \in 1..0 |-> <<>>]
    <2>1. f = [i \in 1..0 |-> IF i = 1 THEN s[i] ELSE f[i-1] \o s[i]]
      BY SMT
    <2>2. Joins(f, s, 0)
      BY <2>1 DEF Joins
    <2> QED BY <2>2
  <1>2. ASSUME NEW n \in T PROVE n + 1 \in T
    <2>1. PICK f : Joins(f, s, n)
      OBVIOUS
    <2> DEFINE step == IF n = 0 THEN s[1] ELSE f[n] \o s[n + 1]
               g == [i \in 1..(n + 1) |-> IF i = n + 1 THEN step ELSE f[i]]
    <2>2. ASSUME NEW i \in 1..(n + 1)
          PROVE  g[i] = IF i = 1 THEN s[i] ELSE g[i-1] \o s[i]
      <3>1. CASE i = n + 1 /\ n = 0
        BY SMT, <3>1
      <3>2. CASE i = n + 1 /\ n # 0
        <4>1. i - 1 \in 1..(n + 1) /\ i - 1 # n + 1 /\ i - 1 = n /\ i # 1
          BY SMT, <3>2
        <4>2. g[i - 1] = f[n]
          BY <4>1
        <4>3. g[i] = f[n] \o s[n + 1]
          BY <3>2
        <4> QED BY <3>2, <4>1, <4>2, <4>3
      <3>3. CASE i # n + 1
        <4>1. i \in 1..n /\ (i # 1 => i - 1 \in 1..(n + 1) /\ i - 1 # n + 1)
          BY SMT, <3>3
        <4>2. g[i] = f[i] /\ (i # 1 => g[i-1] = f[i-1])
          BY <3>3, <4>1
        <4>3. f[i] = IF i = 1 THEN s[i] ELSE f[i-1] \o s[i]
          BY <2>1, <4>1 DEF Joins
        <4> QED BY <4>2, <4>3
      <3> QED BY <3>1, <3>2, <3>3
    <2>3. g = [i \in 1..(n + 1) |-> IF i = 1 THEN s[i] ELSE g[i-1] \o s[i]]
      <3> HIDE DEF step
      <3>1. g = [i \in 1..(n + 1) |-> g[i]]
        OBVIOUS
      <3> HIDE DEF g
      <3> QED BY <2>2, <3>1
    <2>4. Joins(g, s, n + 1)
      BY <2>3 DEF Joins
    <2> QED BY <2>4
  <1>3. T = Nat
    <2> HIDE DEF T
    <2>1. T \in SUBSET Nat
      BY DEF T
    <2> QED BY <1>1, <1>2, <2>1, InductionOnSet
  <1> QED BY <1>3

LEMMA JoinIsUnique ==
  ASSUME NEW s, NEW t, NEW m \in Nat, NEW n \in Nat, NEW f, NEW g, Joins(f, s, m), Joins(g, t, n),
         m <= n, \A i \in 1..m : s[i] = t[i]
  PROVE  \A i \in 1..m : f[i] = g[i]
  <1> DEFINE T == {k \in Nat : k \in 1..m => f[k] = g[k]}
  <1>1. 0 \in T
    BY SMT
  <1>2. ASSUME NEW k \in T PROVE k + 1 \in T
    <2> SUFFICES ASSUME k + 1 \in 1..m PROVE f[k + 1] = g[k + 1]
      BY SMT
    <2>1. k + 1 \in 1..n /\ s[k + 1] = t[k + 1]
      BY SMT
    <2>2. /\ f[k + 1] = IF k + 1 = 1 THEN s[k + 1] ELSE f[(k + 1) - 1] \o s[k + 1]
          /\ g[k + 1] = IF k + 1 = 1 THEN t[k + 1] ELSE g[(k + 1) - 1] \o t[k + 1]
      BY <2>1, Zenon DEF Joins
    <2>3. (k + 1) - 1 = k /\ (k + 1 # 1 => k \in 1..m)
      BY SMT
    <2> QED BY <2>1, <2>2, <2>3
  <1>3. T = Nat
    <2> HIDE DEF T
    <2>1. T \in SUBSET Nat
      BY DEF T
    <2> QED BY <1>1, <1>2, <2>1, InductionOnSet
  <1> QED BY <1>3

\* The library's flattening is the last of the joined sequences.
LEMMA FlattenIsJoin ==
  ASSUME NEW S, NEW s \in Seq(S), Len(s) > 0, NEW f, Joins(f, s, Len(s))
  PROVE  FlattenSeq(s) = f[Len(s)]
  <1> DEFINE g == CHOOSE g : g = [i \in 1..Len(s) |-> IF i = 1 THEN s[i] ELSE g[i-1] \o s[i]]
  <1>1. Joins(g, s, Len(s))
    <2>1. \E h : h = [i \in 1..Len(s) |-> IF i = 1 THEN s[i] ELSE h[i-1] \o s[i]]
      BY DEF Joins
    <2>2. g = [i \in 1..Len(s) |-> IF i = 1 THEN s[i] ELSE g[i-1] \o s[i]]
      BY <2>1, Zenon
    <2> HIDE DEF g
    <2> QED BY <2>2 DEF Joins
  <1>2. FlattenSeq(s) = g[Len(s)]
    <2>1. Len(s) # 0
      BY SMT
    <2> QED BY <2>1, Zenon DEF FlattenSeq
  <1>3. Len(s) \in Nat /\ Len(s) \in 1..Len(s) /\ Len(s) <= Len(s)
    BY SMT
  <1>4. g[Len(s)] = f[Len(s)]
    <2> HIDE DEF g
    <2> QED BY <1>1, <1>3, JoinIsUnique
  <1> QED BY <1>2, <1>4

LEMMA FlattenOfNone == ASSUME NEW s, s = <<>> PROVE FlattenSeq(s) = <<>>
  <1>1. Len(s) = 0
    OBVIOUS
  <1> QED BY <1>1 DEF FlattenSeq

\* The last sequence comes last.
LEMMA FlattenAppends ==
  ASSUME NEW S, NEW s \in Seq(Seq(S)), NEW x \in Seq(S)
  PROVE  FlattenSeq(Append(s, x)) = FlattenSeq(s) \o x
  <1> DEFINE t == Append(s, x)   n == Len(s)
  <1>1. /\ t \in Seq(Seq(S)) /\ Len(t) = n + 1 /\ t[n + 1] = x /\ n \in Nat /\ Len(t) \in Nat
        /\ \A i \in 1..n : s[i] = t[i]
    OBVIOUS
  <1>2. PICK g : Joins(g, t, n + 1)
    BY <1>1, JoinExists
  <1>3. FlattenSeq(t) = g[n + 1]
    <2> HIDE DEF t
    <2>1. Len(t) > 0 /\ Joins(g, t, Len(t))
      BY <1>1, <1>2
    <2> QED BY <1>1, <2>1, FlattenIsJoin
  <1>4. g[n + 1] = IF n + 1 = 1 THEN t[n + 1] ELSE g[(n + 1) - 1] \o t[n + 1]
    <2> HIDE DEF t
    <2>1. n + 1 \in 1..(n + 1)
      BY <1>1
    <2> QED BY <1>2, <2>1, Zenon DEF Joins
  <1>5. CASE n = 0
    <2>1. s = <<>>
      BY <1>5
    <2>2. <<>> \o x = x
      OBVIOUS
    <2>3. FlattenSeq(t) = x
      <3> HIDE DEF t
      <3> QED BY <1>1, <1>3, <1>4, <1>5
    <2> QED BY <2>1, <2>2, <2>3, FlattenOfNone
  <1>6. CASE n # 0
    <2>1. PICK f : Joins(f, s, n)
      BY <1>1, JoinExists
    <2>2. n > 0 /\ n \in 1..n /\ n <= n + 1 /\ (n + 1) - 1 = n /\ n + 1 # 1
      BY <1>1, <1>6
    <2>3. FlattenSeq(s) = f[n]
      BY <2>1, <2>2, FlattenIsJoin
    <2>4. f[n] = g[n]
      <3> HIDE DEF t
      <3>1. n \in Nat /\ n + 1 \in Nat /\ \A i \in 1..n : s[i] = t[i]
        BY <1>1
      <3> HIDE DEF n
      <3>2. \A i \in 1..n : f[i] = g[i]
        BY <1>2, <2>1, <2>2, <3>1, JoinIsUnique
      <3> QED BY <2>2, <3>2
    <2> HIDE DEF t
    <2>5. FlattenSeq(t) = FlattenSeq(s) \o x
      BY <1>1, <1>3, <1>4, <2>2, <2>3, <2>4
    <2> QED BY <2>5 DEF t
  <1> QED BY <1>5, <1>6

LEMMA FlattenIsSequence ==
  ASSUME NEW S
  PROVE  \A s \in Seq(Seq(S)) : FlattenSeq(s) \in Seq(S)
  <1> DEFINE Q(s) == FlattenSeq(s) \in Seq(S)
             T == {n \in Nat : \A s \in Seq(Seq(S)) : Len(s) = n => Q(s)}
  <1>1. 0 \in T
    <2>1. ASSUME NEW s \in Seq(Seq(S)), Len(s) = 0 PROVE Q(s)
      <3>1. s = <<>> /\ <<>> \in Seq(S)
        BY <2>1
      <3> QED BY <3>1, FlattenOfNone
    <2> QED BY <2>1
  <1>2. ASSUME NEW n \in T PROVE n + 1 \in T
    <2>1. ASSUME NEW s \in Seq(Seq(S)), Len(s) = n + 1 PROVE Q(s)
      <3> DEFINE t == SubSeq(s, 1, n)
      <3>1. /\ t \in Seq(Seq(S)) /\ Len(t) = n /\ s[n + 1] \in Seq(S)
            /\ s = Append(t, s[n + 1])
        BY SMT, <2>1
      <3>2. FlattenSeq(t) \in Seq(S)
        BY <3>1
      <3> HIDE DEF t
      <3>3. FlattenSeq(s) = FlattenSeq(t) \o s[n + 1]
        BY <3>1, FlattenAppends
      <3> QED BY <3>1, <3>2, <3>3
    <2> QED BY <2>1
  <1>3. T = Nat
    <2> HIDE DEF T
    <2>1. T \in SUBSET Nat
      BY DEF T
    <2> QED BY <1>1, <1>2, <2>1, InductionOnSet
  <1>4. ASSUME NEW s \in Seq(Seq(S)) PROVE Q(s)
    <2>1. Len(s) \in T
      BY <1>3
    <2> QED BY <2>1
  <1> QED BY <1>4

\* Joining what two parts join is joining the whole.
LEMMA FlattenConcatenates ==
  ASSUME NEW S, NEW s \in Seq(Seq(S))
  PROVE  \A t \in Seq(Seq(S)) : FlattenSeq(s \o t) = FlattenSeq(s) \o FlattenSeq(t)
  <1> DEFINE Q(t) == FlattenSeq(s \o t) = FlattenSeq(s) \o FlattenSeq(t)
             T == {n \in Nat : \A t \in Seq(Seq(S)) : Len(t) = n => Q(t)}
  <1>0. FlattenSeq(s) \in Seq(S)
    BY FlattenIsSequence
  <1>1. 0 \in T
    <2>1. ASSUME NEW t \in Seq(Seq(S)), Len(t) = 0 PROVE Q(t)
      <3>1. t = <<>> /\ s \o <<>> = s /\ FlattenSeq(s) \o <<>> = FlattenSeq(s)
        BY <1>0, <2>1
      <3> QED BY <3>1, FlattenOfNone
    <2> QED BY <2>1
  <1>2. ASSUME NEW n \in T PROVE n + 1 \in T
    <2>1. ASSUME NEW t \in Seq(Seq(S)), Len(t) = n + 1 PROVE Q(t)
      <3> DEFINE u == SubSeq(t, 1, n)   x == t[n + 1]
      <3>1. u \in Seq(Seq(S)) /\ Len(u) = n /\ x \in Seq(S) /\ t = Append(u, x)
        BY SMT, <2>1
      <3>2. Q(u)
        BY <3>1
      <3> HIDE DEF u, x
      <3>3. s \o t = Append(s \o u, x) /\ s \o u \in Seq(Seq(S))
        BY <3>1
      <3>4. FlattenSeq(s \o t) = FlattenSeq(s \o u) \o x /\ FlattenSeq(t) = FlattenSeq(u) \o x
        <4>1. FlattenSeq(t) = FlattenSeq(u) \o x
          BY <3>1, FlattenAppends
        <4> DEFINE v == s \o u
        <4>2. v \in Seq(Seq(S)) /\ s \o t = Append(v, x)
          BY <3>3
        <4> HIDE DEF v
        <4>3. FlattenSeq(Append(v, x)) = FlattenSeq(v) \o x
          BY <3>1, <4>2, FlattenAppends
        <4> QED BY Zenon, <4>1, <4>2, <4>3 DEF v
      <3>5. FlattenSeq(u) \in Seq(S)
        BY <3>1, FlattenIsSequence
      <3>6. (FlattenSeq(s) \o FlattenSeq(u)) \o x = FlattenSeq(s) \o (FlattenSeq(u) \o x)
        <4>1. /\ FlattenSeq(s) \in Seq(S) /\ FlattenSeq(u) \in Seq(S) /\ x \in Seq(S)
          BY <1>0, <3>1, <3>5
        <4> DEFINE a == FlattenSeq(s)   b == FlattenSeq(u)
        <4> HIDE DEF a, b
        <4>2. (a \o b) \o x = a \o (b \o x)
          <5>1. a \in Seq(S) /\ b \in Seq(S) /\ x \in Seq(S)
            BY Zenon, <4>1 DEF a, b
          <5> QED BY SMTT(30), <5>1, ConcatAssociative
        <4> QED BY Zenon, <4>2 DEF a, b
      <3> QED BY <3>2, <3>4, <3>6
    <2> QED BY <2>1
  <1>3. T = Nat
    <2> HIDE DEF T
    <2>1. T \in SUBSET Nat
      BY DEF T
    <2> QED BY <1>1, <1>2, <2>1, InductionOnSet
  <1>4. ASSUME NEW t \in Seq(Seq(S)) PROVE Q(t)
    <2>1. Len(t) \in T
      BY <1>3
    <2> QED BY <2>1
  <1> QED BY <1>4

LEMMA FlattenOfOne ==
  ASSUME NEW S, NEW x \in Seq(S)
  PROVE  FlattenSeq(<<x>>) = x
  <1>1. <<x>> = Append(<<>>, x) /\ <<>> \in Seq(Seq(S)) /\ <<>> \o x = x
    OBVIOUS
  <1> QED BY <1>1, FlattenAppends, FlattenOfNone

\* The first sequence comes first.
LEMMA FlattenBegins ==
  ASSUME NEW S, NEW s \in Seq(Seq(S)), Len(s) > 0
  PROVE  FlattenSeq(s) = s[1] \o FlattenSeq(Tail(s))
  <1>1. /\ s[1] \in Seq(S) /\ Tail(s) \in Seq(Seq(S)) /\ <<s[1]>> \in Seq(Seq(S))
        /\ s = <<s[1]>> \o Tail(s)
    BY SMT
  <1>2. FlattenSeq(<<s[1]>>) = s[1]
    BY <1>1, FlattenOfOne
  <1>3. FlattenSeq(<<s[1]>> \o Tail(s)) = FlattenSeq(<<s[1]>>) \o FlattenSeq(Tail(s))
    BY <1>1, FlattenConcatenates
  <1> QED BY <1>1, <1>2, <1>3
-----------------------------------------------------------------------------
(***************************************************************************)
(* Folding a sequence.  The library folds over the sets of indices, taking *)
(* the greatest of a set last; sets of the first indices are all it comes  *)
(* to.                                                                     *)
(***************************************************************************)

\* The greatest of a set that has the number behind the first n, and others of
\* those at most.
LEMMA MaxOfFirst ==
  ASSUME NEW n \in Nat, NEW t \in SUBSET (1..(n + 1)), n + 1 \in t
  PROVE  Max(t) = n + 1 /\ t \ {Max(t)} \in SUBSET (1..n)
  <1>1. \A y \in t : y \in 1..(n + 1)
    OBVIOUS
  <1>2. \A y \in t : n + 1 >= y
    BY SMT, <1>1
  <1>3. \A x \in t : (\A y \in t : x >= y) => x = n + 1
    BY SMT, <1>1, <1>2
  <1>4. Max(t) \in t /\ \A y \in t : Max(t) >= y
    BY <1>2 DEF Max
  <1>5. Max(t) = n + 1
    BY <1>3, <1>4
  <1>6. \A y \in t : y # n + 1 => y \in 1..n
    BY SMT, <1>1
  <1> QED BY <1>5, <1>6

\* f folds the sets of the first n indices with g, from base.
Folds(f, g, base, n) ==
  f = [t \in SUBSET (1..n) |-> IF t = {} THEN base ELSE g[<<f[t \ {Max(t)}], Max(t)>>]]

LEMMA FoldExists ==
  ASSUME NEW D, NEW base \in D, NEW m \in Nat, NEW g \in [D \X (1..m) -> D]
  PROVE  \E f \in [SUBSET (1..m) -> D] : Folds(f, g, base, m)
  <1> DEFINE T == {n \in Nat : n <= m => \E f \in [SUBSET (1..n) -> D] : Folds(f, g, base, n)}
  <1>1. 0 \in T
    <2> DEFINE f == [t \in SUBSET (1..0) |-> base]
    <2>1. \A t \in SUBSET (1..0) : t = {}
      BY SMT
    <2>2. f = [t \in SUBSET (1..0) |-> IF t = {} THEN base ELSE g[<<f[t \ {Max(t)}], Max(t)>>]]
      BY <2>1
    <2>3. Folds(f, g, base, 0) /\ f \in [SUBSET (1..0) -> D]
      BY <2>2, Zenon DEF Folds
    <2> QED BY <2>3
  <1>2. ASSUME NEW n \in T PROVE n + 1 \in T
    <2> SUFFICES ASSUME n + 1 <= m
                 PROVE  \E h \in [SUBSET (1..(n + 1)) -> D] : Folds(h, g, base, n + 1)
      <3>1. n + 1 \in Nat
        OBVIOUS
      <3> QED BY <3>1
    <2>0. n <= m /\ n + 1 \in 1..m
      BY SMT
    <2>1. PICK f \in [SUBSET (1..n) -> D] : Folds(f, g, base, n)
      BY <2>0
    <2> DEFINE E == SUBSET (1..(n + 1))
               h == [t \in E |-> IF n + 1 \in t THEN g[<<f[t \ {n + 1}], n + 1>>] ELSE f[t]]
    <2>2. ASSUME NEW t \in E
          PROVE  h[t] \in D /\ h[t] = IF t = {} THEN base ELSE g[<<h[t \ {Max(t)}], Max(t)>>]
      <3>1. CASE n + 1 \in t
        <4>1. Max(t) = n + 1 /\ t \ {Max(t)} \in SUBSET (1..n) /\ t # {}
          BY <3>1, MaxOfFirst
        <4>2. n + 1 \notin t \ {n + 1} /\ t \ {n + 1} \in E
          OBVIOUS
        <4>3. h[t \ {n + 1}] = f[t \ {n + 1}]
          BY <4>2
        <4>4. h[t] = g[<<f[t \ {n + 1}], n + 1>>]
          BY <3>1
        <4>5. f[t \ {n + 1}] \in D
          BY <2>1, <4>1
        <4>6. g[<<f[t \ {n + 1}], n + 1>>] \in D
          BY <2>0, <4>5
        <4> HIDE DEF h
        <4> QED BY <4>1, <4>3, <4>4, <4>6
      <3>2. CASE n + 1 \notin t
        <4>1. \A y \in 1..(n + 1) : y # n + 1 => y \in 1..n
          BY SMT
        <4>2. t \in SUBSET (1..n) /\ t \ {Max(t)} \in SUBSET (1..n) /\ n + 1 \notin t \ {Max(t)}
              /\ t \ {Max(t)} \in E
          BY <3>2, <4>1
        <4>3. h[t] = f[t] /\ h[t \ {Max(t)}] = f[t \ {Max(t)}]
          BY <3>2, <4>2
        <4>4. f[t] = IF t = {} THEN base ELSE g[<<f[t \ {Max(t)}], Max(t)>>]
          BY <2>1, <4>2, Zenon DEF Folds
        <4>5. f[t] \in D
          BY <2>1, <4>2
        <4> HIDE DEF h
        <4> QED BY <4>3, <4>4, <4>5
      <3> QED BY <3>1, <3>2
    <2>3. h = [t \in E |-> IF t = {} THEN base ELSE g[<<h[t \ {Max(t)}], Max(t)>>]]
      <3>1. h = [t \in E |-> h[t]]
        OBVIOUS
      <3> HIDE DEF h, E
      <3> QED BY <2>2, <3>1
    <2>4. Folds(h, g, base, n + 1)
      BY <2>3, Zenon DEF Folds
    <2>5. h \in [E -> D]
      <3>1. h = [t \in E |-> h[t]]
        OBVIOUS
      <3> HIDE DEF h, E
      <3> QED BY <2>2, <3>1
    <2> HIDE DEF h
    <2> QED BY <2>4, <2>5
  <1>3. T = Nat
    <2> HIDE DEF T
    <2>1. T \in SUBSET Nat
      BY DEF T
    <2> QED BY <1>1, <1>2, <2>1, InductionOnSet
  <1>4. m \in T
    BY <1>3
  <1>5. m <= m
    BY SMT
  <1> QED BY <1>4, <1>5

\* The greatest of a set of indices is one of them.
LEMMA MaxOfSome ==
  ASSUME NEW n \in Nat, NEW t \in SUBSET (1..n), t # {}
  PROVE  Max(t) \in t
  <1> DEFINE U == {n - y : y \in t}
  <1>1. U \in SUBSET Nat /\ U # {}
    <2>1. \A y \in t : y \in 1..n
      OBVIOUS
    <2>2. \A y \in t : n - y \in Nat
      BY SMT, <2>1
    <2> QED BY <2>2
  <1>2. PICK m \in U : \A k \in U : m <= k
    <2> HIDE DEF U
    <2> QED BY <1>1, LeastNumber
  <1>3. PICK x \in t : m = n - x
    OBVIOUS
  <1>4. \A y \in t : n - y \in U
    OBVIOUS
  <1>5. \A y \in t : x >= y
    <2> HIDE DEF U
    <2>1. \A y \in t : y \in 1..n
      OBVIOUS
    <2> QED BY SMT, <1>2, <1>3, <1>4, <2>1
  <1> QED BY <1>5 DEF Max

LEMMA FirstWithoutMax ==
  ASSUME NEW k \in Nat \ {0}
  PROVE  Max(1..k) = k /\ (1..k) \ {Max(1..k)} = 1..(k - 1) /\ 1..k # {}
  <1>1. k - 1 \in Nat /\ (k - 1) + 1 = k /\ k \in 1..k
    BY SMT
  <1>2. 1..k \in SUBSET (1..((k - 1) + 1)) /\ (k - 1) + 1 \in 1..k
    BY <1>1
  <1>3. Max(1..k) = (k - 1) + 1
    <2> DEFINE j == k - 1   t == 1..k
    <2> HIDE DEF j, t
    <2>1. j \in Nat /\ t \in SUBSET (1..(j + 1)) /\ j + 1 \in t
      BY <1>1, <1>2 DEF j, t
    <2>2. Max(t) = j + 1
      BY <2>1, MaxOfFirst
    <2> QED BY <2>2 DEF j, t
  <1>4. (1..k) \ {k} = 1..(k - 1)
    BY SMT
  <1> QED BY <1>1, <1>3, <1>4

\* What follows index by index for the first indices is so for all.
FoldFollows(f, r, n) ==
  f[{}] = r[0] /\ \A k \in 1..n : f[1..(k - 1)] = r[k - 1] => f[1..k] = r[k]

LEMMA FoldIs ==
  ASSUME NEW n \in Nat, NEW f, NEW r, FoldFollows(f, r, n)
  PROVE  f[1..n] = r[n]
  <1> USE DEF FoldFollows
  <1> DEFINE T == {k \in Nat : k \in 0..n => f[1..k] = r[k]}
  <1>1. 0 \in T
    <2>1. 1..0 = {}
      BY SMT
    <2> QED BY <2>1
  <1>2. ASSUME NEW k \in T PROVE k + 1 \in T
    <2> SUFFICES ASSUME k + 1 \in 0..n PROVE f[1..(k + 1)] = r[k + 1]
      BY SMT
    <2>1. k \in 0..n /\ k + 1 \in 1..n /\ (k + 1) - 1 = k
      BY SMT
    <2> QED BY <2>1
  <1>3. T = Nat
    <2> HIDE DEF T
    <2>1. T \in SUBSET Nat
      BY DEF T
    <2> QED BY <1>1, <1>2, <2>1, InductionOnSet
  <1>4. n \in T /\ n \in 0..n
    BY <1>3
  <1> QED BY <1>4

\* Sums.
LEMMA SumIs ==
  ASSUME NEW s \in Seq(Int), NEW r \in [0..Len(s) -> Int], r[0] = 0,
         \A k \in 1..Len(s) : r[k] = r[k - 1] + s[k]
  PROVE  FoldLeft(+, 0, s) = r[Len(s)]
  <1> DEFINE n == Len(s)
             F(f) == f = [t \in SUBSET DOMAIN s |-> IF t = {} THEN 0 ELSE f[t \ {Max(t)}] + s[Max(t)]]
             f == CHOOSE f : F(f)
             g == [p \in Int \X (1..n) |-> p[1] + s[p[2]]]
  <1>1. n \in Nat /\ DOMAIN s = 1..n /\ 0 \in Int
    OBVIOUS
  <1>2. \E x : F(x)
    <2>1. g \in [Int \X (1..n) -> Int]
      BY SMT
    <2>2. PICK x \in [SUBSET (1..n) -> Int] : Folds(x, g, 0, n)
      <3> HIDE DEF g, n
      <3> QED BY <1>1, <2>1, FoldExists
    <2>3. ASSUME NEW t \in SUBSET (1..n), t # {}
          PROVE  g[<<x[t \ {Max(t)}], Max(t)>>] = x[t \ {Max(t)}] + s[Max(t)]
      <3>1. Max(t) \in 1..n
        BY <1>1, <2>3, MaxOfSome
      <3>2. x[t \ {Max(t)}] \in Int
        BY <2>2
      <3> DEFINE a == x[t \ {Max(t)}]   b == Max(t)
      <3> HIDE DEF a, b
      <3>3. g[<<a, b>>] = a + s[b]
        BY <3>1, <3>2 DEF a, b
      <3> QED BY <3>3 DEF a, b
    <2>4. x = [t \in SUBSET (1..n) |-> IF t = {} THEN 0 ELSE x[t \ {Max(t)}] + s[Max(t)]]
      <3>1. x = [t \in SUBSET (1..n) |-> IF t = {} THEN 0 ELSE g[<<x[t \ {Max(t)}], Max(t)>>]]
        BY <2>2, Zenon DEF Folds
      <3>2. \A t \in SUBSET (1..n) : x[t] = IF t = {} THEN 0 ELSE g[<<x[t \ {Max(t)}], Max(t)>>]
        BY <3>1, Zenon
      <3> HIDE DEF g
      <3>3. \A t \in SUBSET (1..n) : x[t] = IF t = {} THEN 0 ELSE x[t \ {Max(t)}] + s[Max(t)]
        BY <2>3, <3>2
      <3>4. x = [t \in SUBSET (1..n) |-> x[t]]
        BY <2>2
      <3> QED BY <3>3, <3>4, Zenon
    <2> QED BY <1>1, <2>4
  <1>3. F(f)
    BY <1>2, Zenon
  <1>4. FoldLeft(+, 0, s) = f[1..n]
    <2>1. FoldLeft(+, 0, s) = f[DOMAIN s]
      BY DEF FoldLeft, MapThenFoldSet
    <2> QED BY <1>1, <2>1
  <1> HIDE DEF f
  <1>5. \A t \in SUBSET (1..n) : f[t] = IF t = {} THEN 0 ELSE f[t \ {Max(t)}] + s[Max(t)]
    BY <1>1, <1>3, Zenon
  <1>6. f[{}] = r[0]
    BY <1>5
  <1>7. ASSUME NEW k \in 1..n, f[1..(k - 1)] = r[k - 1] PROVE f[1..k] = r[k]
    <2> HIDE DEF n
    <2>1. k \in Nat \ {0}
      BY SMT, <1>1
    <2>2. 1..k \in SUBSET (1..n)
      BY SMT, <1>1
    <2>3. f[1..k] = f[1..(k - 1)] + s[k]
      BY <1>5, <2>1, <2>2, FirstWithoutMax
    <2> QED BY <1>7, <2>3 DEF n
  <1>8. f[1..n] = r[n]
    <2> HIDE DEF n
    <2>1. n \in Nat /\ FoldFollows(f, r, n)
      BY Zenon, <1>1, <1>6, <1>7 DEF FoldFollows
    <2> QED BY <2>1, FoldIs
  <1> QED BY <1>4, <1>8

\* The sums of the first elements.
RunningSum(r, s, n) == r[0] = 0 /\ \A k \in 1..n : r[k] = r[k - 1] + s[k]

LEMMA RunningExists ==
  ASSUME NEW D \in SUBSET Int, 0 \in D, \A a, b \in D : a + b \in D, NEW s \in Seq(D)
  PROVE  \E r \in [0..Len(s) -> D] : RunningSum(r, s, Len(s))
  <1> DEFINE T == {n \in Nat : n <= Len(s) => \E r \in [0..n -> D] : RunningSum(r, s, n)}
  <1>1. 0 \in T
    <2> DEFINE r == [k \in 0..0 |-> 0]
    <2>1. r \in [0..0 -> D] /\ r[0] = 0
      BY SMT
    <2>2. RunningSum(r, s, 0)
      BY SMT, <2>1 DEF RunningSum
    <2> QED BY <2>1, <2>2
  <1>2. ASSUME NEW n \in T PROVE n + 1 \in T
    <2> SUFFICES ASSUME n + 1 <= Len(s)
                 PROVE  \E r \in [0..(n + 1) -> D] : RunningSum(r, s, n + 1)
      <3>1. n + 1 \in Nat
        OBVIOUS
      <3> QED BY <3>1
    <2>0. n <= Len(s) /\ n + 1 \in 1..Len(s) /\ s[n + 1] \in D
      BY SMT
    <2>1. PICK r \in [0..n -> D] : RunningSum(r, s, n)
      BY <2>0
    <2> DEFINE q == [k \in 0..(n + 1) |-> IF k = n + 1 THEN r[n] + s[n + 1] ELSE r[k]]
    <2>2. /\ \A k \in 0..n : k \in 0..(n + 1) /\ k # n + 1
          /\ \A k \in 0..(n + 1) : k # n + 1 => k \in 0..n
          /\ n + 1 \in 0..(n + 1) /\ n \in 0..n /\ 0 \in 0..n /\ (n + 1) - 1 = n
          /\ \A k \in 1..(n + 1) : k # n + 1 => k \in 1..n
          /\ \A k \in 1..n : k - 1 \in 0..n /\ k \in 0..n
      BY SMT
    <2>3. r[n] + s[n + 1] \in D
      BY <2>0, <2>2
    <2>4. q \in [0..(n + 1) -> D] /\ q[n + 1] = r[n] + s[n + 1] /\ \A k \in 0..n : q[k] = r[k]
      BY <2>2, <2>3
    <2> HIDE DEF q
    <2>5. RunningSum(q, s, n + 1)
      BY <2>1, <2>2, <2>4 DEF RunningSum
    <2> QED BY <2>4, <2>5
  <1>3. T = Nat
    <2> HIDE DEF T
    <2>1. T \in SUBSET Nat
      BY DEF T
    <2> QED BY <1>1, <1>2, <2>1, InductionOnSet
  <1>4. Len(s) \in T
    BY <1>3
  <1>5. Len(s) <= Len(s)
    BY SMT
  <1> QED BY <1>4, <1>5

LEMMA SumOfNone == FoldLeft(+, 0, <<>>) = 0
  <1> DEFINE r == [k \in 0..0 |-> 0]
  <1>1. <<>> \in Seq(Int) /\ Len(<<>>) = 0 /\ r \in [0..0 -> Int] /\ r[0] = 0
        /\ \A k \in 1..0 : r[k] = r[k - 1] + <<>>[k]
    BY SMT
  <1> HIDE DEF r
  <1> QED BY <1>1, SumIs

\* A sum of numbers of a kind is of that kind, and the last element comes on top.
LEMMA SumIsNumber ==
  ASSUME NEW D \in SUBSET Int, 0 \in D, \A a, b \in D : a + b \in D
  PROVE  \A s \in Seq(D) : FoldLeft(+, 0, s) \in D
  <1> SUFFICES ASSUME NEW s \in Seq(D) PROVE FoldLeft(+, 0, s) \in D
    OBVIOUS
  <1>1. PICK r \in [0..Len(s) -> D] : RunningSum(r, s, Len(s))
    BY RunningExists
  <1>2. s \in Seq(Int) /\ r \in [0..Len(s) -> Int] /\ Len(s) \in 0..Len(s)
    BY SMT
  <1>3. FoldLeft(+, 0, s) = r[Len(s)]
    BY <1>1, <1>2, SumIs DEF RunningSum
  <1> QED BY <1>2, <1>3

LEMMA SumAppends ==
  ASSUME NEW s \in Seq(Int), NEW x \in Int
  PROVE  FoldLeft(+, 0, Append(s, x)) = FoldLeft(+, 0, s) + x
  <1> DEFINE n == Len(s)   t == Append(s, x)
  <1>1. /\ n \in Nat /\ Len(t) = n + 1 /\ t \in Seq(Int) /\ t[n + 1] = x
        /\ \A k \in 1..n : t[k] = s[k]
    OBVIOUS
  <1> HIDE DEF n, t
  <1>2. PICK r \in [0..(n + 1) -> Int] : RunningSum(r, t, n + 1)
    <2>1. 0 \in Int /\ \A a, b \in Int : a + b \in Int
      BY SMT
    <2>2. \E r \in [0..Len(t) -> Int] : RunningSum(r, t, Len(t))
      BY <1>1, <2>1, RunningExists
    <2> QED BY <1>1, <2>2
  <1>3. FoldLeft(+, 0, t) = r[n + 1]
    BY <1>1, <1>2, SumIs DEF RunningSum
  <1>4. r[n + 1] = r[n] + x
    <2>1. n + 1 \in 1..(n + 1) /\ (n + 1) - 1 = n
      BY <1>1
    <2> QED BY <1>1, <1>2, <2>1 DEF RunningSum
  <1>5. FoldLeft(+, 0, s) = r[n]
    <2> DEFINE q == [k \in 0..n |-> r[k]]
    <2>1. /\ \A k \in 0..n : k \in 0..(n + 1)
          /\ \A k \in 1..n : k \in 1..(n + 1) /\ k \in 0..n /\ k - 1 \in 0..n
          /\ 0 \in 0..n /\ n \in 0..n
      BY SMT, <1>1
    <2>2. q \in [0..n -> Int] /\ \A k \in 0..n : q[k] = r[k]
      BY <2>1
    <2> HIDE DEF q
    <2>3. q[0] = 0 /\ \A k \in 1..n : q[k] = q[k - 1] + s[k]
      BY <1>1, <1>2, <2>1, <2>2 DEF RunningSum
    <2>4. FoldLeft(+, 0, s) = q[n]
      BY <2>2, <2>3, SumIs DEF n
    <2> QED BY <2>1, <2>2, <2>4
  <1> QED BY <1>3, <1>4, <1>5 DEF t

LEMMA SumConcatenates ==
  ASSUME NEW s \in Seq(Int)
  PROVE  \A t \in Seq(Int) : FoldLeft(+, 0, s \o t) = FoldLeft(+, 0, s) + FoldLeft(+, 0, t)
  <1> DEFINE Sum(u) == FoldLeft(+, 0, u)
             Q(t) == Sum(s \o t) = Sum(s) + Sum(t)
             T == {n \in Nat : \A t \in Seq(Int) : Len(t) = n => Q(t)}
  <1>0. \A u \in Seq(Int) : Sum(u) \in Int
    <2>1. 0 \in Int /\ \A a, b \in Int : a + b \in Int
      BY SMT
    <2> QED BY <2>1, SumIsNumber
  <1>a. \A u \in Seq(Int), x \in Int : Sum(Append(u, x)) = Sum(u) + x
    BY SumAppends
  <1>b. Sum(<<>>) = 0
    BY SumOfNone
  <1> HIDE DEF Sum
  <1>1. 0 \in T
    <2>1. ASSUME NEW t \in Seq(Int), Len(t) = 0 PROVE Q(t)
      <3>1. t = <<>> /\ s \o <<>> = s /\ Sum(s) \in Int
        BY <1>0, <2>1
      <3>2. Sum(s) = Sum(s) + 0
        BY SMT, <3>1
      <3> QED BY <1>b, <3>1, <3>2
    <2> QED BY <2>1
  <1>2. ASSUME NEW n \in T PROVE n + 1 \in T
    <2>1. ASSUME NEW t \in Seq(Int), Len(t) = n + 1 PROVE Q(t)
      <3> DEFINE u == SubSeq(t, 1, n)   x == t[n + 1]
      <3>1. u \in Seq(Int) /\ Len(u) = n /\ x \in Int /\ t = Append(u, x)
        BY SMT, <2>1
      <3>2. Q(u)
        BY <3>1
      <3> HIDE DEF u, x
      <3>3. s \o t = Append(s \o u, x) /\ s \o u \in Seq(Int)
        BY <3>1
      <3>4. Sum(s \o t) = Sum(s \o u) + x /\ Sum(t) = Sum(u) + x
        BY <1>a, <3>1, <3>3
      <3>5. Sum(s) \in Int /\ Sum(u) \in Int
        BY <1>0, <3>1
      <3> QED BY SMT, <3>1, <3>2, <3>4, <3>5
    <2> QED BY <2>1
  <1>3. T = Nat
    <2> HIDE DEF T
    <2>1. T \in SUBSET Nat
      BY DEF T
    <2> QED BY <1>1, <1>2, <2>1, InductionOnSet
  <1>4. ASSUME NEW t \in Seq(Int) PROVE Q(t)
    <2>1. Len(t) \in T
      BY <1>3
    <2> QED BY <2>1
  <1> QED BY <1>4 DEF Sum

-----------------------------------------------------------------------------
(***************************************************************************)
(* Where the parts of a flattened sequence are.                            *)
(***************************************************************************)
\* How many elements the first k sequences of s have.
Reach(s, k) == Len(FlattenSeq(SubSeq(s, 1, k)))

LEMMA ReachGrows ==
  ASSUME NEW S, NEW s \in Seq(Seq(S)), NEW k \in 0..Len(s)
  PROVE  /\ FlattenSeq(SubSeq(s, 1, k)) \in Seq(S) /\ Reach(s, k) \in Nat
         /\ k = 0 => Reach(s, k) = 0
         /\ k < Len(s) =>
              /\ s[k + 1] \in Seq(S)
              /\ FlattenSeq(SubSeq(s, 1, k + 1)) = FlattenSeq(SubSeq(s, 1, k)) \o s[k + 1]
              /\ Reach(s, k + 1) = Reach(s, k) + Len(s[k + 1])
  <1> DEFINE t == SubSeq(s, 1, k)
  <1>1. t \in Seq(Seq(S))
    BY Split
  <1>2. FlattenSeq(t) \in Seq(S)
    BY <1>1, FlattenIsSequence
  <1>3. Reach(s, k) \in Nat
    BY <1>2 DEF Reach
  <1>4. k = 0 => Reach(s, k) = 0
    <2>1. k = 0 => t = <<>>
      BY SMT
    <2> HIDE DEF t
    <2>2. k = 0 => FlattenSeq(t) = <<>>
      BY <2>1, FlattenOfNone
    <2> QED BY <2>2 DEF Reach, t
  <1>5. ASSUME k < Len(s)
        PROVE  /\ s[k + 1] \in Seq(S)
               /\ FlattenSeq(SubSeq(s, 1, k + 1)) = FlattenSeq(t) \o s[k + 1]
               /\ Reach(s, k + 1) = Reach(s, k) + Len(s[k + 1])
    <2> DEFINE x == s[k + 1]
    <2>1. k + 1 \in 1..Len(s)
      BY SMT, <1>5
    <2>2. x \in Seq(S)
      BY <2>1, ElementOfSeq
    <2>3. SubSeq(s, 1, k + 1) = Append(t, x)
      BY SMT, <1>5
    <2> HIDE DEF t, x
    <2>4. FlattenSeq(Append(t, x)) = FlattenSeq(t) \o x
      BY <1>1, <2>2, FlattenAppends
    <2>5. Len(FlattenSeq(t) \o x) = Len(FlattenSeq(t)) + Len(x)
      BY <1>2, <2>2, ConcatProperties
    <2>6. Reach(s, k + 1) = Len(FlattenSeq(Append(t, x))) /\ Reach(s, k) = Len(FlattenSeq(t))
      BY <2>3 DEF Reach, t
    <2> QED BY <2>2, <2>3, <2>4, <2>5, <2>6 DEF x
  <1> QED BY <1>2, <1>3, <1>4, <1>5

\* What the first k sequences give is what the whole begins with.
LEMMA ReachBegins ==
  ASSUME NEW S, NEW s \in Seq(Seq(S)), NEW k \in 0..Len(s)
  PROVE  \A m \in k..Len(s) :
           /\ Reach(s, k) <= Reach(s, m)
           /\ \A i \in 1..Reach(s, k) : FlattenSeq(SubSeq(s, 1, m))[i] = FlattenSeq(SubSeq(s, 1, k))[i]
  <1> DEFINE P(m) == FlattenSeq(SubSeq(s, 1, m))
             Q(m) == Reach(s, k) <= Reach(s, m) /\ \A i \in 1..Reach(s, k) : P(m)[i] = P(k)[i]
             T == {d \in Nat : k + d <= Len(s) => Q(k + d)}
  <1>1. 0 \in T
    <2>1. k + 0 = k /\ 0 \in Nat
      BY SMT
    <2>2. Reach(s, k) \in Nat
      BY ReachGrows
    <2> QED BY <2>1, <2>2
  <1>2. ASSUME NEW d \in T PROVE d + 1 \in T
    <2> DEFINE m == k + d
    <2>1. d + 1 \in Nat /\ k + (d + 1) = m + 1
      BY SMT
    <2> SUFFICES ASSUME m + 1 <= Len(s) PROVE Q(m + 1)
      BY <2>1
    <2>2. m \in 0..Len(s) /\ m < Len(s) /\ m <= Len(s)
      BY SMT
    <2>3. Q(m)
      BY <2>2
    <2> HIDE DEF m
    <2>4. /\ P(m) \in Seq(S) /\ s[m + 1] \in Seq(S) /\ P(m + 1) = P(m) \o s[m + 1]
          /\ Reach(s, m) \in Nat /\ Reach(s, m + 1) = Reach(s, m) + Len(s[m + 1])
      BY <2>2, ReachGrows
    <2>5. Reach(s, m) = Len(P(m)) /\ Reach(s, k) \in Nat
      BY ReachGrows DEF Reach
    <2> DEFINE a == P(m)   x == s[m + 1]   b == P(m + 1)   c == P(k)   r == Reach(s, k)
               n == Reach(s, m + 1)
    <2>6. /\ a \in Seq(S) /\ x \in Seq(S) /\ b = a \o x /\ n = Len(a) + Len(x) /\ r \in Nat
          /\ r <= Len(a) /\ \A i \in 1..r : a[i] = c[i]
      BY <2>3, <2>4, <2>5
    <2> HIDE DEF a, x, b, c, r, n, P
    <2>7. r <= n /\ \A i \in 1..r : b[i] = a[i]
      BY SMT, <2>6
    <2>8. r <= n /\ \A i \in 1..r : b[i] = c[i]
      BY <2>6, <2>7
    <2> QED BY <2>8 DEF b, c, r, n
  <1>3. T \in SUBSET Nat
    OBVIOUS
  <1> HIDE DEF T
  <1>4. T = Nat
    BY <1>1, <1>2, <1>3, InductionOnSet
  <1>5. ASSUME NEW m \in k..Len(s) PROVE Q(m)
    <2>1. m - k \in T /\ k + (m - k) = m /\ m <= Len(s)
      BY SMT, <1>4
    <2> QED BY <2>1 DEF T
  <1> QED BY <1>5

\* Where element i of sequence k + 1 is in the whole.
LEMMA PlaceInWhole ==
  ASSUME NEW S, NEW s \in Seq(Seq(S)), NEW k \in 0..(Len(s) - 1)
  PROVE  /\ FlattenSeq(s) \in Seq(S) /\ Reach(s, Len(s)) = Len(FlattenSeq(s))
         /\ Reach(s, k) \in Nat /\ Reach(s, k + 1) = Reach(s, k) + Len(s[k + 1])
         /\ Reach(s, k + 1) <= Len(FlattenSeq(s)) /\ s[k + 1] \in Seq(S)
         /\ \A i \in 1..Len(s[k + 1]) : FlattenSeq(s)[Reach(s, k) + i] = s[k + 1][i]
  <1> DEFINE l == Len(s)   f == FlattenSeq(s)
             P(m) == FlattenSeq(SubSeq(s, 1, m))
  <1>1. l \in Nat /\ k \in 0..l /\ k < l /\ k + 1 \in 0..l /\ l \in 0..l /\ l \in (k + 1)..l
    BY SMT
  <1>2. SubSeq(s, 1, l) = s
    BY SMT
  <1>3. f = P(l) /\ Reach(s, l) = Len(f)
    BY <1>2 DEF Reach
  <1>4. f \in Seq(S)
    BY <1>1, <1>3, ReachGrows
  <1>5. /\ Reach(s, k) \in Nat /\ s[k + 1] \in Seq(S) /\ P(k) \in Seq(S)
        /\ P(k + 1) = P(k) \o s[k + 1]
        /\ Reach(s, k + 1) = Reach(s, k) + Len(s[k + 1])
    BY <1>1, ReachGrows
  <1> HIDE DEF l
  <1>6. /\ Reach(s, k + 1) <= Reach(s, l)
        /\ \A i \in 1..Reach(s, k + 1) : P(l)[i] = P(k + 1)[i]
    BY <1>1, ReachBegins DEF l
  <1> DEFINE r == Reach(s, k)   x == s[k + 1]   a == P(k)   b == P(k + 1)   n == Reach(s, k + 1)
  <1>7. /\ r \in Nat /\ x \in Seq(S) /\ a \in Seq(S) /\ b = a \o x /\ n = r + Len(x) /\ Len(a) = r
        /\ \A i \in 1..n : f[i] = b[i]
    BY <1>3, <1>5, <1>6 DEF Reach
  <1> HIDE DEF r, x, a, b, n, f, P
  <1>8. \A i \in 1..Len(x) : r + i \in 1..n /\ b[r + i] = x[i]
    <2> SUFFICES ASSUME NEW i \in 1..Len(x) PROVE r + i \in 1..n /\ b[r + i] = x[i]
      OBVIOUS
    <2> DEFINE m == Len(x)
    <2>1. m \in Nat /\ r \in Nat /\ n = r + m
      BY <1>7, LenProperties
    <2>2. i \in 1..m
      OBVIOUS
    <2>3. r + i \in 1..n /\ r + i > r /\ (r + i) - r = i /\ r + i <= r + m /\ r + i \in 1..(r + m)
      <3> HIDE DEF m
      <3> QED BY SMT, <2>1, <2>2
    <2>4. \A j \in 1..(Len(a) + Len(x)) : (a \o x)[j] = IF j <= Len(a) THEN a[j] ELSE x[j - Len(a)]
      BY <1>7, ConcatProperties
    <2>5. ~(r + i <= r)
      BY SMT, <2>1, <2>3
    <2> QED BY Zenon, <1>7, <2>3, <2>4, <2>5
  <1>9. \A i \in 1..Len(x) : f[r + i] = x[i]
    BY <1>7, <1>8
  <1> QED BY <1>3, <1>4, <1>5, <1>6, <1>9 DEF r, x, f, l
=============================================================================
