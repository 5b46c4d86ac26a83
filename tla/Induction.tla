------------------------------ MODULE Induction ------------------------------
(***************************************************************************)
(* Induction over the numbers, and what follows from it: that a function   *)
(* defined by recursion exists, and what the recursive operators that the  *)
(* modules take from SequencesExt, and their loops, return.  Induction is  *)
(* stated of a set of numbers, recursion of a step that is a function.     *)
(***************************************************************************)
EXTENDS Integers, Sequences, SequencesExt, FiniteSetTheorems,
        SequenceTheorems, WellFoundedInduction, Loops, TLAPS

Less == {p \in Nat \X Nat : p[1] < p[2]}

LEMMA LessWellFounded == IsWellFoundedOn(Less, Nat)
<1>1. OpToRel(<, Nat) = Less
  BY Zenon DEF OpToRel, Less
<1> QED
  BY <1>1, NatLessThanWellFounded

(* A set of numbers has a least one.                                       *)
LEMMA LeastNumber ==
    ASSUME NEW T \in SUBSET Nat, T # {}
    PROVE  \E n \in T : \A m \in T : n <= m
<1>1. PICK n \in T : \A m \in T : ~(<<m, n>> \in Less)
  BY LessWellFounded, WFMin, Zenon
<1>2. \A m \in T : <<m, n>> \notin Less => n <= m
  BY DEF Less
<1>3. \A m \in T : n <= m
  BY <1>1, <1>2, Zenon
<1> QED
  BY <1>3

(* Induction.                                                              *)
LEMMA AllNumbers ==
    ASSUME NEW T \in SUBSET Nat, 0 \in T, \A n \in T : n + 1 \in T
    PROVE  T = Nat
<1> DEFINE U == Nat \ T
<1>1. SUFFICES ASSUME U # {} PROVE FALSE
  OBVIOUS
<1>2. PICK n \in U : \A m \in U : n <= m
  BY <1>1, LeastNumber
<1>3. n # 0 /\ n - 1 \in Nat /\ n - 1 \notin U
  BY <1>2
<1> QED
  BY <1>3

(* Recursion from first on, by step[n], up to N.                           *)
Recursion(f, X, first, step, N) ==
    f \in [0..N -> X] /\ f[0] = first /\ \A n \in 1..N : f[n] = step[n][f[n - 1]]

LEMMA RecursionExists ==
    ASSUME NEW X, NEW first \in X, NEW step \in [Nat -> [X -> X]], NEW N \in Nat
    PROVE  \E f : Recursion(f, X, first, step, N)
<1> USE DEF Recursion
<1> DEFINE T == {m \in Nat : \E f : Recursion(f, X, first, step, m)}
<1>1. 0 \in T
  <2>1. Recursion([n \in 0..0 |-> first], X, first, step, 0)
    OBVIOUS
  <2> QED
    BY <2>1
<1>2. ASSUME NEW m \in T PROVE m + 1 \in T
  <2>1. PICK f : Recursion(f, X, first, step, m)
    OBVIOUS
  <2> DEFINE g == [n \in 0..m + 1 |-> IF n <= m THEN f[n] ELSE step[m + 1][f[m]]]
  <2>2. step[m + 1][f[m]] \in X
    BY <2>1
  <2>3. g \in [0..m + 1 -> X] /\ g[0] = first
    BY <2>1, <2>2
  <2>4. ASSUME NEW n \in 1..m + 1 PROVE g[n] = step[n][g[n - 1]]
    <3>1. CASE n \in 1..m
      <4>1. g[n] = f[n] /\ g[n - 1] = f[n - 1]
        BY <3>1
      <4> QED
        BY <2>1, <3>1, <4>1
    <3>2. CASE n = m + 1
      BY <3>2
    <3> QED
      BY <3>1, <3>2
  <2> HIDE DEF g
  <2>5. Recursion(g, X, first, step, m + 1)
    BY <2>3, <2>4
  <2> QED
    BY <2>5
<1>3. T = Nat
  <2> HIDE DEF T
  <2>1. T \in SUBSET Nat
    BY DEF T
  <2> QED
    BY <1>1, <1>2, <2>1, AllNumbers
<1> QED
  BY <1>3

-----------------------------------------------------------------------------
(* Sequences.                                                              *)
LEMMA SameSeq ==
    ASSUME NEW S, NEW s \in Seq(S), NEW t \in Seq(S), Len(s) = Len(t),
           \A i \in 1..Len(s) : s[i] = t[i]
    PROVE  s = t
  OBVIOUS

(* A sequence, all and nothing of it.                                      *)
LEMMA WholeSeq ==
    ASSUME NEW S, NEW s \in Seq(S)
    PROVE  /\ SubSeq(s, 1, 0) = <<>> /\ SubSeq(s, 1, Len(s)) = s
           /\ SubSeq(s, Len(s) + 1, Len(s)) = <<>>
           /\ s \o <<>> = s /\ <<>> \o s = s
<1>1. Len(s) \in Nat
  OBVIOUS
<1>2. SubSeq(s, 1, 0) = <<>> /\ SubSeq(s, Len(s) + 1, Len(s)) = <<>>
  BY <1>1, SubSeqEmpty
<1>3. SubSeq(s, 1, Len(s)) = s
  BY SubSeqFull
<1>4. s \o <<>> = s /\ <<>> \o s = s
  BY ConcatEmptySeq
<1> QED
  BY <1>2, <1>3, <1>4

-----------------------------------------------------------------------------
(* FlattenSeq is the recursion that it is defined by.                      *)
LEMMA FlattenIs ==
    ASSUME NEW V, NEW ss \in Seq(Seq(V)), ss # <<>>
    PROVE  \E f \in [1..Len(ss) -> Seq(V)] :
              /\ FlattenSeq(ss) = f[Len(ss)]
              /\ f[1] = ss[1]
              /\ \A i \in 2..Len(ss) : f[i] = f[i - 1] \o ss[i]
<1> DEFINE L == Len(ss)
           part[i \in 1..L] == IF i = 1 THEN ss[i] ELSE part[i - 1] \o ss[i]
           Cat(s, i) == s \o ss[i]
           Is(f) == f = [i \in 1..L |-> IF i = 1 THEN ss[i] ELSE Cat(f[i - 1], i)]
           step == [n \in Nat |-> [s \in Seq(V) |-> IF n < L THEN s \o ss[n + 1] ELSE s]]
<1>1. L \in Nat /\ L > 0 /\ \A i \in 1..L : ss[i] \in Seq(V)
  OBVIOUS
<1> HIDE DEF L
<1>2. ASSUME NEW n \in Nat, NEW s \in Seq(V)
      PROVE  (IF n < L THEN s \o ss[n + 1] ELSE s) \in Seq(V)
  <2>1. n < L => ss[n + 1] \in Seq(V)
    BY <1>1
  <2> QED
    BY <2>1
<1>3. step \in [Nat -> [Seq(V) -> Seq(V)]] /\ L - 1 \in Nat /\ ss[1] \in Seq(V)
  BY <1>1, <1>2
<1> HIDE DEF step
<1>4. PICK g \in [0..L - 1 -> Seq(V)] :
         g[0] = ss[1] /\ \A n \in 1..L - 1 : g[n] = step[n][g[n - 1]]
  <2> DEFINE X == Seq(V)
             first == ss[1]
             N == L - 1
  <2>1. first \in X /\ step \in [Nat -> [X -> X]] /\ N \in Nat
    BY <1>3
  <2> HIDE DEF X, first, N
  <2>2. \E g : Recursion(g, X, first, step, N)
    BY <2>1, RecursionExists
  <2> QED
    BY <2>2 DEF Recursion, X, first, N
<1> DEFINE f == [i \in 1..L |-> g[i - 1]]
<1>5. /\ f \in [1..L -> Seq(V)] /\ f[1] = ss[1]
      /\ \A i \in 2..L : f[i] = f[i - 1] \o ss[i]
  <2>1. f \in [1..L -> Seq(V)] /\ f[1] = ss[1]
    BY <1>1, <1>4
  <2>2. ASSUME NEW i \in 2..L PROVE f[i] = f[i - 1] \o ss[i]
    <3>1. /\ i - 1 \in 1..L - 1 /\ f[i] = g[i - 1] /\ f[i - 1] = g[i - 2]
          /\ (i - 1) - 1 = i - 2 /\ (i - 1) + 1 = i /\ i - 2 \in 0..L - 1
      BY <1>1
    <3>2. g[i - 1] = step[i - 1][g[i - 2]]
      BY <1>4, <3>1
    <3>3. step[i - 1][g[i - 2]] = g[i - 2] \o ss[i]
      <4>1. i - 1 \in Nat /\ i - 1 < L /\ g[i - 2] \in Seq(V)
        BY <1>1, <1>4, <3>1
      <4> QED
        BY <3>1, <4>1 DEF step
    <3> QED
      BY <3>1, <3>2, <3>3
  <2> QED
    BY <2>1, <2>2
<1> HIDE DEF f
<1>6. Is(f)
  <2>1. f = [i \in 1..L |-> f[i]]
    BY <1>5
  <2>2. \A i \in 2..L : f[i] = Cat(f[i - 1], i)
    BY <1>5
  <2> HIDE DEF Cat
  <2>3. \A i \in 1..L : f[i] = IF i = 1 THEN ss[i] ELSE Cat(f[i - 1], i)
    BY <1>1, <1>5, <2>2
  <2> QED
    BY <2>1, <2>3
<1>7. ASSUME NEW h, Is(h)
      PROVE  /\ h \in [1..L -> Seq(V)] /\ h[1] = ss[1]
             /\ \A i \in 2..L : h[i] = h[i - 1] \o ss[i]
  <2>1. h[1] = ss[1] /\ \A i \in 2..L : h[i] = h[i - 1] \o ss[i]
    <3> HIDE DEF Cat
    <3>1. \A i \in 1..L : h[i] = IF i = 1 THEN ss[i] ELSE Cat(h[i - 1], i)
      BY <1>7
    <3>2. h[1] = ss[1] /\ \A i \in 2..L : h[i] = Cat(h[i - 1], i)
      BY <1>1, <3>1
    <3> QED
      BY <3>2 DEF Cat
  <2> DEFINE T == {n \in Nat : n + 1 <= L => h[n + 1] \in Seq(V)}
  <2>2. 0 \in T
    BY <1>1, <2>1
  <2>3. ASSUME NEW n \in T PROVE n + 1 \in T
    <3>1. CASE n + 2 <= L
      <4>1. h[n + 1] \in Seq(V) /\ n + 2 \in 2..L /\ (n + 2) - 1 = n + 1
        BY <1>1, <3>1
      <4>2. ss[n + 2] \in Seq(V)
        BY <1>1, <4>1
      <4>3. h[n + 2] = h[n + 1] \o ss[n + 2]
        BY <2>1, <4>1
      <4>4. h[n + 2] \in Seq(V)
        BY <4>1, <4>2, <4>3
      <4>5. (n + 1) + 1 = n + 2 /\ n + 1 \in Nat
        OBVIOUS
      <4> QED
        BY <4>4, <4>5
    <3>2. CASE ~(n + 2 <= L)
      BY <1>1, <3>2
    <3> QED
      BY <3>1, <3>2
  <2>4. T = Nat
    <3> HIDE DEF T
    <3>1. T \in SUBSET Nat
      BY DEF T
    <3> QED
      BY <2>2, <2>3, <3>1, AllNumbers
  <2>5. \A i \in 1..L : h[i] \in Seq(V)
    <3> TAKE i \in 1..L
    <3>1. i - 1 \in Nat /\ (i - 1) + 1 = i /\ i <= L
      BY <1>1
    <3>2. i - 1 \in T
      BY <2>4, <3>1, Zenon
    <3> QED
      BY <3>1, <3>2
  <2>6. DOMAIN h = 1..L /\ h = [i \in 1..L |-> h[i]]
    BY <1>7
  <2> QED
    BY <2>1, <2>5, <2>6
<1>8. Is(part)
  <2>1. part = CHOOSE h : Is(h)
    OBVIOUS
  <2> QED
    BY <1>6, <2>1, Zenon
<1>9. FlattenSeq(ss) = part[L]
  BY <1>1 DEF FlattenSeq, L
<1> HIDE DEF part, Is
<1> QED
  BY <1>7, <1>8, <1>9 DEF L

(* FlattenSeq, from the left.                                              *)
LEMMA FlattenFrom ==
    ASSUME NEW V, NEW ss \in Seq(Seq(V))
    PROVE  \E g \in [0..Len(ss) -> Seq(V)] :
              /\ FlattenSeq(ss) = g[Len(ss)] /\ g[0] = <<>>
              /\ \A i \in 1..Len(ss) : g[i] = g[i - 1] \o ss[i]
<1> DEFINE L == Len(ss)
<1>1. L \in Nat /\ \A i \in 1..L : ss[i] \in Seq(V)
  OBVIOUS
<1>2. CASE ss = <<>>
  <2> DEFINE g == [i \in 0..0 |-> <<>>]
  <2>1. FlattenSeq(ss) = <<>>
    BY <1>2 DEF FlattenSeq
  <2>2. g \in [0..L -> Seq(V)] /\ g[L] = <<>> /\ g[0] = <<>> /\ L = 0
    BY <1>2
  <2>3. \A i \in 1..L : g[i] = g[i - 1] \o ss[i]
    BY <2>2
  <2> HIDE DEF g
  <2> QED
    BY <2>1, <2>2, <2>3
<1>3. CASE ss # <<>>
  <2>1. L > 0
    BY <1>3
  <2>2. PICK f \in [1..L -> Seq(V)] :
           /\ FlattenSeq(ss) = f[L] /\ f[1] = ss[1]
           /\ \A i \in 2..L : f[i] = f[i - 1] \o ss[i]
    BY <1>3, FlattenIs
  <2> HIDE DEF L
  <2> DEFINE g == [i \in 0..L |-> IF i = 0 THEN <<>> ELSE f[i]]
  <2>3. g \in [0..L -> Seq(V)]
    <3>1. \A i \in 0..L : i = 0 \/ i \in 1..L
      BY <1>1
    <3>2. <<>> \in Seq(V)
      OBVIOUS
    <3> QED
      BY <3>1, <3>2
  <2>4. g[0] = <<>> /\ \A i \in 1..L : g[i] = f[i]
    BY <1>1
  <2>5. ASSUME NEW i \in 1..L PROVE g[i] = g[i - 1] \o ss[i]
    <3>1. CASE i = 1
      <4>1. g[i] = ss[1] /\ g[i - 1] = <<>>
        BY <1>1, <2>2, <2>4, <3>1
      <4>2. ss[1] \in Seq(V)
        BY <1>1, <3>1
      <4>3. <<>> \o ss[1] = ss[1]
        BY <4>2, WholeSeq
      <4> QED
        BY <3>1, <4>1, <4>3
    <3>2. CASE i # 1
      <4>1. i \in 2..L /\ i - 1 \in 1..L
        BY <1>1, <3>2
      <4> QED
        BY <2>2, <2>4, <4>1
    <3> QED
      BY <3>1, <3>2
  <2>6. FlattenSeq(ss) = g[L]
    BY <1>1, <2>1, <2>2, <2>4
  <2> HIDE DEF g
  <2> QED
    BY <2>3, <2>4, <2>5, <2>6 DEF L
<1> QED
  BY <1>2, <1>3

(* FlattenSeq: its values are those of the sequences, one by one.          *)
LEMMA FlattenValues ==
    ASSUME NEW V, NEW ss \in Seq(Seq(V))
    PROVE  /\ FlattenSeq(ss) \in Seq(V)
           /\ ToSet(FlattenSeq(ss)) = UNION {ToSet(ss[i]) : i \in DOMAIN ss}
<1>1. CASE ss = <<>>
  <2>1. Len(ss) = 0 /\ DOMAIN ss = {}
    BY <1>1
  <2>2. FlattenSeq(ss) = <<>>
    BY <1>1, <2>1 DEF FlattenSeq
  <2>3. ToSet(<<>>) = {}
    BY DEF ToSet
  <2> QED
    BY <2>1, <2>2, <2>3
<1>2. CASE ss # <<>>
  <2> DEFINE L == Len(ss)
             Below(n) == UNION {ToSet(ss[i]) : i \in 1..n}
  <2>1. L \in Nat /\ L > 0 /\ DOMAIN ss = 1..L /\ \A i \in 1..L : ss[i] \in Seq(V)
    BY <1>2
  <2>2. PICK f \in [1..L -> Seq(V)] :
           /\ FlattenSeq(ss) = f[L] /\ f[1] = ss[1]
           /\ \A i \in 2..L : f[i] = f[i - 1] \o ss[i]
    BY <1>2, FlattenIs
  <2> HIDE DEF L
  <2> DEFINE T == {n \in Nat : n + 1 <= L => ToSet(f[n + 1]) = Below(n + 1)}
  <2>3. 0 \in T
    <3>1. Below(1) = ToSet(ss[1])
      OBVIOUS
    <3> QED
      BY <2>2, <3>1
  <2>4. ASSUME NEW n \in T, n + 2 <= L PROVE ToSet(f[n + 2]) = Below(n + 2)
    <3>1. /\ n + 2 \in 2..L /\ (n + 2) - 1 = n + 1 /\ n + 1 \in 1..L
          /\ n + 1 <= L /\ n + 2 \in 1..L
      BY <2>1, <2>4
    <3>2. f[n + 2] = f[n + 1] \o ss[n + 2] /\ f[n + 1] \in Seq(V) /\ ss[n + 2] \in Seq(V)
      BY <2>1, <2>2, <3>1
    <3>3. ASSUME NEW s \in Seq(V), NEW t \in Seq(V)
          PROVE  ToSet(s \o t) = ToSet(s) \cup ToSet(t)
      <4>1. /\ Len(s) \in Nat /\ Len(t) \in Nat /\ DOMAIN (s \o t) = 1..Len(s) + Len(t)
            /\ DOMAIN s = 1..Len(s) /\ DOMAIN t = 1..Len(t)
        OBVIOUS
      <4>2. /\ \A i \in 1..Len(s) : (s \o t)[i] = s[i]
            /\ \A i \in 1..Len(t) : (s \o t)[Len(s) + i] = t[i]
        OBVIOUS
      <4>3. ToSet(s \o t) \subseteq ToSet(s) \cup ToSet(t)
        <5> SUFFICES ASSUME NEW i \in DOMAIN (s \o t)
                     PROVE  (s \o t)[i] \in ToSet(s) \cup ToSet(t)
          BY DEF ToSet
        <5>1. CASE i <= Len(s)
          BY <4>1, <4>2, <5>1 DEF ToSet
        <5>2. CASE ~(i <= Len(s))
          <6>1. i - Len(s) \in 1..Len(t) /\ Len(s) + (i - Len(s)) = i
            BY <4>1, <5>2
          <6>2. (s \o t)[i] = t[i - Len(s)]
            BY <4>2, <6>1
          <6> QED
            BY <4>1, <6>1, <6>2 DEF ToSet
        <5> QED
          BY <5>1, <5>2
      <4>4. ToSet(s) \subseteq ToSet(s \o t)
        BY <4>1, <4>2 DEF ToSet
      <4>5. ToSet(t) \subseteq ToSet(s \o t)
        <5>1. \A i \in 1..Len(t) : Len(s) + i \in 1..Len(s) + Len(t)
          BY <4>1
        <5> QED
          BY <4>1, <4>2, <5>1 DEF ToSet
      <4> QED
        BY <4>3, <4>4, <4>5
    <3>4. ToSet(f[n + 1]) = Below(n + 1)
      BY <3>1
    <3>5. Below(n + 2) = Below(n + 1) \cup ToSet(ss[n + 2])
      <4>1. 1..n + 2 = 1..n + 1 \cup {n + 2}
        OBVIOUS
      <4> QED
        BY <4>1
    <3> HIDE DEF Below
    <3> QED
      BY <3>2, <3>3, <3>4, <3>5
  <2>5. ASSUME NEW n \in T PROVE n + 1 \in T
    <3>1. n + 1 \in Nat /\ (n + 1) + 1 = n + 2
      OBVIOUS
    <3> HIDE DEF Below
    <3> QED
      BY <2>4, <3>1
  <2>6. T = Nat
    <3> HIDE DEF T
    <3>1. T \in SUBSET Nat
      BY DEF T
    <3> QED
      BY <2>3, <2>5, <3>1, AllNumbers
  <2>7. L - 1 \in T /\ (L - 1) + 1 = L
    <3>1. L - 1 \in Nat /\ (L - 1) + 1 = L
      BY <2>1
    <3> HIDE DEF T
    <3> QED
      BY <2>6, <3>1
  <2> HIDE DEF Below
  <2>8. ToSet(f[L]) = Below(L)
    BY <2>1, <2>7
  <2>9. f[L] \in Seq(V)
    BY <2>1, <2>2
  <2> QED
    BY <2>1, <2>2, <2>8, <2>9 DEF Below
<1> QED
  BY <1>1, <1>2

(* FlattenSeq: of sequences with one value or none, no longer than they    *)
(* are many.                                                               *)
LEMMA FlattenShort ==
    ASSUME NEW V, NEW ss \in Seq(Seq(V)), \A i \in DOMAIN ss : Len(ss[i]) <= 1
    PROVE  Len(FlattenSeq(ss)) <= Len(ss)
<1>1. CASE ss = <<>>
  BY <1>1 DEF FlattenSeq
<1>2. CASE ss # <<>>
  <2> DEFINE L == Len(ss)
  <2>1. L \in Nat /\ L > 0 /\ \A i \in 1..L : ss[i] \in Seq(V) /\ Len(ss[i]) <= 1
    BY <1>2
  <2>2. PICK f \in [1..L -> Seq(V)] :
           /\ FlattenSeq(ss) = f[L] /\ f[1] = ss[1]
           /\ \A i \in 2..L : f[i] = f[i - 1] \o ss[i]
    BY <1>2, FlattenIs
  <2> HIDE DEF L
  <2> DEFINE T == {n \in Nat : n + 1 <= L => Len(f[n + 1]) <= n + 1}
  <2>3. 0 \in T
    BY <2>1, <2>2
  <2>4. ASSUME NEW n \in T, n + 2 <= L PROVE Len(f[n + 2]) <= n + 2
    <3>1. /\ n + 2 \in 2..L /\ (n + 2) - 1 = n + 1 /\ n + 1 \in 1..L
          /\ n + 1 <= L /\ n + 2 \in 1..L
      BY <2>1, <2>4
    <3>2. f[n + 2] = f[n + 1] \o ss[n + 2] /\ f[n + 1] \in Seq(V) /\ ss[n + 2] \in Seq(V)
      BY <2>1, <2>2, <3>1
    <3>3. Len(f[n + 2]) = Len(f[n + 1]) + Len(ss[n + 2])
      BY <3>2
    <3>4. Len(f[n + 1]) <= n + 1 /\ Len(ss[n + 2]) <= 1
      BY <2>1, <3>1
    <3>5. Len(f[n + 1]) \in Nat /\ Len(ss[n + 2]) \in Nat /\ n \in Nat
      BY <3>2
    <3>6. ASSUME NEW a \in Nat, NEW b \in Nat, a <= n + 1, b <= 1 PROVE a + b <= n + 2
      BY <3>5, <3>6
    <3>7. Len(f[n + 1]) + Len(ss[n + 2]) <= n + 2
      BY <3>4, <3>5, <3>6
    <3> QED
      BY <3>3, <3>7, Zenon
  <2>5. ASSUME NEW n \in T PROVE n + 1 \in T
    <3>1. n + 1 \in Nat /\ (n + 1) + 1 = n + 2
      OBVIOUS
    <3> QED
      BY <2>4, <3>1
  <2>6. T = Nat
    <3> HIDE DEF T
    <3>1. T \in SUBSET Nat
      BY DEF T
    <3> QED
      BY <2>3, <2>5, <3>1, AllNumbers
  <2>7. L - 1 \in T /\ (L - 1) + 1 = L
    <3>1. L - 1 \in Nat /\ (L - 1) + 1 = L
      BY <2>1
    <3> HIDE DEF T
    <3> QED
      BY <2>6, <3>1
  <2>8. Len(f[L]) <= L
    BY <2>1, <2>7
  <2> QED
    BY <2>2, <2>8 DEF L
<1> QED
  BY <1>1, <1>2

(* What grows at most N times within a set of N has all grown.             *)
LEMMA GrownUp ==
    ASSUME NEW X, IsFiniteSet(X), NEW N \in Nat, Cardinality(X) <= N,
           NEW more \in [SUBSET X -> SUBSET X], \A T \in SUBSET X : T \subseteq more[T],
           NEW f \in [0..N -> SUBSET X], \A n \in 1..N : f[n] = more[f[n - 1]]
    PROVE  /\ more[f[N]] = f[N] /\ f[0] \subseteq f[N]
           /\ \A T \in SUBSET X : f[0] \subseteq T /\ more[T] = T
                                  /\ (\A U \in SUBSET T : more[U] \subseteq more[T])
                                 => f[N] \subseteq T
<1>1. \A n \in 0..N : IsFiniteSet(f[n]) /\ Cardinality(f[n]) \in Nat
  BY FS_Subset, FS_CardinalityType
<1> DEFINE P(n) == Cardinality(f[n]) >= n \/ more[f[n]] = f[n]
           A == {n \in Nat : n <= N => P(n) /\ f[0] \subseteq f[n]}
<1>2. 0 \in A
  BY <1>1
<1>3. ASSUME NEW n \in A, n + 1 <= N PROVE P(n + 1) /\ f[0] \subseteq f[n + 1]
  <2>1. n \in 0..N /\ n + 1 \in 1..N /\ n + 1 \in 0..N /\ (n + 1) - 1 = n
    BY <1>3
  <2>2. f[n + 1] = more[f[n]] /\ f[n] \subseteq f[n + 1] /\ P(n) /\ f[0] \subseteq f[n]
    BY <2>1
  <2>3. CASE f[n + 1] = f[n]
    BY <2>1, <2>2, <2>3
  <2>4. CASE f[n + 1] # f[n]
    <3>1. Cardinality(f[n]) < Cardinality(f[n + 1])
      BY <1>1, <2>1, <2>2, <2>4, FS_Subset
    <3>2. Cardinality(f[n]) >= n
      BY <2>2, <2>4
    <3>3. Cardinality(f[n + 1]) >= n + 1
      BY <1>1, <2>1, <3>1, <3>2
    <3> QED
      BY <2>2, <3>3
  <2> QED
    BY <2>3, <2>4
<1>4. ASSUME NEW n \in A PROVE n + 1 \in A
  <2> HIDE DEF P
  <2> QED
    BY <1>3
<1>5. A = Nat
  <2> HIDE DEF A
  <2>1. A \in SUBSET Nat
    BY DEF A
  <2> QED
    BY <1>2, <1>4, <2>1, AllNumbers
<1>6. P(N) /\ f[0] \subseteq f[N]
  BY <1>5
<1>7. more[f[N]] = f[N]
  <2>1. CASE Cardinality(f[N]) >= N
    <3>1. f[N] \subseteq X /\ Cardinality(X) \in Nat
      BY FS_CardinalityType
    <3>2. Cardinality(f[N]) = Cardinality(X)
      BY <1>1, <2>1, <3>1, FS_Subset
    <3>3. f[N] = X
      BY <3>1, <3>2, FS_Subset
    <3>4. more[X] \subseteq X /\ X \subseteq more[X]
      OBVIOUS
    <3> QED
      BY <3>3, <3>4
  <2> QED
    BY <1>6, <2>1
<1>8. ASSUME NEW T \in SUBSET X, f[0] \subseteq T, more[T] = T,
             \A U \in SUBSET T : more[U] \subseteq more[T]
      PROVE  f[N] \subseteq T
  <2> DEFINE B == {n \in Nat : n <= N => f[n] \subseteq T}
  <2>1. 0 \in B
    BY <1>8
  <2>2. ASSUME NEW n \in B PROVE n + 1 \in B
    <3> SUFFICES ASSUME n + 1 <= N PROVE f[n + 1] \subseteq T
      OBVIOUS
    <3>1. n \in 0..N /\ n + 1 \in 1..N /\ (n + 1) - 1 = n
      OBVIOUS
    <3>2. f[n + 1] = more[f[n]] /\ f[n] \subseteq T
      BY <3>1
    <3> QED
      BY <1>8, <3>2
  <2>3. B = Nat
    <3> HIDE DEF B
    <3>1. B \in SUBSET Nat
      BY DEF B
    <3> QED
      BY <2>1, <2>2, <3>1, AllNumbers
  <2> QED
    BY <2>3
<1> QED
  BY <1>6, <1>7, <1>8

-----------------------------------------------------------------------------
(* Induction up to n.                                                      *)
LEMMA UpTo ==
    ASSUME NEW n \in Nat, NEW T \in SUBSET (0..n), 0 \in T, \A i \in 1..n : i - 1 \in T => i \in T
    PROVE  T = 0..n
<1> DEFINE U == {i \in Nat : i <= n => i \in T}
<1>1. U \in SUBSET Nat /\ 0 \in U
  OBVIOUS
<1>2. ASSUME NEW i \in U PROVE i + 1 \in U
  <2>1. CASE i + 1 <= n
    <3>1. i \in T /\ i + 1 \in 1..n /\ (i + 1) - 1 = i
      BY <2>1
    <3> QED
      BY <3>1
  <2> QED
    BY <2>1
<1> HIDE DEF U
<1>3. U = Nat
  BY <1>1, <1>2, AllNumbers
<1>4. \A i \in 0..n : i \in Nat /\ i <= n
  OBVIOUS
<1>5. \A i \in 0..n : i \in T
  BY <1>3, <1>4 DEF U
<1> QED
  BY <1>5

(* The turns of a loop, one for each of 1..n.                              *)
Turned(turns, n) == turns = [i \in 1..n |-> turns[i]]
Leads(turns, P, n) == \A i \in 1..n : \A y \in P[i - 1] : turns[i][y] \in P[i]

(* What they leave, from x on: f[i] after i of them.                       *)
LeftBy(f, turns, x, n) == f[0] = x /\ \A i \in 1..n : f[i] = turns[i][f[i - 1]]

(* A loop whose turns lead from the set P[i - 1] to the set P[i]: what     *)
(* each leaves is in the set that it leads to.                             *)
LEMMA LoopIs ==
    ASSUME NEW n \in Nat, NEW turns, Turned(turns, n),
           NEW X, NEW P \in [0..n -> SUBSET X], NEW x \in P[0], Leads(turns, P, n)
    PROVE  \E f : /\ Loop(turns, x) = f[n] /\ LeftBy(f, turns, x, n)
                  /\ \A i \in 0..n : f[i] \in P[i]
<1> USE DEF Leads
<1>0. turns = [i \in 1..n |-> turns[i]]
  BY DEF Turned
<1> DEFINE Is(f) == f = [i \in 0..n |-> IF i = 0 THEN x ELSE turns[i][f[i - 1]]]
           step == [i \in Nat |-> [y \in X |-> IF i \in 1..n /\ y \in P[i - 1] THEN turns[i][y] ELSE x]]
<1>1. Len(turns) = n
  <2> DEFINE S == {turns[i] : i \in 1..n}
  <2>1. [i \in 1..n |-> turns[i]] \in Seq(S) /\ Len([i \in 1..n |-> turns[i]]) = n
    OBVIOUS
  <2> QED
    BY <1>0, <2>1
<1>2. x \in X /\ \A i \in 0..n : P[i] \subseteq X
  OBVIOUS
<1>3. \A i \in Nat : \A y \in X : (IF i \in 1..n /\ y \in P[i - 1] THEN turns[i][y] ELSE x) \in X
  BY <1>2
<1>4. step \in [Nat -> [X -> X]]
  BY <1>3
<1>5. \A i \in 1..n : \A y \in P[i - 1] : step[i][y] = turns[i][y]
  BY <1>2
<1> HIDE DEF step
<1>6. PICK g : Recursion(g, X, x, step, n)
  BY <1>2, <1>4, RecursionExists
<1>7. g \in [0..n -> X] /\ g[0] = x /\ \A i \in 1..n : g[i] = step[i][g[i - 1]]
  BY <1>6 DEF Recursion
<1>8. \A i \in 0..n : g[i] \in P[i]
  <2> DEFINE T == {i \in 0..n : g[i] \in P[i]}
  <2>1. 0 \in T
    BY <1>7
  <2>2. ASSUME NEW i \in 1..n, i - 1 \in T PROVE i \in T
    BY <1>5, <1>7, <2>2
  <2> HIDE DEF T
  <2>3. T = 0..n
    <3>1. T \in SUBSET (0..n)
      BY DEF T
    <3> QED
      BY <2>1, <2>2, <3>1, UpTo
  <2> QED
    BY <2>3 DEF T
<1>9. Is(g)
  <2>1. \A i \in 1..n : g[i] = turns[i][g[i - 1]]
    BY <1>5, <1>7, <1>8
  <2>2. \A i \in 0..n : g[i] = IF i = 0 THEN x ELSE turns[i][g[i - 1]]
    BY <1>7, <2>1, SMTT(30)
  <2> QED
    BY <1>7, <2>2
<1> DEFINE f == CHOOSE h : Is(h)
<1>10. Is(f)
  BY <1>9, Zenon
<1>11. Loop(turns, x) = f[n]
  BY <1>1 DEF Loop
<1> HIDE DEF f
<1>12. f[0] = x /\ \A i \in 1..n : f[i] = turns[i][f[i - 1]]
  <2>1. ASSUME NEW h, Is(h) PROVE h[0] = x /\ \A i \in 1..n : h[i] = turns[i][h[i - 1]]
    <3>1. n \in Nat
      OBVIOUS
    <3>2. 0 \in 0..n
      OBVIOUS
    <3>3. h[0] = x
      BY ONLY <2>1, <3>2 DEF Is
    <3>4. ASSUME NEW i \in 1..n PROVE h[i] = turns[i][h[i - 1]]
      <4>1. i \in 0..n /\ i # 0
        BY ONLY <3>1, i \in 1..n
      <4> QED
        BY ONLY <2>1, <4>1 DEF Is
    <3> QED
      BY <3>3, <3>4
  <2> QED
    BY <1>10, <2>1
<1> HIDE DEF Is
<1>13. \A i \in 0..n : f[i] \in P[i]
  <2> DEFINE T == {i \in 0..n : f[i] \in P[i]}
  <2>1. 0 \in T
    BY <1>12
  <2>2. ASSUME NEW i \in 1..n, i - 1 \in T PROVE i \in T
    BY <1>12, <2>2
  <2> HIDE DEF T
  <2>3. T = 0..n
    <3>1. T \in SUBSET (0..n)
      BY DEF T
    <3> QED
      BY <2>1, <2>2, <3>1, UpTo
  <2> QED
    BY <2>3 DEF T
<1>14. LeftBy(f, turns, x, n)
  BY <1>12 DEF LeftBy
<1> QED
  BY ONLY <1>11, <1>13, <1>14

(* The same of what the last turn leaves.                                  *)
LEMMA LoopKeeps ==
    ASSUME NEW n \in Nat, NEW turns, turns = [i \in 1..n |-> turns[i]],
           NEW X, NEW P \in [0..n -> SUBSET X], NEW x \in P[0],
           \A i \in 1..n : \A y \in P[i - 1] : turns[i][y] \in P[i]
    PROVE  Loop(turns, x) \in P[n]
<1>1. Turned(turns, n) /\ Leads(turns, P, n)
  BY DEF Turned, Leads
<1>2. PICK f : /\ Loop(turns, x) = f[n] /\ LeftBy(f, turns, x, n)
               /\ \A i \in 0..n : f[i] \in P[i]
  <2>1. n \in Nat /\ P \in [0..n -> SUBSET X] /\ x \in P[0]
    OBVIOUS
  <2> QED
    BY ONLY <1>1, <2>1, LoopIs
<1> QED
  BY <1>2

(* A loop of turns that stay in one set.                                   *)
LEMMA LoopStays ==
    ASSUME NEW n \in Nat, NEW turns, Turned(turns, n),
           NEW X, NEW x \in X, \A i \in 1..n : \A y \in X : turns[i][y] \in X
    PROVE  \E f : Loop(turns, x) = f[n] /\ LeftBy(f, turns, x, n)
<1> DEFINE P == [i \in 0..n |-> X]
<1>1. P \in [0..n -> SUBSET X] /\ x \in P[0]
  OBVIOUS
<1>2. Leads(turns, P, n)
  <2>1. \A i \in 1..n : i \in 0..n /\ i - 1 \in 0..n
    OBVIOUS
  <2> QED
    BY <2>1 DEF Leads
<1> HIDE DEF P
<1> QED
  BY <1>1, <1>2, LoopIs

(* Two loops of as many turns, which keep a relation between what they     *)
(* leave.                                                                  *)
LEMMA LoopsKeep ==
    ASSUME NEW n \in Nat, NEW turns, Turned(turns, n), NEW others, Turned(others, n),
           NEW X, NEW x \in X, \A i \in 1..n : \A y \in X : turns[i][y] \in X,
           NEW Z, NEW z \in Z, \A i \in 1..n : \A y \in Z : others[i][y] \in Z,
           NEW R, <<x, z>> \in R,
           \A i \in 1..n : \A y, w : <<y, w>> \in R => <<turns[i][y], others[i][w]>> \in R
    PROVE  <<Loop(turns, x), Loop(others, z)>> \in R
<1>1. PICK f : Loop(turns, x) = f[n] /\ LeftBy(f, turns, x, n)
  BY LoopStays
<1>2. PICK g : Loop(others, z) = g[n] /\ LeftBy(g, others, z, n)
  BY LoopStays
<1> DEFINE T == {i \in 0..n : <<f[i], g[i]>> \in R}
<1>3. T \in SUBSET (0..n) /\ 0 \in T
  BY <1>1, <1>2 DEF LeftBy
<1>4. ASSUME NEW i \in 1..n, i - 1 \in T PROVE i \in T
  <2>1. <<f[i - 1], g[i - 1]>> \in R
    BY <1>4
  <2>2. <<turns[i][f[i - 1]], others[i][g[i - 1]]>> \in R
    BY <2>1
  <2>3. f[i] = turns[i][f[i - 1]] /\ g[i] = others[i][g[i - 1]] /\ i \in 0..n
    BY <1>1, <1>2 DEF LeftBy
  <2> QED
    BY ONLY <2>2, <2>3
<1>5. n \in T
  <2> HIDE DEF T
  <2>1. T = 0..n
    BY <1>3, <1>4, UpTo
  <2> QED
    BY <2>1
<1> QED
  BY <1>1, <1>2, <1>5
==============================================================================
