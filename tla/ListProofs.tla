----------------------------- MODULE ListProofs -----------------------------
(***************************************************************************)
(* The lists of scripts, for every number of elements and keys: the        *)
(* invariants of Lists, and that it implements ScriptList; then what       *)
(* serialisation and comparison make of them, whatever their elements,     *)
(* keys and values are and however deep they are nested.                   *)
(***************************************************************************)
EXTENDS StructProofs, SerialProofs, Containers

(* variable_part, where start is within the list and a negative n counts   *)
(* back from its end.                                                      *)
LEMMA KeepsVariablePart ==
    ASSUME NEW a, NEW s, Keeps(a, s), NEW start \in Nat, start <= Len(s),
           NEW n \in Int, start + n <= Len(s)
    PROVE  Keeps(VariablePart(a, start, n),
                 SubSeq(s, start + 1, IF n < 0 THEN Len(s) + n + 1 ELSE start + n))
<1> DEFINE m == IF n < 0 THEN a.length + n + 1 - start ELSE n
           length == IF m < 0 THEN 0 ELSE m
           end == IF n < 0 THEN Len(s) + n + 1 ELSE start + n
<1>1. s \in Seq(Cells) /\ a.length = Len(s) /\ Len(s) \in Nat
  BY KeepsIs
<1>2. /\ m \in Int /\ length \in Nat /\ start + length <= Len(s) /\ end \in Int
      /\ (m < 0 => end < start) /\ (~(m < 0) => start + length = end)
  <2>1. CASE n < 0
    BY <1>1, <2>1
  <2>2. CASE ~(n < 0)
    BY <1>1, <2>2
  <2> QED
    BY <2>1, <2>2
<1>3. VariablePart(a, start, n) = IF a.length = 0 \/ start > a.length THEN NewSize(0)
                                  ELSE NewList[Elements(ArrayPart(a, start, length))]
  BY DEF VariablePart
<1> HIDE DEF m, length, end
<1>4. SubSeq(s, start + 1, start + length) = SubSeq(s, start + 1, end)
  <2>1. CASE m < 0
    <3>1. length = 0
      BY <2>1 DEF length
    <3>2. start + length < start + 1 /\ end < start + 1
      BY <1>2, <2>1, <3>1
    <3>3. start + 1 \in Int /\ start + length \in Int /\ end \in Int
      BY <1>2
    <3> QED
      BY <3>2, <3>3, SubSeqEmpty
  <2>2. CASE ~(m < 0)
    BY <1>2, <2>2
  <2> QED
    BY <2>1, <2>2
<1>5. CASE Len(s) = 0
  <2>1. start + 1 = 1 /\ start + length = 0
    BY <1>1, <1>2, <1>5
  <2>2. SubSeq(s, start + 1, start + length) = <<>>
    BY <1>1, <2>1, WholeSeq
  <2> QED
    BY <1>1, <1>3, <1>4, <1>5, <2>2, KeepsNone DEF end
<1>6. CASE Len(s) # 0
  <2> DEFINE p == ArrayPart(a, start, length)
             t == SubSeq(s, start + 1, start + length)
  <2>1. Keeps(p, t)
    BY <1>2, KeepsPart
  <2>2. Elements(p) = t /\ t \in Seq(Cells)
    BY <2>1, KeepsIs
  <2>3. Keeps(NewList[t], t)
    BY <2>2, NewKeeps
  <2>4. VariablePart(a, start, n) = NewList[t]
    BY <1>1, <1>3, <1>6, <2>2
  <2> HIDE DEF t
  <2>5. Keeps(VariablePart(a, start, n), t)
    BY <2>3, <2>4
  <2> QED
    BY <1>4, <2>5 DEF end, t
<1> QED
  BY <1>5, <1>6

(* insert(x, position) appends x.                                          *)
LEMMA KeepsInsert ==
    ASSUME NEW a, NEW s, Keeps(a, s), NEW x \in Cells
    PROVE  Keeps(InsertAtEnd(a, x), Append(s, x))
<1> DEFINE c == ArrayCopy(a)
           one == ArraySet(NewSize(1), 0, x)
           insertion == NewList[Elements(one)]
           first == VariablePart(c, 0, a.length)
           second == VariablePart(c, a.length, -1)
<1>1. s \in Seq(Cells) /\ a.length = Len(s) /\ Len(s) \in Nat /\ Append(s, x) = s \o <<x>>
      /\ <<x>> \in Seq(Cells)
  BY KeepsIs, AppendIsConcat
<1>2. Keeps(c, s)
  BY KeepsCopy
<1>3. Keeps(insertion, <<x>>)
  <2>1. Keeps(one, Append(<<>>, x)) /\ Append(<<>>, x) = <<x>>
    <3> DEFINE z == NewSize(1)
    <3>1. Keeps(z, <<>>) /\ z.length = 0
      BY KeepsNone
    <3> HIDE DEF z
    <3>2. Keeps(ArraySet(z, z.length, x), Append(<<>>, x))
      BY <3>1, KeepsEnd
    <3>3. Append(<<>>, x) = <<x>>
      OBVIOUS
    <3> QED
      BY <3>1, <3>2, <3>3 DEF z
  <2>2. Elements(one) = <<x>>
    BY <2>1, KeepsIs
  <2> QED
    BY <1>1, <2>2, NewKeeps
<1>4. Keeps(first, s)
  <2>1. 0 <= Len(s) /\ 0 + Len(s) <= Len(s) /\ ~(Len(s) < 0) /\ 0 + Len(s) = Len(s) /\ 0 + 1 = 1
        /\ Len(s) \in Int
    BY <1>1
  <2>2. Keeps(VariablePart(c, 0, Len(s)), SubSeq(s, 0 + 1, IF Len(s) < 0 THEN Len(s) + Len(s) + 1 ELSE 0 + Len(s)))
    BY <1>2, <2>1, KeepsVariablePart
  <2>3. (IF Len(s) < 0 THEN Len(s) + Len(s) + 1 ELSE 0 + Len(s)) = Len(s)
    BY <2>1
  <2>4. SubSeq(s, 1, Len(s)) = s
    BY <1>1, WholeSeq
  <2> QED
    BY <1>1, <2>1, <2>2, <2>3, <2>4
<1>5. Keeps(second, <<>>)
  <2>1. Len(s) <= Len(s) /\ Len(s) + (-1) <= Len(s) /\ -1 < 0 /\ Len(s) + (-1) + 1 = Len(s) /\ -1 \in Int
    BY <1>1
  <2>2. Keeps(VariablePart(c, Len(s), -1), SubSeq(s, Len(s) + 1, IF -1 < 0 THEN Len(s) + (-1) + 1 ELSE Len(s) + (-1)))
    BY <1>1, <1>2, <2>1, KeepsVariablePart
  <2>3. (IF -1 < 0 THEN Len(s) + (-1) + 1 ELSE Len(s) + (-1)) = Len(s)
    BY <2>1
  <2>4. SubSeq(s, Len(s) + 1, Len(s)) = <<>>
    BY <1>1, WholeSeq
  <2> QED
    BY <1>1, <2>2, <2>3, <2>4
<1>6. InsertAtEnd(a, x) = ArrayCopy(ArrayAppend(ArrayAppend(ArrayCopy(first), insertion), second))
  BY DEF InsertAtEnd
<1> HIDE DEF first, insertion, second
<1>7. Keeps(ArrayAppend(ArrayCopy(first), insertion), s \o <<x>>)
  BY <1>3, <1>4, KeepsCopy, KeepsAppend
<1>8. Keeps(ArrayAppend(ArrayAppend(ArrayCopy(first), insertion), second), (s \o <<x>>) \o <<>>)
  BY <1>5, <1>7, KeepsAppend
<1>9. (s \o <<x>>) \o <<>> = Append(s, x)
  <2>1. Append(s, x) \in Seq(Cells)
    BY <1>1
  <2> QED
    BY <1>1, <2>1, WholeSeq
<1> QED
  BY <1>6, <1>8, <1>9, KeepsCopy

-----------------------------------------------------------------------------
(* The list v, as its author sees it: the sequence s and the map f.        *)
Seen == [seq : Seq(Cells), map : [Keys -> Cells]]
Shows(v, q) == /\ v = [ordered |-> v.ordered, dic |-> v.dic] /\ q \in Seen
               /\ Keeps(v.ordered, q.seq) /\ Tidy(v.dic)
               /\ \A k \in Keys : DicGet(v.dic, k) = q.map[k]

(* A list as its author sees it.                                           *)
LEMMA SeenIs ==
    ASSUME NEW q \in Seen
    PROVE  q = [seq |-> q.seq, map |-> q.map] /\ q.seq \in Seq(Cells) /\ q.map \in [Keys -> Cells]
  BY DEF Seen

(* What shows a sequence and a map.                                        *)
LEMMA ShownIs ==
    ASSUME NEW a, NEW m, NEW s, NEW f, Keeps(a, s), Tidy(m), f \in [Keys -> Cells],
           \A k \in Keys : DicGet(m, k) = f[k]
    PROVE  Shows([ordered |-> a, dic |-> m], [seq |-> s, map |-> f])
<1>1. s \in Seq(Cells)
  BY DEF Keeps
<1> QED
  BY <1>1 DEF Shows, Seen

(* What a dic gives is a value or Null.                                    *)
LEMMA GetIs ==
    ASSUME NEW m, Tidy(m), NEW k \in Keys
    PROVE  DicGet(m, k) \in Cells
<1> DEFINE c == m[Bucket(k)]
<1>1. c \in Seq(Entries) /\ DicGet(m, k) = Val(c, k)
  BY BucketIs, DicGetIs DEF Tidy, Proper
<1> HIDE DEF c
<1>2. CASE At(c, k) = {}
  BY <1>1, <1>2 DEF Val, Cells
<1>3. CASE At(c, k) # {}
  <2>1. At(c, k) \in SUBSET Nat /\ At(c, k) \subseteq DOMAIN c
    BY <1>1 DEF At
  <2>2. Min(At(c, k)) \in DOMAIN c
    BY <1>3, <2>1, LeastIs
  <2>3. c[Min(At(c, k))].val \in Values
    BY <1>1, <2>2, EntryIs
  <2> QED
    BY <1>1, <1>3, <2>3 DEF Val, Cells
<1> QED
  BY <1>2, <1>3

(* "setting a value to nil means removing the key".                        *)
LEMMA PutIs ==
    ASSUME NEW m, Tidy(m), NEW k \in Keys, NEW v \in Cells
    PROVE  Tidy(VariableDicInsert(m, k, v)) /\ Changed(VariableDicInsert(m, k, v), m, k, v)
<1>1. CASE v = Null
  BY <1>1, RemoveIs DEF VariableDicInsert
<1>2. CASE v # Null
  <2>1. v \in Values
    BY <1>2 DEF Cells
  <2> QED
    BY <1>2, <2>1, InsertIs DEF VariableDicInsert
<1> QED
  BY <1>1, <1>2

(* A copy of a list shows what the list does.                              *)
LEMMA CopyShows ==
    ASSUME NEW v, NEW q, Shows(v, q)
    PROVE  Shows(VariableCopy(v), q)
<1>1. q \in Seen /\ Keeps(v.ordered, q.seq) /\ Tidy(v.dic) /\ \A k \in Keys : DicGet(v.dic, k) = q.map[k]
  BY DEF Shows
<1>2. Keeps(ArrayCopy(v.ordered), q.seq)
  BY <1>1, KeepsCopy
<1>3. Tidy(DicCopy(v.dic)) /\ \A k \in Keys : DicGet(DicCopy(v.dic), k) = q.map[k]
  BY <1>1, CopyIs
<1>4. VariableCopy(v) = [ordered |-> ArrayCopy(v.ordered), dic |-> DicCopy(v.dic)]
  BY DEF VariableCopy
<1> QED
  BY <1>1, <1>2, <1>3, <1>4 DEF Shows

-----------------------------------------------------------------------------
(* ScriptList knows these lists too.                                       *)
LEMMA SeenByScript == Seen = Script!Lists
  BY DEF Seen, Script!Lists, Cells, Script!Cells

(* A number is the least of a set, if none of it is less.                  *)
LEMMA LeastOne ==
    ASSUME NEW T \in SUBSET Nat, NEW m \in T, \A n \in T : m <= n
    PROVE  Min(T) = m
<1>1. T # {}
  OBVIOUS
<1>2. Min(T) \in T /\ \A n \in T : Min(T) <= n
  BY <1>1, LeastIs
<1>3. Min(T) \in Nat /\ m \in Nat /\ Min(T) <= m /\ m <= Min(T)
  BY <1>2
<1> QED
  BY <1>3

(* The operator -, of a list and one value.                                *)
LEMMA PurgeIs ==
    ASSUME NEW v, NEW q, Shows(v, q), NEW x \in Cells
    PROVE  Shows(Purge(v, x), Script!Without(q, x))
<1> DEFINE a == v.ordered
           m == v.dic
           s == q.seq
           f == q.map
           T == {i \in DOMAIN s : s[i] = x}
<1>1. /\ v = [ordered |-> a, dic |-> m] /\ q = [seq |-> s, map |-> f] /\ f \in [Keys -> Cells]
      /\ Keeps(a, s) /\ Tidy(m) /\ \A k \in Keys : DicGet(m, k) = f[k]
  BY SeenIs DEF Shows
<1> HIDE DEF a, m, s, f
<1>2. s \in Seq(Cells) /\ a.length = Len(s) /\ Len(s) \in Nat /\ DOMAIN s = 1..Len(s)
  BY <1>1, KeepsIs
<1>3. Holds(a, x) = T
  <2>1. \A i \in 1..Len(s) : a.cells[i] = s[i]
    BY <1>1 DEF Keeps
  <2> QED
    BY <1>2, <2>1 DEF Holds
<1>4. T \in SUBSET Nat /\ T \in SUBSET (1..Len(s))
  BY <1>2
<1>5. Script!Without(q, x) = IF T # {} THEN [q EXCEPT !.seq = RemoveAt(@, Min(T))]
                             ELSE [q EXCEPT !.map = [k \in Keys |-> IF k = x THEN Null ELSE @[k]]]
  <2>1. \A S : Script!Min(S) = Min(S)
    BY DEF Script!Min, Min
  <2>2. \A r, i : Script!RemoveAt(r, i) = RemoveAt(r, i)
    BY DEF Script!RemoveAt, RemoveAt
  <2> QED
    BY <2>1, <2>2 DEF Script!Without, T, s
<1> HIDE DEF T
<1>6. CASE T = {}
  <2> DEFINE d == IF x \in Keys THEN DicRemove(m, x) ELSE m
             g == [k \in Keys |-> IF k = x THEN Null ELSE f[k]]
  <2>1. Purge(v, x) = [ordered |-> a, dic |-> d]
    <3>1. VariableFind(v.ordered, x) = -1
      BY <1>3, <1>6 DEF VariableFind, a
    <3>2. Purge(v, x) = [v EXCEPT !.dic = IF x \in Keys THEN DicRemove(@, x) ELSE @]
      BY <3>1 DEF Purge
    <3> QED
      BY <1>1, <3>2 DEF m
  <2>2. Script!Without(q, x) = [seq |-> s, map |-> g]
    BY <1>1, <1>5, <1>6
  <2>3. g \in [Keys -> Cells]
    BY <1>1 DEF Cells
  <2>4. Tidy(d) /\ \A k \in Keys : DicGet(d, k) = g[k]
    <3>1. CASE x \in Keys
      <4>1. Tidy(DicRemove(m, x)) /\ Changed(DicRemove(m, x), m, x, Null)
        BY <1>1, <3>1, RemoveIs
      <4> QED
        BY <1>1, <3>1, <4>1 DEF Changed
    <3>2. CASE x \notin Keys
      BY <1>1, <3>2
    <3> QED
      BY <3>1, <3>2
  <2> HIDE DEF d, g
  <2> QED
    BY <1>1, <2>1, <2>2, <2>3, <2>4, ShownIs
<1>7. CASE T # {}
  <2> DEFINE p == Min(T)
             start == p - 1
             b == ArrayRemove(a, start, 1)
             t == RemoveAt(s, p)
  <2>1. p \in 1..Len(s)
    BY <1>4, <1>7, LeastIs
  <2> HIDE DEF p
  <2>2. start \in Nat /\ start # -1 /\ start < Len(s) /\ start + 1 = p /\ start <= Len(s)
        /\ start + 1 <= Len(s)
    BY <2>1
  <2>3. Keeps(b, t)
    <3>1. Removable(a, start, 1)
      BY <1>2, <2>2 DEF Removable
    <3> HIDE DEF start
    <3>2. 1 \in Int /\ 1 = IF 1 < 0 THEN Len(s) - start ELSE 1
      OBVIOUS
    <3>3. Keeps(ArrayRemove(a, start, 1), SubSeq(s, 1, start) \o SubSeq(s, start + 1 + 1, Len(s)))
      BY <1>1, <2>2, <3>1, <3>2, KeepsRemove
    <3>4. t = SubSeq(s, 1, start) \o SubSeq(s, start + 1 + 1, Len(s))
      BY <2>2 DEF RemoveAt, start
    <3> QED
      BY <3>3, <3>4
  <2>4. Purge(v, x) = [ordered |-> b, dic |-> m]
    <3>1. VariableFind(v.ordered, x) = start
      BY <1>3, <1>7 DEF VariableFind, a, p
    <3>2. Purge(v, x) = [v EXCEPT !.ordered = ArrayRemove(@, start, 1)]
      BY <2>2, <3>1 DEF Purge
    <3> QED
      BY <1>1, <3>2 DEF a
  <2>5. Script!Without(q, x) = [seq |-> t, map |-> f]
    BY <1>1, <1>5, <1>7 DEF p
  <2> HIDE DEF b, t
  <2> QED
    BY <1>1, <2>3, <2>4, <2>5, ShownIs
<1> QED
  BY <1>6, <1>7

(* What shows a list is a variable.                                        *)
LEMMA ShowsVariable ==
    ASSUME NEW v, NEW q, Shows(v, q)
    PROVE  v \in Variables /\ q \in Seen
<1>1. v = [ordered |-> v.ordered, dic |-> v.dic] /\ q \in Seen /\ v.ordered \in Arrays /\ v.dic \in Dics
  BY KeepsIs DEF Shows, Tidy
<1> QED
  BY <1>1 DEF Variables

(* The operator -, of a list and a list's elements.                        *)
LEMMA PurgeAllIs ==
    ASSUME NEW v, NEW q, Shows(v, q), NEW t \in Seq(Cells)
    PROVE  Shows(PurgeAll[v][t],
                 Loop([i \in DOMAIN t |-> [r \in Seen |-> Script!Without(r, t[i])]], q))
<1> DEFINE n == Len(t)
           turns == [i \in 1..n |-> [u \in Variables |-> Purge(u, t[i])]]
           others == [i \in 1..n |-> [r \in Seen |-> Script!Without(r, t[i])]]
           X == {u \in Variables : \E r : Shows(u, r)}
           Z == {r \in Seen : \E u : Shows(u, r)}
           R == {p \in X \X Z : Shows(p[1], p[2])}
<1>1. n \in Nat /\ DOMAIN t = 1..n /\ \A i \in 1..n : t[i] \in Cells
  OBVIOUS
<1>2. v \in Variables /\ q \in Seen
  BY ShowsVariable
<1>3. PurgeAll[v][t] = Loop(turns, v)
  <2>1. PurgeAll[v][t] = Loop([i \in DOMAIN t |-> [u \in Variables |-> Purge(u, t[i])]], v)
    BY <1>2 DEF PurgeAll
  <2> QED
    BY <1>1, <2>1
<1>4. Turned(turns, n) /\ Turned(others, n)
  BY DEF Turned
<1>5. ASSUME NEW i \in 1..n, NEW u, NEW r, Shows(u, r)
      PROVE  /\ u \in X /\ r \in Z /\ <<u, r>> \in R
             /\ Shows(turns[i][u], others[i][r])
             /\ turns[i][u] \in X /\ others[i][r] \in Z /\ <<turns[i][u], others[i][r]>> \in R
  <2>1. u \in Variables /\ r \in Seen
    BY <1>5, ShowsVariable
  <2>2. turns[i][u] = Purge(u, t[i]) /\ others[i][r] = Script!Without(r, t[i])
    BY <2>1
  <2>3. Shows(Purge(u, t[i]), Script!Without(r, t[i]))
    BY <1>1, <1>5, PurgeIs
  <2>4. Purge(u, t[i]) \in Variables /\ Script!Without(r, t[i]) \in Seen
    BY <2>3, ShowsVariable
  <2> HIDE DEF turns, others
  <2> QED
    BY <1>5, <2>1, <2>2, <2>3, <2>4
<1>6. v \in X /\ q \in Z /\ <<v, q>> \in R
  BY <1>2
<1>7. \A p \in R : Shows(p[1], p[2])
  OBVIOUS
<1>8. \A u, r : <<u, r>> \in R => Shows(u, r)
  BY <1>7
<1>9. (\A u \in X : \E r : Shows(u, r)) /\ (\A r \in Z : \E u : Shows(u, r))
  OBVIOUS
<1> HIDE DEF X, Z, R, n, turns, others
<1>10. <<Loop(turns, v), Loop(others, q)>> \in R
  <2>1. \A i \in 1..n : \A u \in X : turns[i][u] \in X
    BY <1>5, <1>9
  <2>2. \A i \in 1..n : \A r \in Z : others[i][r] \in Z
    BY <1>5, <1>9
  <2>3. \A i \in 1..n : \A u, r : <<u, r>> \in R => <<turns[i][u], others[i][r]>> \in R
    BY <1>5, <1>8
  <2> QED
    BY <1>1, <1>4, <1>6, <2>1, <2>2, <2>3, LoopsKeep
<1>11. Shows(Loop(turns, v), Loop(others, q))
  BY <1>8, <1>10
<1> QED
  BY <1>1, <1>3, <1>11 DEF others

-----------------------------------------------------------------------------
(* Joining three sequences.                                                *)
LEMMA Associative ==
    ASSUME NEW s \in Seq(Cells), NEW t \in Seq(Cells), NEW u \in Seq(Cells)
    PROVE  (s \o t) \o u = s \o (t \o u)
  BY ConcatAssociative

IsPair(item) == "key" \in DOMAIN item

(* An item of a literal is a pair or an element.                           *)
LEMMA ItemIs ==
    ASSUME NEW item \in Items
    PROVE  IF IsPair(item) THEN item.key \in Keys /\ item.val \in Cells ELSE item.val \in Values
<1>1. CASE item \in [val : Values]
  <2>1. DOMAIN item = {"val"} /\ item.val \in Values
    BY <1>1
  <2> QED
    BY <2>1 DEF IsPair
<1>2. CASE item \in [key : Keys, val : Cells]
  <2>1. DOMAIN item = {"key", "val"} /\ item.key \in Keys /\ item.val \in Cells
    BY <1>2
  <2> QED
    BY <2>1 DEF IsPair
<1> QED
  BY <1>1, <1>2 DEF Items

(* The pairs for k among the items behind j, and the value of the first.   *)
PairsFor(items, k, j) == {i \in j + 1..Len(items) : IsPair(items[i]) /\ items[i].key = k}
Given(items, k, j) == IF PairsFor(items, k, j) = {} THEN Null ELSE items[Min(PairsFor(items, k, j))].val

(* One more item before those behind j.                                    *)
LEMMA GivenNext ==
    ASSUME NEW items \in Seq(Items), NEW j \in 1..Len(items), NEW k
    PROVE  Given(items, k, j - 1) = IF IsPair(items[j]) /\ items[j].key = k THEN items[j].val
                                    ELSE Given(items, k, j)
<1> DEFINE T == PairsFor(items, k, j)
           U == PairsFor(items, k, j - 1)
<1>1. (j - 1) + 1 = j /\ j..Len(items) = {j} \cup (j + 1..Len(items))
  OBVIOUS
<1>2. CASE IsPair(items[j]) /\ items[j].key = k
  <2>1. j \in U
    BY <1>1, <1>2 DEF PairsFor
  <2>2. U \in SUBSET Nat /\ \A i \in U : j <= i
    BY <1>1 DEF PairsFor
  <2> HIDE DEF U
  <2>3. Min(U) = j /\ U # {}
    BY <2>1, <2>2, LeastOne
  <2> QED
    BY <1>2, <2>3 DEF Given, U
<1>3. CASE ~(IsPair(items[j]) /\ items[j].key = k)
  <2>1. U = T
    BY <1>1, <1>3 DEF PairsFor
  <2> QED
    BY <1>3, <2>1 DEF Given
<1> QED
  BY <1>2, <1>3

(* The list of a literal.                                                  *)
LEMMA PushIs ==
    ASSUME NEW items \in Seq(Items)
    PROVE  Shows(PushList(items),
                 [seq |-> Script!ElementsOf(items), map |-> Script!PairsOf(items)])
<1> DEFINE n == Len(items)
           ss == [i \in 1..n |-> IF IsPair(items[i]) THEN <<>> ELSE <<items[i].val>>]
           whole == Script!ElementsOf(items)
<1>1. n \in Nat /\ DOMAIN items = 1..n /\ \A i \in 1..n : items[i] \in Items
  OBVIOUS
<1>2. ss \in Seq(Seq(Cells)) /\ Len(ss) = n
  <2>1. \A i \in 1..n : (IF IsPair(items[i]) THEN <<>> ELSE <<items[i].val>>) \in Seq(Cells)
    <3> TAKE i \in 1..n
    <3>1. CASE IsPair(items[i])
      BY <3>1
    <3>2. CASE ~IsPair(items[i])
      <4>1. items[i].val \in Cells
        BY <1>1, <3>2, ItemIs DEF Cells
      <4> QED
        BY <3>2, <4>1
    <3> QED
      BY <3>1, <3>2
  <2> QED
    BY <1>1, <2>1
<1>3. \A i \in 1..n : ss[i] = IF IsPair(items[i]) THEN <<>> ELSE <<items[i].val>>
  OBVIOUS
<1>4. whole = FlattenSeq(ss)
  <2>1. \A rr : Script!FlattenSeq(rr) = FlattenSeq(rr)
    BY DEF Script!FlattenSeq, FlattenSeq
  <2>2. whole = Script!FlattenSeq(ss)
    BY <1>1 DEF Script!ElementsOf, Script!IsPair, IsPair
  <2> QED
    BY <2>1, <2>2
<1> HIDE DEF n, ss, whole
<1>5. PICK g \in [0..n -> Seq(Cells)] : /\ whole = g[n] /\ g[0] = <<>>
                                        /\ \A i \in 1..n : g[i] = g[i - 1] \o ss[i]
  BY <1>2, <1>4, FlattenFrom
<1> DEFINE Rest(v, j) == /\ v = [ordered |-> v.ordered, dic |-> v.dic] /\ Tidy(v.dic)
                         /\ \E r : Keeps(v.ordered, r) /\ g[j] \o r = whole
                         /\ \A k \in Keys : DicGet(v.dic, k) = Given(items, k, j)
           P == [i \in 0..n |-> {v \in Variables : Rest(v, n - i)}]
           turns == [i \in 1..n |-> [v \in Variables |-> Taken(v, items[n + 1 - i])]]
<1>6. ASSUME NEW j \in 1..n, NEW v, Rest(v, j)
      PROVE  Rest(Taken(v, items[j]), j - 1) /\ Taken(v, items[j]) \in Variables
  <2> DEFINE a == v.ordered
             m == v.dic
             item == items[j]
  <2>1. v = [ordered |-> a, dic |-> m] /\ Tidy(m) /\ \A k \in Keys : DicGet(m, k) = Given(items, k, j)
    BY <1>6
  <2>2. PICK r : Keeps(a, r) /\ g[j] \o r = whole
    BY <1>6
  <2>3. r \in Seq(Cells) /\ g[j - 1] \in Seq(Cells) /\ g[j] = g[j - 1] \o ss[j] /\ ss[j] \in Seq(Cells)
    <3>1. j - 1 \in 0..n
      BY <1>1
    <3>2. r \in Seq(Cells)
      BY <2>2 DEF Keeps
    <3>3. ss[j] \in Seq(Cells)
      BY <1>2
    <3> QED
      BY <1>5, <3>1, <3>2, <3>3
  <2> HIDE DEF a, m, Rest
  <2>4. CASE IsPair(item)
    <3> DEFINE d == VariableDicInsert(m, item.key, item.val)
    <3>1. item.key \in Keys /\ item.val \in Cells
      BY <1>1, <2>4, ItemIs
    <3>2. Taken(v, item) = [ordered |-> a, dic |-> d]
      BY <2>1, <2>4 DEF Taken, IsPair
    <3>3. Tidy(d) /\ Changed(d, m, item.key, item.val)
      BY <2>1, <3>1, PutIs
    <3> HIDE DEF d
    <3>4. \A k \in Keys : DicGet(d, k) = Given(items, k, j - 1)
      BY <2>1, <2>4, <3>3, GivenNext DEF Changed, n
    <3>5. g[j - 1] \o r = whole
      <4>1. g[j] = g[j - 1]
        BY <1>3, <2>3, <2>4, WholeSeq
      <4> QED
        BY <2>2, <4>1
    <3>6. Rest([ordered |-> a, dic |-> d], j - 1)
      BY <2>2, <3>3, <3>4, <3>5 DEF Rest
    <3>7. [ordered |-> a, dic |-> d] \in Variables
      BY <2>2, <3>3, KeepsIs DEF Tidy, Variables
    <3> QED
      BY <3>2, <3>6, <3>7
  <2>5. CASE ~IsPair(item)
    <3> DEFINE b == ArrayInsert(a, 0, item.val)
               one == <<item.val>>
    <3>1. item.val \in Cells
      BY <1>1, <2>5, ItemIs DEF Cells
    <3>2. Taken(v, item) = [ordered |-> b, dic |-> m]
      BY <2>1, <2>5 DEF Taken, IsPair
    <3>3. Keeps(b, one \o r)
      BY <2>2, <3>1, KeepsFirst
    <3>4. one \in Seq(Cells) /\ g[j] = g[j - 1] \o one
      BY <1>3, <2>3, <2>5, <3>1
    <3> HIDE DEF b, one
    <3>5. \A k \in Keys : DicGet(m, k) = Given(items, k, j - 1)
      BY <2>1, <2>5, GivenNext DEF n
    <3>6. g[j - 1] \o (one \o r) = whole
      <4>1. (g[j - 1] \o one) \o r = g[j - 1] \o (one \o r)
        BY <2>3, <3>4, Associative
      <4> QED
        BY <2>2, <3>4, <4>1
    <3>7. Rest([ordered |-> b, dic |-> m], j - 1)
      BY <2>1, <3>3, <3>5, <3>6 DEF Rest
    <3>8. [ordered |-> b, dic |-> m] \in Variables
      BY <2>1, <3>3, KeepsIs DEF Tidy, Variables
    <3> QED
      BY <3>2, <3>7, <3>8
  <2> QED
    BY <2>4, <2>5
<1>7. PushList(items) = Loop(turns, EmptyList)
  BY <1>1 DEF PushList, n
<1>8. turns = [i \in 1..n |-> turns[i]]
  OBVIOUS
<1>9. P \in [0..n -> SUBSET Variables]
  OBVIOUS
<1>10. EmptyList \in P[0]
  <2>1. n - 0 = n /\ 0 \in 0..n /\ n \in 0..n
    BY <1>1
  <2>2. \A k \in Keys : Given(items, k, n) = Null
    BY <1>1 DEF Given, PairsFor, n
  <2>3. g[n] \o <<>> = whole
    BY <1>5, <2>1, WholeSeq
  <2>4. /\ EmptyList = [ordered |-> NewSize(0), dic |-> EmptyDic]
        /\ EmptyList.ordered = NewSize(0) /\ EmptyList.dic = EmptyDic
    BY DEF EmptyList
  <2>5. Rest(EmptyList, n)
    BY <2>2, <2>3, <2>4, KeepsNone, NoPairs
  <2>6. EmptyList \in Variables
    <3>1. NewSize(0) \in Arrays /\ EmptyDic \in Dics
      BY KeepsNone, KeepsIs, NoPairs DEF Tidy
    <3> QED
      BY <2>4, <3>1 DEF Variables
  <2> HIDE DEF Rest
  <2> QED
    BY <2>1, <2>5, <2>6
<1>11. ASSUME NEW i \in 1..n, NEW v \in P[i - 1] PROVE turns[i][v] \in P[i]
  <2> HIDE DEF Rest
  <2>1. /\ i - 1 \in 0..n /\ i \in 0..n /\ n + 1 - i \in 1..n
        /\ n - (i - 1) = n + 1 - i /\ n - i = (n + 1 - i) - 1
    BY <1>1
  <2>2. v \in Variables /\ Rest(v, n + 1 - i)
    BY <2>1
  <2>3. turns[i][v] = Taken(v, items[n + 1 - i])
    BY <2>2
  <2>4. Rest(Taken(v, items[n + 1 - i]), (n + 1 - i) - 1) /\ Taken(v, items[n + 1 - i]) \in Variables
    BY <1>6, <2>1, <2>2
  <2> QED
    BY <2>1, <2>3, <2>4
<1> DEFINE l == PushList(items)
<1>12. l \in P[n]
  <2> HIDE DEF P, turns, Rest, l
  <2>1. Loop(turns, EmptyList) \in P[n]
    BY <1>1, <1>8, <1>9, <1>10, <1>11, LoopKeeps
  <2> QED
    BY <1>7, <2>1 DEF l
<1>13. Rest(l, 0)
  <2> HIDE DEF Rest
  <2>1. n - n = 0 /\ n \in 0..n
    BY <1>1
  <2> HIDE DEF l
  <2> QED
    BY <1>12, <2>1
<1> HIDE DEF l
<1>14. PICK r : Keeps(l.ordered, r) /\ g[0] \o r = whole
  BY <1>13
<1>15. r = whole
  <2>1. r \in Seq(Cells)
    BY <1>14 DEF Keeps
  <2> QED
    BY <1>5, <1>14, <2>1, WholeSeq
<1>16. /\ Script!PairsOf(items) \in [Keys -> Cells]
       /\ \A k \in Keys : Script!PairsOf(items)[k] = Given(items, k, 0)
  <2>1. ASSUME NEW k \in Keys
        PROVE  Script!PairsOf(items)[k] = Given(items, k, 0)
    <3>1. \A S : Script!Min(S) = Min(S)
      BY DEF Script!Min, Min
    <3>2. {i \in DOMAIN items : Script!IsPair(items[i]) /\ items[i].key = k} = PairsFor(items, k, 0)
      BY <1>1 DEF Script!IsPair, IsPair, PairsFor, n
    <3> QED
      BY <3>1, <3>2 DEF Script!PairsOf, Given
  <2>2. \A k \in Keys : Given(items, k, 0) \in Cells
    <3> TAKE k \in Keys
    <3> DEFINE T == PairsFor(items, k, 0)
    <3>1. CASE T = {}
      BY <3>1 DEF Given, Cells
    <3>2. CASE T # {}
      <4>1. T \in SUBSET Nat /\ \A i \in T : i \in 1..n /\ IsPair(items[i])
        BY <1>1 DEF PairsFor, n
      <4>2. Min(T) \in T
        BY <3>2, <4>1, LeastIs
      <4>3. items[Min(T)].val \in Cells
        BY <1>1, <4>1, <4>2, ItemIs
      <4> QED
        BY <3>2, <4>3 DEF Given
    <3> QED
      BY <3>1, <3>2
  <2>3. Script!PairsOf(items) = [k \in Keys |-> Script!PairsOf(items)[k]]
    BY DEF Script!PairsOf
  <2> QED
    BY <2>1, <2>2, <2>3
<1>17. Keeps(l.ordered, whole) /\ l = [ordered |-> l.ordered, dic |-> l.dic] /\ Tidy(l.dic)
       /\ \A k \in Keys : DicGet(l.dic, k) = Script!PairsOf(items)[k]
  BY <1>13, <1>14, <1>15, <1>16
<1> QED
  BY <1>16, <1>17, ShownIs DEF l, whole

-----------------------------------------------------------------------------
(* The array keeps its elements in its memory, and a chain of the dic each *)
(* key of its bucket once.                                                 *)
IInv == ordered \in Arrays /\ Fits /\ Tidy(dic)

(* The list that there is, and what it is for its author.                  *)
Map  == [k \in Keys |-> DicGet(dic, k)]
View == [seq |-> Elements(ordered), map |-> Map]

(* The list shows its view.                                                *)
LEMMA Viewed ==
    ASSUME IInv
    PROVE  Shows(List, View) /\ Keeps(ordered, Elements(ordered)) /\ Map \in [Keys -> Cells]
<1>1. Keeps(ordered, Elements(ordered))
  BY ElementsKept DEF IInv, Fits, Room
<1>2. Tidy(dic) /\ Map \in [Keys -> Cells] /\ \A k \in Keys : DicGet(dic, k) = Map[k]
  BY GetIs DEF IInv, Map
<1>3. Shows([ordered |-> ordered, dic |-> dic], [seq |-> Elements(ordered), map |-> Map])
  <2> HIDE DEF Map
  <2> QED
    BY <1>1, <1>2, ShownIs
<1> QED
  BY <1>1, <1>2, <1>3 DEF List, View

(* A list that shows q, once it is the one that there is.                  *)
LEMMA Became ==
    ASSUME NEW v, NEW q, Shows(v, q), Become(v)
    PROVE  IInv' /\ Elements(ordered)' = q.seq /\ Map' = q.map
<1>1. Keeps(ordered', q.seq) /\ Tidy(dic') /\ \A k \in Keys : DicGet(dic', k) = q.map[k]
  BY DEF Shows, Become
<1>2. ordered' \in Arrays /\ Room(ordered') /\ Elements(ordered') = q.seq
  BY <1>1, KeepsIs
<1>3. q.map \in [Keys -> Cells]
  BY SeenIs DEF Shows
<1>4. Map' = q.map
  BY <1>1, <1>3 DEF Map
<1> QED
  BY <1>1, <1>2, <1>4 DEF IInv, Fits, Room

(* The array of a list is replaced, and its dic.                           *)
LEMMA ArrayShows ==
    ASSUME NEW v, NEW q, Shows(v, q), NEW a, NEW s, Keeps(a, s)
    PROVE  Shows([v EXCEPT !.ordered = a], [seq |-> s, map |-> q.map])
<1>1. q.map \in [Keys -> Cells]
  BY SeenIs DEF Shows
<1>2. [v EXCEPT !.ordered = a] = [ordered |-> a, dic |-> v.dic]
  BY DEF Shows
<1>3. Tidy(v.dic) /\ \A k \in Keys : DicGet(v.dic, k) = q.map[k]
  BY DEF Shows
<1>4. Shows([ordered |-> a, dic |-> v.dic], [seq |-> s, map |-> q.map])
  BY <1>1, <1>3, ShownIs
<1> QED
  BY <1>2, <1>4

(* A value is given to a key.                                              *)
LEMMA KeyShows ==
    ASSUME NEW v, NEW q, Shows(v, q), NEW k \in Keys, NEW x \in Cells
    PROVE  Shows([v EXCEPT !.dic = VariableDicInsert(v.dic, k, x)],
                 [seq |-> q.seq, map |-> [q.map EXCEPT ![k] = x]])
<1> DEFINE m == VariableDicInsert(v.dic, k, x)
           f == [q.map EXCEPT ![k] = x]
<1>1. q.map \in [Keys -> Cells]
  BY SeenIs DEF Shows
<1>2. /\ v = [ordered |-> v.ordered, dic |-> v.dic] /\ Keeps(v.ordered, q.seq)
      /\ Tidy(v.dic) /\ \A j \in Keys : DicGet(v.dic, j) = q.map[j]
  BY DEF Shows
<1>3. Tidy(m) /\ Changed(m, v.dic, k, x)
  BY <1>2, PutIs
<1> HIDE DEF m
<1>4. f \in [Keys -> Cells] /\ \A j \in Keys : DicGet(m, j) = f[j]
  BY <1>1, <1>2, <1>3 DEF Changed
<1>5. [v EXCEPT !.dic = m] = [ordered |-> v.ordered, dic |-> m]
  BY <1>2
<1> HIDE DEF f
<1>6. Shows([ordered |-> v.ordered, dic |-> m], [seq |-> q.seq, map |-> f])
  BY <1>2, <1>3, <1>4, ShownIs
<1> QED
  BY <1>5, <1>6 DEF m, f

-----------------------------------------------------------------------------
(* What each action makes of the list, and that it is what its author      *)
(* expects.                                                                *)
LEMMA LiteralIs ==
    ASSUME Literal
    PROVE  IInv' /\ Script!Literal
<1>1. PICK items \in Literals : Become(PushList(items))
  BY DEF Literal
<1>2. items \in Seq(Items)
  BY LiteralsAssumption
<1>3. Shows(PushList(items), [seq |-> Script!ElementsOf(items), map |-> Script!PairsOf(items)])
  BY <1>2, PushIs
<1>4. IInv' /\ Elements(ordered)' = Script!ElementsOf(items) /\ Map' = Script!PairsOf(items)
  BY <1>1, <1>3, Became
<1> QED
  BY <1>4 DEF Script!Literal, Map

(* l.k = v and l + (k:v).                                                  *)
LEMMA PutKeyIs ==
    ASSUME IInv, NEW k \in Keys, NEW v \in Cells, PutKey(k, v) \/ PlusPair(k, v)
    PROVE  IInv' /\ Script!PutKey(k, v)
<1>1. Shows(List, View) /\ Shows(VariableCopy(List), View)
  BY Viewed, CopyShows
<1>2. PICK u : Shows(u, View) /\ Become([u EXCEPT !.dic = VariableDicInsert(u.dic, k, v)])
  <2>1. CASE PutKey(k, v)
    BY <1>1, <2>1 DEF PutKey, Grow
  <2>2. CASE PlusPair(k, v)
    BY <1>1, <2>2 DEF PlusPair, Grow
  <2> QED
    BY <2>1, <2>2
<1>3. Shows([u EXCEPT !.dic = VariableDicInsert(u.dic, k, v)],
            [seq |-> View.seq, map |-> [View.map EXCEPT ![k] = v]])
  BY <1>2, KeyShows
<1>4. IInv' /\ Elements(ordered)' = View.seq /\ Map' = [View.map EXCEPT ![k] = v]
  BY <1>2, <1>3, Became
<1> QED
  BY <1>4 DEF Script!PutKey, View, Map

(* l + x and l.insert(x, position): both append.                           *)
LEMMA InsertIsAppend ==
    ASSUME IInv, NEW x \in Values, PlusElement(x) \/ Insert(x)
    PROVE  IInv' /\ Script!Insert(x)
<1>1. /\ Shows(List, View) /\ Shows(VariableCopy(List), View) /\ x \in Cells
      /\ Keeps(ordered, Elements(ordered))
  BY Viewed, CopyShows DEF Cells
<1>2. PICK u, a : /\ Shows(u, View) /\ Keeps(a, Append(Elements(ordered), x))
                  /\ Become([u EXCEPT !.ordered = a])
  <2>1. CASE PlusElement(x)
    <3>1. Become([VariableCopy(List) EXCEPT !.ordered = ArrayAdd(VariableCopy(List).ordered, x)])
      BY <2>1 DEF PlusElement, Grow
    <3>2. Keeps(VariableCopy(List).ordered, Elements(ordered))
      BY <1>1 DEF Shows, View
    <3>3. Keeps(ArrayAdd(VariableCopy(List).ordered, x), Append(Elements(ordered), x))
      BY <1>1, <3>2, KeepsAdd
    <3> QED
      BY <1>1, <3>1, <3>3
  <2>2. CASE Insert(x)
    <3>1. Become([List EXCEPT !.ordered = InsertAtEnd(List.ordered, x)]) /\ List.ordered = ordered
      BY <2>2 DEF Insert, Grow, List
    <3>2. Keeps(InsertAtEnd(ordered, x), Append(Elements(ordered), x))
      BY <1>1, KeepsInsert
    <3> QED
      BY <1>1, <3>1, <3>2
  <2> QED
    BY <2>1, <2>2
<1>3. Shows([u EXCEPT !.ordered = a], [seq |-> Append(Elements(ordered), x), map |-> View.map])
  BY <1>2, ArrayShows
<1>4. IInv' /\ Elements(ordered)' = Append(Elements(ordered), x) /\ Map' = View.map
  BY <1>2, <1>3, Became
<1> QED
  BY <1>4 DEF Script!Insert, View, Map

(* l - x.                                                                  *)
LEMMA MinusElementIs ==
    ASSUME IInv, NEW x \in Values, MinusElement(x)
    PROVE  IInv' /\ Script!MinusElement(x)
<1>1. Shows(VariableCopy(List), View) /\ x \in Cells
  BY Viewed, CopyShows DEF Cells
<1>2. Become(Purge(VariableCopy(List), x))
  BY DEF MinusElement
<1> DEFINE q == Script!Without(View, x)
<1>3. Shows(Purge(VariableCopy(List), x), q)
  BY <1>1, PurgeIs
<1> HIDE DEF q
<1>4. IInv' /\ Elements(ordered)' = q.seq /\ Map' = q.map
  BY <1>2, <1>3, Became
<1>5. q = [seq |-> q.seq, map |-> q.map]
  BY <1>3, SeenIs DEF Shows
<1>6. [seq |-> Elements(ordered)', map |-> Map'] = q
  BY <1>4, <1>5
<1> QED
  BY <1>4, <1>6 DEF Script!MinusElement, View, Map, q

(* l + [...].                                                              *)
LEMMA PlusListIs ==
    ASSUME IInv, NEW items \in Literals, PlusList(PushList(items))
    PROVE  IInv' /\ Script!PlusList(items)
<1> DEFINE v == PushList(items)
           u == VariableCopy(List)
           e == Script!ElementsOf(items)
           p == Script!PairsOf(items)
<1>1. Shows(u, View) /\ Map \in [Keys -> Cells]
  BY Viewed, CopyShows
<1>2. Shows(v, [seq |-> e, map |-> p])
  BY LiteralsAssumption, PushIs
<1>3. Become(ListPlus(List, v))
  BY DEF PlusList, Grow
<1> DEFINE a == AddAll[u.ordered][Elements(v.ordered)]
           m == DicUnion[u.dic][DicPairs(v.dic)]
           f == [k \in Keys |-> IF Map[k] # Null THEN Map[k] ELSE p[k]]
<1>4. ListPlus(List, v) = [ordered |-> a, dic |-> m]
  BY DEF ListPlus
<1> HIDE DEF v, u, e, p
<1>5. Keeps(a, Elements(ordered) \o e)
  <2>1. Keeps(u.ordered, Elements(ordered)) /\ Keeps(v.ordered, e)
    BY <1>1, <1>2 DEF Shows, View
  <2>2. Elements(v.ordered) = e /\ e \in Seq(Cells)
    BY <2>1, KeepsIs
  <2> QED
    BY <2>1, <2>2, AddAllKeeps
<1>6. Tidy(m) /\ \A k \in Keys : DicGet(m, k) = f[k]
  <2>1. Tidy(u.dic) /\ Tidy(v.dic) /\ \A k \in Keys : DicGet(u.dic, k) = Map[k] /\ DicGet(v.dic, k) = p[k]
    BY <1>1, <1>2 DEF Shows, View
  <2>2. /\ DicPairs(v.dic) \in Seq(Entries) /\ Once(DicPairs(v.dic))
        /\ \A k \in Keys : Val(DicPairs(v.dic), k) = DicGet(v.dic, k)
    BY <2>1, PairsAre
  <2>3. /\ Tidy(m)
        /\ \A k \in Keys : DicGet(m, k) =
                             IF DicGet(u.dic, k) # Null THEN DicGet(u.dic, k) ELSE Val(DicPairs(v.dic), k)
    BY <2>1, <2>2, UnionIs
  <2> HIDE DEF m
  <2> QED
    BY <2>1, <2>2, <2>3
<1>7. f \in [Keys -> Cells]
  <2>1. p \in [Keys -> Cells]
    BY <1>2 DEF Shows, Seen
  <2> QED
    BY <1>1, <2>1
<1> HIDE DEF a, m, f
<1>8. Shows([ordered |-> a, dic |-> m], [seq |-> Elements(ordered) \o e, map |-> f])
  BY <1>5, <1>6, <1>7, ShownIs
<1>9. IInv' /\ Elements(ordered)' = Elements(ordered) \o e /\ Map' = f
  BY <1>3, <1>4, <1>8, Became
<1> QED
  BY <1>9 DEF Script!PlusList, Map, e, f, p

(* l - [...].                                                              *)
LEMMA MinusListIs ==
    ASSUME IInv, NEW items \in Literals, MinusList(PushList(items))
    PROVE  IInv' /\ Script!MinusList(items)
<1> DEFINE v == PushList(items)
           u == VariableCopy(List)
           e == Script!ElementsOf(items)
           p == Script!PairsOf(items)
           q == Loop([i \in DOMAIN e |-> [r \in Seen |-> Script!Without(r, e[i])]], View)
           w == PurgeAll[u][Elements(v.ordered)]
           m == DicMinus[w.dic][DicPairs(v.dic)]
           f == [k \in Keys |-> IF p[k] # Null THEN Null ELSE q.map[k]]
<1>1. Shows(u, View)
  BY Viewed, CopyShows
<1>2. Shows(v, [seq |-> e, map |-> p])
  BY LiteralsAssumption, PushIs
<1>3. Become(ListMinus(List, v)) /\ ListMinus(List, v) = [w EXCEPT !.dic = m]
  BY DEF MinusList, ListMinus
<1> HIDE DEF v, u, e, p
<1>4. Shows(w, q)
  <2>1. Keeps(v.ordered, e)
    BY <1>2 DEF Shows
  <2>2. Elements(v.ordered) = e /\ e \in Seq(Cells)
    BY <2>1, KeepsIs
  <2> QED
    BY <1>1, <2>2, PurgeAllIs
<1> HIDE DEF w, q
<1>5. Tidy(m) /\ \A k \in Keys : DicGet(m, k) = f[k]
  <2>1. Tidy(w.dic) /\ Tidy(v.dic) /\ \A k \in Keys : DicGet(w.dic, k) = q.map[k] /\ DicGet(v.dic, k) = p[k]
    BY <1>2, <1>4 DEF Shows
  <2> DEFINE pairs == DicPairs(v.dic)
  <2>2. pairs \in Seq(Entries) /\ Once(pairs) /\ \A k \in Keys : Val(pairs, k) = p[k]
    BY <2>1, PairsAre
  <2> HIDE DEF pairs
  <2>3. /\ Tidy(m)
        /\ \A k \in Keys : DicGet(m, k) =
                             IF \E j \in DOMAIN pairs : pairs[j].key = k THEN Null ELSE DicGet(w.dic, k)
    BY <2>1, <2>2, MinusIs DEF pairs
  <2> HIDE DEF m
  <2>4. ASSUME NEW k \in Keys PROVE (\E j \in DOMAIN pairs : pairs[j].key = k) <=> p[k] # Null
    <3>1. ASSUME NEW j \in DOMAIN pairs, pairs[j].key = k PROVE p[k] # Null
      <4>1. Val(pairs, k) = pairs[j].val /\ pairs[j].val \in Values
        BY <2>2, <3>1, ValOf, EntryIs
      <4> QED
        BY <2>2, <4>1, ListsAssumption
    <3>2. CASE \A j \in DOMAIN pairs : pairs[j].key # k
      <4>1. Val(pairs, k) = Null
        BY <3>2, ValNone
      <4> QED
        BY <2>2, <3>2, <4>1
    <3> QED
      BY <3>1, <3>2
  <2> QED
    BY <2>1, <2>3, <2>4
<1>6. f \in [Keys -> Cells] /\ Keeps(w.ordered, q.seq) /\ w = [ordered |-> w.ordered, dic |-> w.dic]
  <2>1. q.map \in [Keys -> Cells]
    BY <1>4 DEF Shows, Seen
  <2> QED
    BY <1>4, <2>1 DEF Shows, Cells
<1> HIDE DEF m, f
<1>7. Shows([ordered |-> w.ordered, dic |-> m], [seq |-> q.seq, map |-> f])
  BY <1>5, <1>6, ShownIs
<1>8. Become([ordered |-> w.ordered, dic |-> m])
  BY <1>3, <1>6
<1>9. IInv' /\ Elements(ordered)' = q.seq /\ Map' = f
  BY <1>7, <1>8, Became
<1>10. q = Script!Loop([i \in DOMAIN e |-> [r \in Script!Lists |-> Script!Without(r, e[i])]],
                       [seq |-> Elements(ordered), map |-> Map])
  BY SeenByScript DEF q, View, Loop, Script!Loop
<1> QED
  BY <1>9, <1>10 DEF Script!MinusList, Map, e, f, p
(* l.remove(start, n), which ends the program from beyond the end.         *)
LEMMA SnipIs ==
    ASSUME IInv, NEW start \in Nat, NEW n \in Int, Snip(start, n)
    PROVE  IInv' /\ \E p, c \in 0..Len(Elements(ordered)) : Script!Snip(p, c)
<1> DEFINE s == Elements(ordered)
           count == IF n < 0 THEN Len(s) - start ELSE n
           a == ArrayRemove(ordered, start, n)
           t == SubSeq(s, 1, start) \o SubSeq(s, start + count + 1, Len(s))
<1>1. Shows(List, View) /\ Keeps(ordered, s) /\ ordered.length = Len(s) /\ Len(s) \in Nat
  BY Viewed, KeepsIs
<1>2. Removable(ordered, start, n) /\ Become([List EXCEPT !.ordered = a])
  BY DEF Snip, List
<1>3. start <= Len(s) /\ start + count <= Len(s)
  BY <1>1, <1>2 DEF Removable
<1>4. Keeps(a, t)
  BY <1>1, <1>2, KeepsRemove
<1>5. start \in 0..Len(s) /\ count \in 0..Len(s)
  BY <1>1, <1>3
<1> HIDE DEF s, t, a, count
<1>6. Shows([List EXCEPT !.ordered = a], [seq |-> t, map |-> View.map])
  BY <1>1, <1>4, ArrayShows
<1>7. IInv' /\ Elements(ordered)' = t /\ Map' = View.map
  BY <1>2, <1>6, Became
<1>8. Script!Snip(start, count)
  BY <1>7 DEF Script!Snip, View, Map, s, t
<1> QED
  BY <1>5, <1>7, <1>8 DEF s

(* l[i] = x, where the resize leaves the list its length.                  *)
LEMMA PutIsPut ==
    ASSUME IInv, ~Careless, NEW i \in Nat, NEW x \in Values, Put(i, x)
    PROVE  IInv' /\ Script!Put(i, x) /\ i \in 0..Len(Elements(ordered)') - 1
<1> DEFINE s == Elements(ordered)
           a == ArraySet(ordered, i, x)
           t == Elements(a)
<1>1. /\ Shows(List, View) /\ ordered.length = Len(s) /\ Len(s) \in Nat /\ s \in Seq(Cells)
      /\ ordered \in Arrays /\ Room(ordered) /\ x \in Cells
  BY Viewed, KeepsIs DEF Cells
<1>2. ordered.length <= ListResize(Size(ordered), i + 1) /\ Become([List EXCEPT !.ordered = a])
  BY DEF Put, Grow, List
<1>3. /\ a \in Arrays /\ Room(a) /\ t[i + 1] = x
      /\ \A j \in 1..ordered.length \ {i + 1} : t[j] = s[j]
  BY <1>1, <1>2, SetKeeps
<1>4. a.length = IF Len(s) <= i + 1 THEN i + 1 ELSE Len(s)
  BY <1>1 DEF ArraySet
<1> HIDE DEF s, a
<1>5. Keeps(a, t) /\ t \in Seq(Cells) /\ Len(t) = a.length
  BY <1>3, ElementsKept, KeepsIs
<1> HIDE DEF t
<1>6. Shows([List EXCEPT !.ordered = a], [seq |-> t, map |-> View.map])
  BY <1>1, <1>5, ArrayShows
<1>7. IInv' /\ Elements(ordered)' = t /\ Map' = View.map
  BY <1>2, <1>6, Became
<1>8. Len(t) = (IF i < Len(s) THEN Len(s) ELSE i + 1) /\ i \in 0..Len(t) - 1
  <2> DEFINE l == Len(s)
             h == Len(t)
  <2>1. l \in Nat /\ h = IF l <= i + 1 THEN i + 1 ELSE l
    BY <1>1, <1>4, <1>5
  <2> HIDE DEF l, h
  <2>2. h = (IF i < l THEN l ELSE i + 1) /\ i \in 0..h - 1
    BY <2>1
  <2> QED
    BY <2>2 DEF l, h
<1>9. \A j \in DOMAIN s \ {i + 1} : t[j] = s[j]
  <2>1. DOMAIN s = 1..ordered.length
    BY <1>1
  <2> QED
    BY <1>3, <2>1
<1>10. Script!Put(i, x)
  <2>1. Script!Cells = Cells
    BY DEF Script!Cells, Cells
  <2> QED
    BY <1>3, <1>5, <1>7, <1>8, <1>9, <2>1 DEF Script!Put, View, Map, s
<1> QED
  BY <1>7, <1>8, <1>10

(* l.sort(): the elements that there were, in some order.                  *)
LEMMA SortIs ==
    ASSUME IInv, Sort
    PROVE  /\ IInv' /\ Map' = Map /\ Elements(ordered) \in Seq(Values)
           /\ Elements(ordered)' = HeapSorted(Elements(ordered))
           /\ Shuffled(Elements(ordered), Elements(ordered)')
<1> DEFINE s == Elements(ordered)
           r == HeapSorted(s)
           l == ordered.length
           rest == SubSeq(ordered.cells, l + 1, Len(ordered.cells))
           a == [ordered EXCEPT !.cells = r \o rest]
<1>1. /\ Shows(List, View) /\ Keeps(ordered, s) /\ l = Len(s) /\ l \in Nat
      /\ s \in Seq(Cells) /\ ordered \in Arrays
  BY Viewed, KeepsIs
<1>2. Numeric(ordered) /\ Become([List EXCEPT !.ordered = a])
  <2>1. [List EXCEPT !.ordered.cells = r \o SubSeq(@, ordered.length + 1, Len(@))]
          = [List EXCEPT !.ordered = a]
    BY DEF List
  <2> QED
    BY <2>1 DEF Sort
<1> HIDE DEF s
<1>3. s \in Seq(Values) /\ s \in Seq(Int)
  <2>1. \A j \in 1..Len(s) : s[j] \in Values /\ s[j] \in Int
    <3> TAKE j \in 1..Len(s)
    <3>1. s[j] \in Cells
      BY <1>1
    <3>2. s[j] # Null
      BY <1>1, <1>2 DEF Numeric, ToSet, s
    <3> QED
      BY <3>1, <3>2, ListsAssumption DEF Cells
  <2>2. s = [j \in 1..Len(s) |-> s[j]] /\ Len(s) \in Nat
    BY <1>1
  <2> QED
    BY <2>1, <2>2
<1>4. Shuffled(s, r)
  BY <1>3, SortShuffles
<1> HIDE DEF r
<1>5. r \in Seq(Int) /\ Len(r) = l /\ \A j \in 1..l : r[j] \in Cells
  <2>1. Ordered(s, Values, Len(s))
    BY <1>3 DEF Ordered
  <2>2. Ordered(r, Values, Len(s)) /\ r \in Seq(Int) /\ Len(r) = Len(s)
    BY <1>3, <1>4, <2>1, ShuffledIn
  <2> QED
    BY <1>1, <2>2 DEF Ordered, Cells
<1>6. r \in Seq(Cells)
  <2>1. r = [j \in 1..l |-> r[j]]
    BY <1>5
  <2> QED
    BY <1>1, <1>5, <2>1
<1>7. Keeps(a, r)
  <2>1. ordered.cells \in Seq(Cells) /\ ordered.length = l /\ l <= Len(ordered.cells)
        /\ ordered = [cells |-> ordered.cells, length |-> ordered.length]
    BY <1>1 DEF Keeps, Arrays, Size
  <2> HIDE DEF l
  <2>2. rest \in Seq(Cells) /\ Len(ordered.cells) \in Nat
    <3>1. Len(ordered.cells) \in Nat /\ Len(ordered.cells) <= Len(ordered.cells)
      BY <2>1
    <3> QED
      BY <1>1, <2>1, <3>1, PartIs
  <2> HIDE DEF rest
  <2>3. /\ r \o rest \in Seq(Cells) /\ Len(r) <= Len(r \o rest)
        /\ \A j \in 1..l : (r \o rest)[j] = r[j]
    BY <1>1, <1>5, <1>6, <2>2
  <2>4. a = [cells |-> r \o rest, length |-> l]
    <3>1. \A v \in Arrays : \A c : [v EXCEPT !.cells = c] = [cells |-> c, length |-> v.length]
      BY DEF Arrays
    <3> QED
      BY <1>1, <2>1, <3>1
  <2> QED
    BY <1>1, <1>5, <1>6, <2>3, <2>4 DEF Keeps, Arrays, Size
<1> HIDE DEF a
<1>8. Shows([List EXCEPT !.ordered = a], [seq |-> r, map |-> View.map])
  BY <1>1, <1>7, ArrayShows
<1>9. IInv' /\ Elements(ordered)' = r /\ Map' = View.map
  BY <1>2, <1>8, Became
<1> QED
  BY <1>3, <1>4, <1>9 DEF View, r, s

-----------------------------------------------------------------------------
(* l.sort(), of integers of which an int32_t holds the differences: from   *)
(* the least to the largest.                                               *)
LEMMA SortIsSort ==
    ASSUME IInv, Sort, Narrow(Values)
    PROVE  Script!Sort
<1> DEFINE s == Elements(ordered)
           r == HeapSorted(s)
<1>1. Map' = Map /\ s \in Seq(Values) /\ Elements(ordered)' = r /\ Shuffled(s, r)
  BY SortIs
<1>2. Sorted(r)
  BY <1>1, SortSorts
<1>3. Script!ToSet(s) = ToSet(s) /\ Null \notin ToSet(s)
  <2>1. \A i \in DOMAIN s : s[i] \in Values
    BY <1>1
  <2>2. Null \notin ToSet(s)
    BY <2>1, ListsAssumption DEF ToSet
  <2> QED
    BY <2>2 DEF ToSet, Script!ToSet
<1> HIDE DEF s, r
<1>4. s \in Seq(Int) /\ r \in Seq(Int) /\ Len(r) = Len(s)
  <2>1. s = [i \in 1..Len(s) |-> s[i]] /\ Len(s) \in Nat /\ \A i \in 1..Len(s) : s[i] \in Int
    BY <1>1, ListsAssumption
  <2>2. s \in Seq(Int)
    BY <2>1
  <2> QED
    BY <1>1, <2>2 DEF Shuffled
<1>5. \A i \in 1..Len(s) - 1 : r[i] <= r[i + 1]
  <2>1. \A i \in 1..Len(s) - 1 : i \in 1..Len(r) /\ i + 1 \in 1..Len(r) /\ i <= i + 1
    BY <1>4
  <2> QED
    BY <1>2, <2>1 DEF Sorted
<1>6. \A x : Script!Times(r, x) = Script!Times(s, x)
  <2> TAKE x
  <2>1. Cardinality(Places(r, x)) = Cardinality(Places(s, x))
    <3>1. s \in Seq(Int) /\ Shuffled(s, r)
      BY <1>1, <1>4
    <3> QED
      BY ONLY <3>1, ShuffledTimes
  <2>2. \A S : Script!Cardinality(S) = Cardinality(S)
    BY DEF Script!Cardinality, Cardinality
  <2> QED
    BY <2>1, <2>2 DEF Script!Times, Places
<1>7. Elements(ordered)' = r
  BY <1>1
<1> QED
  BY <1>1, <1>3, <1>4, <1>5, <1>6, <1>7 DEF Script!Sort, Map, s

-----------------------------------------------------------------------------
(* The list of the first literal.                                          *)
LEMMA InitKeeps ==
    ASSUME Init
    PROVE  IInv /\ Script!Init
<1>1. PICK items \in Literals : ordered = PushList(items).ordered /\ dic = PushList(items).dic
  BY DEF Init
<1> DEFINE q == [seq |-> Script!ElementsOf(items), map |-> Script!PairsOf(items)]
<1>2. Shows(PushList(items), q)
  BY LiteralsAssumption, PushIs
<1>3. Keeps(ordered, q.seq) /\ Tidy(dic) /\ \A k \in Keys : DicGet(dic, k) = q.map[k]
  BY <1>1, <1>2 DEF Shows
<1>4. ordered \in Arrays /\ Room(ordered) /\ Elements(ordered) = q.seq
  BY <1>3, KeepsIs
<1>5. q.map \in [Keys -> Cells]
  BY <1>2, SeenIs DEF Shows
<1>6. Map = q.map
  BY <1>3, <1>5 DEF Map
<1> QED
  BY <1>1, <1>3, <1>4, <1>6 DEF IInv, Fits, Room, Script!Init, Map

(* A step, and what it is for the author of the script.                    *)
LEMMA StepKeeps ==
    ASSUME IInv, ~Careless, Next
    PROVE  IInv' /\ (Narrow(Values) => Script!Next \/ UNCHANGED <<Elements(ordered), Map>>)
<1> DEFINE Good == IInv' /\ (Narrow(Values) => Script!Next \/ UNCHANGED <<Elements(ordered), Map>>)
<1>0. Script!Cells = Cells
  BY DEF Script!Cells, Cells
<1>1. ASSUME Literal PROVE Good
  BY <1>1, LiteralIs DEF Script!Next
<1>2. ASSUME Sort PROVE Good
  <2>1. IInv'
    BY <1>2, SortIs
  <2>2. Narrow(Values) => Script!Sort
    BY <1>2, SortIsSort
  <2> QED
    BY <2>1, <2>2 DEF Script!Next
<1>3. ASSUME NEW x \in Values, PlusElement(x) \/ Insert(x) PROVE Good
  <2>1. IInv' /\ Script!Insert(x)
    BY <1>3, InsertIsAppend
  <2> QED
    BY <2>1 DEF Script!Next
<1>4. ASSUME NEW x \in Values, MinusElement(x) PROVE Good
  <2>1. IInv' /\ Script!MinusElement(x)
    BY <1>4, MinusElementIs
  <2> QED
    BY <2>1 DEF Script!Next
<1>5. ASSUME NEW i \in 0..MaxLength - 1, NEW x \in Values, Put(i, x) PROVE Good
  <2>1. i \in Nat
    BY ListsAssumption
  <2>2. IInv' /\ Script!Put(i, x) /\ i \in 0..Len(Elements(ordered)') - 1
    BY <1>5, <2>1, PutIsPut
  <2>3. \A S : Script!Len(S) = Len(S)
    OBVIOUS
  <2> QED
    BY <2>2 DEF Script!Next
<1>6. ASSUME NEW k \in Keys, NEW v \in Cells, PutKey(k, v) \/ PlusPair(k, v) PROVE Good
  <2>1. IInv' /\ Script!PutKey(k, v)
    BY <1>6, PutKeyIs
  <2> QED
    BY <1>0, <2>1 DEF Script!Next
<1>7. ASSUME NEW items \in Literals, PlusList(PushList(items)) PROVE Good
  <2>1. IInv' /\ Script!PlusList(items)
    BY <1>7, PlusListIs
  <2> QED
    BY <2>1 DEF Script!Next
<1>8. ASSUME NEW items \in Literals, MinusList(PushList(items)) PROVE Good
  <2>1. IInv' /\ Script!MinusList(items)
    BY <1>8, MinusListIs
  <2> QED
    BY <2>1 DEF Script!Next
<1>9. ASSUME NEW start \in 0..MaxLength - 1, NEW n \in -MaxLength..MaxLength, Snip(start, n) PROVE Good
  <2>1. start \in Nat /\ n \in Int
    BY ListsAssumption
  <2>2. IInv' /\ \E p, c \in 0..Len(Elements(ordered)) : Script!Snip(p, c)
    BY <1>9, <2>1, SnipIs
  <2> QED
    BY <2>2 DEF Script!Next
<1> HIDE DEF Good
<1>10. Good
  BY <1>1, <1>2, <1>3, <1>4, <1>5, <1>6, <1>7, <1>8, <1>9 DEF Next
<1> QED
  BY <1>10 DEF Good

(* A step that leaves the list alone.                                      *)
LEMMA StutterKeeps ==
    ASSUME UNCHANGED vars
    PROVE  UNCHANGED <<Elements(ordered), Map>> /\ (IInv => IInv')
  BY DEF vars, Map, IInv, Fits, Tidy

(* Whatever a script does to its list, as long as it assigns to no         *)
(* element of the first quarter of one that is more than half full: the    *)
(* elements are in the array's memory, and each chain of the dic has the   *)
(* keys of its bucket, each once.                                          *)
THEOREM ListsKeep ==
    ASSUME ~Careless
    PROVE  Spec => []IInv
<1>1. Init => IInv
  BY InitKeeps
<1>2. IInv /\ [Next]_vars => IInv'
  BY StepKeeps, StutterKeeps
<1> QED
  BY <1>1, <1>2, PTL DEF Spec

(* The cells of the array are values or null pointers, as is what the dic  *)
(* gives.                                                                  *)
THEOREM ListsTyped ==
    ASSUME ~Careless
    PROVE  Spec => []TypeOK
<1>1. IInv => TypeOK
  BY DEF IInv, TypeOK, Tidy
<1> QED
  BY <1>1, ListsKeep, PTL

(* struct.c never leaves a list longer than its memory: no resize cuts     *)
(* off what is used.                                                       *)
THEOREM ListsFit ==
    ASSUME ~Careless
    PROVE  Spec => []Fits
<1>1. IInv => Fits
  BY DEF IInv
<1> QED
  BY <1>1, ListsKeep, PTL

(* struct.c's hash table has each key once, in its bucket, whatever is     *)
(* inserted, united and removed in whichever order.                        *)
THEOREM KeysAreOnce ==
    ASSUME ~Careless
    PROVE  Spec => []KeysOnce
<1>1. ASSUME IInv PROVE KeysOnce
  <2>1. Tidy(dic)
    BY <1>1 DEF IInv
  <2>2. \A b \in Buckets : \A i \in DOMAIN dic[b] : Bucket(dic[b][i].key) = b
    BY <2>1 DEF Tidy, Proper
  <2>3. ASSUME NEW k \in Keys PROVE Cardinality(At(Chain(dic, k), k)) <= 1
    <3> DEFINE c == Chain(dic, k)
    <3>1. c \in Seq(Entries) /\ Once(c)
      BY <2>1, BucketIs DEF Tidy, Proper, Chain
    <3> HIDE DEF c
    <3>2. CASE At(c, k) = {}
      BY <3>2, FS_EmptySet DEF c
    <3>3. CASE At(c, k) # {}
      <4>1. PICK i \in DOMAIN c : c[i].key = k
        BY <3>3 DEF At
      <4>2. At(c, k) = {i}
        BY <3>1, <4>1, AtOnce
      <4>3. Cardinality(At(c, k)) = 1
        BY <4>2, FS_Singleton
      <4> QED
        BY <4>3 DEF c
    <3> QED
      BY <3>2, <3>3
  <2> QED
    BY <2>2, <2>3 DEF KeysOnce
<1>2. IInv => KeysOnce
  BY <1>1
<1> QED
  BY <1>2, ListsKeep, PTL

(* variable_copy gives equal elements, and an equal value for each key,    *)
(* though it inserts the pairs in another order.                           *)
THEOREM CopiesAreEqual ==
    ASSUME ~Careless
    PROVE  Spec => []Copies
<1>1. ASSUME IInv PROVE Copies
  <2>1. Shows(VariableCopy(List), View)
    BY <1>1, Viewed, CopyShows
  <2>2. Elements(VariableCopy(List).ordered) = Elements(ordered)
    BY <2>1, KeepsIs DEF Shows, View
  <2>3. \A k \in Keys : DicGet(VariableCopy(List).dic, k) = DicGet(dic, k)
    BY <2>1 DEF Shows, View, Map
  <2> QED
    BY <2>2, <2>3 DEF Copies
<1>2. IInv => Copies
  BY <1>1
<1> QED
  BY <1>2, ListsKeep, PTL

(* variable_part gives the elements from start on, n of them or all but    *)
(* the last -n - 1.                                                        *)
THEOREM PartsAreParts ==
    ASSUME ~Careless
    PROVE  Spec => []PartsOf
<1>1. ASSUME IInv PROVE PartsOf
  <2> DEFINE l == ordered.length
             s == Elements(ordered)
  <2>1. Keeps(ordered, s) /\ l = Len(s) /\ l \in Nat
    BY <1>1, Viewed, KeepsIs
  <2> HIDE DEF s
  <2>2. ASSUME NEW start \in 0..l, NEW n \in -l..l - start
        PROVE  Elements(VariablePart(ordered, start, n)) =
                 SubSeq(s, start + 1, IF n < 0 THEN l + n + 1 ELSE start + n)
    <3>1. start \in Nat /\ start <= Len(s) /\ n \in Int /\ start + n <= Len(s)
      <4> HIDE DEF l
      <4> QED
        BY <2>1
    <3>2. Keeps(VariablePart(ordered, start, n),
                SubSeq(s, start + 1, IF n < 0 THEN Len(s) + n + 1 ELSE start + n))
      BY <2>1, <3>1, KeepsVariablePart
    <3>3. Elements(VariablePart(ordered, start, n)) =
            SubSeq(s, start + 1, IF n < 0 THEN Len(s) + n + 1 ELSE start + n)
      <4> DEFINE t == SubSeq(s, start + 1, IF n < 0 THEN Len(s) + n + 1 ELSE start + n)
      <4> HIDE DEF t
      <4>1. Keeps(VariablePart(ordered, start, n), t)
        BY <3>2 DEF t
      <4>2. Elements(VariablePart(ordered, start, n)) = t
        BY <4>1, KeepsIs
      <4> QED
        BY <4>2 DEF t
    <3> QED
      BY <2>1, <3>3
  <2> QED
    BY <2>2 DEF PartsOf, s
<1>2. IInv => PartsOf
  BY <1>1
<1> QED
  BY <1>2, ListsKeep, PTL

(* What scripts do to a list, by arrays that grow and shrink and by        *)
(* chains of entries, is what they do to a sequence and a map: each step   *)
(* is one of ScriptList's or changes nothing that is seen. The values are  *)
(* such that compar orders them.                                           *)
THEOREM ListsImplement ==
    ASSUME ~Careless, Narrow(Values)
    PROVE  Spec => Implements
<1>1. Init => Script!Init
  BY InitKeeps
<1>2. IInv /\ [Next]_vars => [Script!Next]_(Script!vars)
  <2>1. UNCHANGED <<Elements(ordered), Map>> => UNCHANGED Script!vars
    BY DEF Script!vars, Map
  <2> QED
    BY <2>1, StepKeeps, StutterKeeps
<1> QED
  BY <1>1, <1>2, ListsKeep, PTL DEF Spec, Implements, Script!Spec

-----------------------------------------------------------------------------
(* A list as the variable that is serialised and compared: its elements    *)
(* and its pairs, each with its meaning.                                   *)
Meant(s, meaning) == [i \in 1..Len(s) |-> meaning[s[i]]]
Paired(pairs, meaning) ==
    [i \in DOMAIN pairs |-> [key |-> meaning[pairs[i].key], val |-> meaning[pairs[i].val]]]

(* Variables that can be the elements, keys and values of one list.        *)
Means(meaning, V) ==
    /\ \A n \in Values \cup Keys : meaning[n] \in V
    /\ \A k \in Keys : meaning[k] \in Keyed
    /\ \A j, k \in Keys : DicKeyEquals(meaning[j], meaning[k]) => j = k

(* No key is there twice, as dic_insert tells keys from each other.        *)
KeysApart(pairs) ==
    \A i, j \in DOMAIN pairs : DicKeyEquals(pairs[i].key, pairs[j].key) => i = j

(* The variable that a list is, if its elements are no null pointers.      *)
LEMMA VariableIs ==
    ASSUME NEW v, NEW s, Keeps(v.ordered, s), s \in Seq(Values), Tidy(v.dic), NEW V, NEW meaning,
           Means(meaning, V)
    PROVE  /\ AsVariable(v, meaning) = Lst(Meant(s, meaning), Paired(DicPairs(v.dic), meaning))
           /\ Meant(s, meaning) \in Seq(V) /\ Len(Meant(s, meaning)) = Len(s)
           /\ Paired(DicPairs(v.dic), meaning) \in Seq(PairsOver(V))
           /\ KeysApart(Paired(DicPairs(v.dic), meaning))
<1> DEFINE a == v.ordered
           pairs == DicPairs(v.dic)
           n == Len(s)
<1>1. a.length = n /\ n \in Nat /\ \A i \in 1..n : a.cells[i] = s[i]
  BY KeepsIs DEF Keeps
<1>2. pairs \in Seq(Entries) /\ Once(pairs)
  BY PairsAre
<1>3. AsVariable(v, meaning) = Lst([i \in 1..a.length |-> meaning[a.cells[i]]], Paired(pairs, meaning))
  BY DEF AsVariable, Paired
<1> HIDE DEF a, pairs
<1>4. [i \in 1..a.length |-> meaning[a.cells[i]]] = Meant(s, meaning)
  BY <1>1 DEF Meant
<1>5. Meant(s, meaning) \in [1..n -> V]
  <2>1. \A i \in 1..n : s[i] \in Values
    OBVIOUS
  <2> QED
    BY <2>1 DEF Meant, Means
<1>6. Paired(pairs, meaning) \in [1..Len(pairs) -> PairsOver(V)] /\ Len(pairs) \in Nat
      /\ DOMAIN pairs = 1..Len(pairs)
  <2>1. \A i \in DOMAIN pairs : pairs[i].key \in Keys /\ pairs[i].val \in Values
    BY <1>2, EntryIs
  <2>2. DOMAIN pairs = 1..Len(pairs) /\ Len(pairs) \in Nat
    <3> HIDE DEF Entries
    <3> QED
      BY <1>2
  <2>3. \A i \in DOMAIN pairs :
           [key |-> meaning[pairs[i].key], val |-> meaning[pairs[i].val]] \in PairsOver(V)
    BY <2>1 DEF PairsOver, Means
  <2> QED
    BY <2>2, <2>3 DEF Paired
<1>7. Meant(s, meaning) \in Seq(V) /\ Len(Meant(s, meaning)) = n
  <2> DEFINE w == Meant(s, meaning)
  <2> HIDE DEF w
  <2>1. w \in [1..n -> V]
    BY <1>5 DEF w
  <2>2. w \in Seq(V) /\ Len(w) = n
    BY <1>1, <2>1, FunSeq
  <2> QED
    BY <2>2 DEF w
<1>8. Paired(pairs, meaning) \in Seq(PairsOver(V)) /\ DOMAIN Paired(pairs, meaning) = DOMAIN pairs
  <2> DEFINE w == Paired(pairs, meaning)
             W == PairsOver(V)
  <2> HIDE DEF w, W
  <2>1. w \in [1..Len(pairs) -> W]
    BY <1>6 DEF w, W
  <2>2. w \in Seq(W) /\ DOMAIN w = 1..Len(pairs)
    BY <1>6, <2>1, FunSeq
  <2> QED
    BY <1>6, <2>2 DEF w, W
<1>9. KeysApart(Paired(pairs, meaning))
  <2> DEFINE w == Paired(pairs, meaning)
  <2>1. ASSUME NEW i \in DOMAIN pairs, NEW j \in DOMAIN pairs, DicKeyEquals(w[i].key, w[j].key)
        PROVE  i = j
    <3>1. w[i].key = meaning[pairs[i].key] /\ w[j].key = meaning[pairs[j].key]
      BY DEF Paired
    <3>2. pairs[i].key \in Keys /\ pairs[j].key \in Keys
      BY <1>2, EntryIs
    <3>3. DicKeyEquals(meaning[pairs[i].key], meaning[pairs[j].key])
      BY <2>1, <3>1, Zenon
    <3>4. pairs[i].key = pairs[j].key
      BY <3>2, <3>3, Zenon DEF Means
    <3> QED
      BY <1>2, <3>4, Zenon DEF Once
  <2> QED
    BY <1>8, <2>1, Zenon DEF KeysApart
<1> QED
  BY <1>3, <1>4, <1>7, <1>8, <1>9 DEF pairs

(* A level holds the lists of what the level below holds.                  *)
LEMMA ListLevel ==
    ASSUME Depth > 0,
           NEW elements \in Seq(Layer[Depth - 1]), NEW pairs \in Seq(PairsOver(Layer[Depth - 1])),
           KeysApart(pairs), Sized(Lst(elements, pairs))
    PROVE  Lst(elements, pairs) \in Layer[Depth]
<1> DEFINE V == Layer[Depth - 1]
<1>1. Layer[Depth] = Composed(V)
  BY LayerIs, DepthAssumption
<1> HIDE DEF V
<1>2. Len(elements) <= Most /\ Len(pairs) <= Most
  <2>1. {Len(elements), Len(pairs)} \subseteq 0..Most
    BY DEF Sized, Lst
  <2> QED
    BY <2>1, MostIs
<1>3. elements \in Counted(V) /\ pairs \in Counted(PairsOver(V))
  BY <1>2 DEF Counted, V
<1>4. Lst(elements, pairs) \in Lsts(V)
  <2>1. pairs \in DicsOver(V)
    BY <1>3, Zenon DEF DicsOver, KeysApart
  <2> QED
    BY <1>3, <2>1 DEF Lst, Lsts
<1> QED
  BY <1>1, <1>4 DEF Composed

(* The elements of a list with no null pointers are values.                *)
LEMMA NumericIs ==
    ASSUME NEW s \in Seq(Cells), Null \notin ToSet(s)
    PROVE  s \in Seq(Values)
<1>1. \A i \in 1..Len(s) : s[i] \in Cells /\ s[i] # Null
  BY DEF ToSet
<1>2. \A i \in 1..Len(s) : s[i] \in Values
  BY <1>1 DEF Cells
<1> QED
  BY <1>2

(* What l.serialize and l.deserialize make of the list.                    *)
LEMMA ReturnsWhole == IInv => RoundTrip
<1> DEFINE v == AsVariable(List, Meaning)
           bits == VariableSerialize(v)
           s == Elements(ordered)
           pairs == DicPairs(dic)
<1> SUFFICES ASSUME IInv, Numeric(ordered), Sized(v)
             PROVE  VariableDeserialize(bits \o <<255, 255>>, 1) =
                        [val |-> Mirrored[Depth][v], next |-> Len(bits) + 1]
  BY DEF RoundTrip
<1>1. /\ Keeps(List.ordered, s) /\ s \in Seq(Values) /\ Tidy(List.dic) /\ List.dic = dic
  <2>1. Keeps(ordered, s) /\ s \in Seq(Cells)
    BY Viewed, KeepsIs
  <2>2. s \in Seq(Values)
    BY <2>1, NumericIs DEF Numeric
  <2> QED
    BY <2>1, <2>2 DEF List, IInv
<1>2. Means(Meaning, Layer[Depth - 1])
  BY MeaningAssumption DEF Means
<1>3. /\ v = Lst(Meant(s, Meaning), Paired(pairs, Meaning))
      /\ Meant(s, Meaning) \in Seq(Layer[Depth - 1])
      /\ Paired(pairs, Meaning) \in Seq(PairsOver(Layer[Depth - 1]))
      /\ KeysApart(Paired(pairs, Meaning))
  <2> HIDE DEF s
  <2> QED
    BY <1>1, <1>2, VariableIs
<1> HIDE DEF v, s, pairs
<1>4. v \in Layer[Depth]
  <2>1. Sized(Lst(Meant(s, Meaning), Paired(pairs, Meaning))) /\ Depth > 0
    BY <1>3, MeaningAssumption
  <2>2. Lst(Meant(s, Meaning), Paired(pairs, Meaning)) \in Layer[Depth]
    BY <1>3, <2>1, ListLevel
  <2> QED
    BY <1>3, <2>2, Zenon
<1>5. bits \in Seq(Bytes)
  BY <1>4, BytesOf
<1> HIDE DEF bits
<1> DEFINE buf == bits \o <<255, 255>>
<1>6. Lies(buf, 1, bits)
  <2>1. <<255, 255>> \in Seq(Bytes)
    BY DEF Bytes
  <2>2. \A k \in 1..Len(bits) : k \in DOMAIN buf /\ buf[k] = bits[k] /\ 1 + k - 1 = k
    BY <1>5, <2>1
  <2> HIDE DEF buf
  <2> QED
    BY <2>2 DEF Lies
<1> HIDE DEF buf
<1>7. Lies(buf, 1, VariableSerialize(v)) /\ 1 \in Nat
  BY <1>6 DEF bits
<1>8. VariableDeserialize(buf, 1) = [val |-> Mirrored[Depth][v], next |-> 1 + Len(VariableSerialize(v))]
  BY <1>4, <1>7, ReadsBack
<1>9. 1 + Len(VariableSerialize(v)) = Len(bits) + 1
  <2>1. Len(bits) \in Nat
    BY <1>5
  <2>2. 1 + Len(bits) = Len(bits) + 1
    BY <2>1
  <2> QED
    BY <2>2 DEF bits
<1> QED
  BY <1>8, <1>9, Zenon DEF buf

(* l.deserialize gives back what l.serialize wrote of whatever list a      *)
(* script has made, but for the order of each dic's keys and for the pairs *)
(* among the elements of the lists inside it, which variable_new_list      *)
(* drops. Its keys are such as dic_insert can hash and tells apart; else   *)
(* the elements, keys and values are any variables, however deeply nested. *)
THEOREM ListsReturn ==
    ASSUME ~Careless
    PROVE  Spec => []RoundTrip
BY ReturnsWhole, ListsKeep, PTL

-----------------------------------------------------------------------------
(* Of any two integers, variable_compare finds out whether they are equal, *)
(* at every level.                                                         *)
LEMMA IntsCompare ==
    ASSUME NEW n \in 0..Depth, NEW i \in Int32s, NEW j \in Int32s
    PROVE  Int32(i) \in Layer[n] /\ (Compared[n][Int32(i)][Int32(j)] <=> i = j)
<1>1. \A k \in Int32s : Int32(k) \in Layer[n]
  <2>1. \A k \in Int32s : Int32(k) \in Simple
    BY DEF Int32, Simple
  <2>2. Layer[n] = Simple \/ Layer[n] = Composed(Layer[n - 1])
    BY LayerIs
  <2>3. Simple \subseteq Composed(Layer[n - 1])
    BY DEF Composed
  <2> HIDE DEF Int32s
  <2> QED
    BY <2>1, <2>2, <2>3
<1> DEFINE same == IF n = 0 THEN <<>> ELSE Compared[n - 1]
<1>2. Compared[n] = [u \in Layer[n] |-> [v \in Layer[n] |-> Compare(u, v, same)]]
  BY ComparedIs
<1> HIDE DEF same
<1>3. Compare(Int32(i), Int32(j), same) <=> i = j
  BY DEF Compare, Scalar, VariableValueInt, Int32
<1>4. Compared[n][Int32(i)][Int32(j)] = Compare(Int32(i), Int32(j), same)
  BY <1>1, <1>2
<1> QED
  BY <1>1, <1>3, <1>4

(* Two chains that have each key once: all that the one gives, the other   *)
(* gives too.                                                              *)
Within(a, b) == \A i \in DOMAIN a : At(b, a[i].key) # {} /\ a[i].val = b[Min(At(b, a[i].key))].val

(* One within the other, by what they give.                                *)
LEMMA WithinIs ==
    ASSUME NEW a \in Seq(Entries), NEW b \in Seq(Entries), Once(a)
    PROVE  Within(a, b) <=> \A k \in Keys : At(a, k) # {} => Val(a, k) = Val(b, k)
<1>1. ASSUME NEW i \in DOMAIN a
      PROVE  /\ a[i].key \in Keys /\ a[i].val # Null
             /\ Val(a, a[i].key) = a[i].val /\ At(a, a[i].key) # {}
  <2>1. a[i].key \in Keys /\ a[i].val \in Values
    BY EntryIs
  <2>2. Val(a, a[i].key) = a[i].val
    BY ValOf
  <2>3. i \in At(a, a[i].key)
    BY DEF At
  <2> QED
    BY <2>1, <2>2, <2>3, ListsAssumption
<1>2. ASSUME Within(a, b), NEW k \in Keys, At(a, k) # {} PROVE Val(a, k) = Val(b, k)
  <2>1. PICK i \in DOMAIN a : a[i].key = k
    BY <1>2 DEF At
  <2>2. At(b, k) # {} /\ a[i].val = b[Min(At(b, k))].val
    BY <1>2, <2>1 DEF Within
  <2> QED
    BY <1>1, <2>1, <2>2 DEF Val
<1>3. ASSUME \A k \in Keys : At(a, k) # {} => Val(a, k) = Val(b, k)
      PROVE  Within(a, b)
  <2>1. ASSUME NEW i \in DOMAIN a
        PROVE  At(b, a[i].key) # {} /\ a[i].val = b[Min(At(b, a[i].key))].val
    <3>1. Val(b, a[i].key) = a[i].val /\ a[i].val # Null
      BY <1>1, <1>3
    <3> QED
      BY <3>1 DEF Val
  <2> QED
    BY <2>1 DEF Within
<1> QED
  BY <1>2, <1>3

(* Each within the other: they give the same for every key.                *)
LEMMA WithinBoth ==
    ASSUME NEW a \in Seq(Entries), NEW b \in Seq(Entries), Once(a), Once(b)
    PROVE  (Within(a, b) /\ Within(b, a)) <=> \A k \in Keys : Val(a, k) = Val(b, k)
<1>1. ASSUME NEW k, At(a, k) = {}, At(b, k) = {} PROVE Val(a, k) = Val(b, k)
  BY <1>1 DEF Val
<1>2. /\ Within(a, b) <=> \A k \in Keys : At(a, k) # {} => Val(a, k) = Val(b, k)
      /\ Within(b, a) <=> \A k \in Keys : At(b, k) # {} => Val(b, k) = Val(a, k)
  BY WithinIs
<1> QED
  BY <1>1, <1>2, Zenon

(* The integers that the elements and keys are, and how they compare.      *)
LEMMA PlainIs ==
    /\ Depth - 1 \in 0..Depth
    /\ \A n \in Values \cup Keys : n \in Int32s /\ Plain[n] = Int32(n) /\ Plain[n] \in Layer[Depth - 1]
    /\ \A m, n \in Values \cup Keys : Compared[Depth - 1][Plain[m]][Plain[n]] <=> m = n
    /\ Means(Plain, Layer[Depth - 1])
<1>1. Depth - 1 \in 0..Depth
  BY MeaningAssumption, DepthAssumption
<1>2. \A n \in Values \cup Keys : n \in Int32s /\ Plain[n] = Int32(n)
  BY MeaningAssumption DEF Plain
<1>3. ASSUME NEW m \in Values \cup Keys, NEW n \in Values \cup Keys
      PROVE  /\ Plain[m] \in Layer[Depth - 1]
             /\ Compared[Depth - 1][Plain[m]][Plain[n]] <=> m = n
  <2>1. m \in Int32s /\ n \in Int32s /\ Plain[m] = Int32(m) /\ Plain[n] = Int32(n)
    BY <1>2
  <2>2. /\ Int32(m) \in Layer[Depth - 1]
        /\ Compared[Depth - 1][Int32(m)][Int32(n)] <=> m = n
    BY <1>1, <2>1, IntsCompare
  <2> QED
    BY <2>1, <2>2, Zenon
<1>4. ASSUME NEW j \in Keys, NEW k \in Keys, DicKeyEquals(Plain[j], Plain[k]) PROVE j = k
  <2>1. j \in Int32s /\ k \in Int32s /\ Plain[j] = Int32(j) /\ Plain[k] = Int32(k)
    BY <1>2
  <2>2. DicKeyEquals(Int32(j), Int32(k))
    BY <1>4, <2>1, Zenon
  <2> QED
    BY <2>1, <2>2 DEF DicKeyEquals, Compare, Scalar, VariableValueInt, Int32
<1>5. \A k \in Keys : Plain[k] \in Keyed
  <2>1. \A i \in Int32s : Int32(i) \in Keyed
    BY DEF Int32, Keyed
  <2> QED
    BY <1>2, <2>1
<1> QED
  BY <1>1, <1>2, <1>3, <1>4, <1>5, Zenon DEF Means

(* Of two dics of integers, variable_compare_dics finds out whether the    *)
(* one is within the other.                                                *)
LEMMA DicsCompare ==
    ASSUME NEW a \in Seq(Entries), NEW b \in Seq(Entries), NEW same,
           \A m, n \in Values \cup Keys : same[Plain[m]][Plain[n]] <=> m = n
    PROVE  VariableCompareDics(Paired(a, Plain), Paired(b, Plain), same) <=> Within(a, b)
<1> DEFINE u == Paired(a, Plain)
           v == Paired(b, Plain)
<1>1. /\ \A i \in DOMAIN a : a[i].key \in Values \cup Keys /\ a[i].val \in Values \cup Keys
      /\ \A h \in DOMAIN b : b[h].key \in Values \cup Keys /\ b[h].val \in Values \cup Keys
      /\ DOMAIN b \subseteq Nat
  <2>1. DOMAIN b \subseteq Nat
    <3> HIDE DEF Entries
    <3> QED
      OBVIOUS
  <2> QED
    BY <2>1, EntryIs
<1>2. /\ DOMAIN u = DOMAIN a /\ DOMAIN v = DOMAIN b
      /\ \A i \in DOMAIN a : u[i].key = Plain[a[i].key] /\ u[i].val = Plain[a[i].val]
      /\ \A h \in DOMAIN b : v[h].key = Plain[b[h].key] /\ v[h].val = Plain[b[h].val]
  BY DEF Paired
<1> HIDE DEF u, v
<1>3. ASSUME NEW i \in DOMAIN a
      PROVE  Sought(v, u[i].key, same) = At(b, a[i].key)
  <2>1. ASSUME NEW h \in DOMAIN b
        PROVE  same[v[h].key][u[i].key] <=> b[h].key = a[i].key
    <3>1. /\ v[h].key = Plain[b[h].key] /\ u[i].key = Plain[a[i].key]
          /\ b[h].key \in Values \cup Keys /\ a[i].key \in Values \cup Keys
      BY <1>1, <1>2, <1>3, <2>1
    <3>2. same[Plain[b[h].key]][Plain[a[i].key]] <=> b[h].key = a[i].key
      BY <3>1, Zenon
    <3> QED
      BY <3>1, <3>2, Zenon
  <2> QED
    BY <1>2, <2>1 DEF Sought, At
<1>4. ASSUME NEW i \in DOMAIN a, At(b, a[i].key) # {}
      PROVE  same[u[i].val][v[Min(At(b, a[i].key))].val] <=> a[i].val = b[Min(At(b, a[i].key))].val
  <2> DEFINE h == Min(At(b, a[i].key))
  <2>1. h \in DOMAIN b
    <3>1. At(b, a[i].key) \in SUBSET Nat /\ At(b, a[i].key) \subseteq DOMAIN b
      BY <1>1 DEF At
    <3> QED
      BY <1>4, <3>1, LeastIs
  <2> HIDE DEF h
  <2>2. same[u[i].val][v[h].val] <=> a[i].val = b[h].val
    <3>1. /\ v[h].val = Plain[b[h].val] /\ u[i].val = Plain[a[i].val]
          /\ b[h].val \in Values \cup Keys /\ a[i].val \in Values \cup Keys
      BY <1>1, <1>2, <1>4, <2>1
    <3>2. same[Plain[a[i].val]][Plain[b[h].val]] <=> a[i].val = b[h].val
      BY <3>1, Zenon
    <3> QED
      BY <3>1, <3>2, Zenon
  <2> QED
    BY <2>2 DEF h
<1>5. VariableCompareDics(u, v, same) <=>
         \A i \in DOMAIN a : /\ Sought(v, u[i].key, same) # {}
                             /\ same[u[i].val][v[Min(Sought(v, u[i].key, same))].val]
  BY <1>2, Zenon DEF VariableCompareDics
<1>6. VariableCompareDics(u, v, same) <=>
         \A i \in DOMAIN a : /\ At(b, a[i].key) # {}
                             /\ same[u[i].val][v[Min(At(b, a[i].key))].val]
  BY <1>3, <1>5, Zenon
<1>7. VariableCompareDics(u, v, same) <=> Within(a, b)
  BY <1>4, <1>6, Zenon DEF Within
<1> QED
  BY <1>7 DEF u, v

(* Of two lists of integers, variable_compare finds out whether they have  *)
(* the same elements, and the dic of the one is within that of the other.  *)
LEMMA ListsCompare ==
    ASSUME NEW s \in Seq(Values), NEW t \in Seq(Values),
           NEW a \in Seq(Entries), NEW b \in Seq(Entries), NEW u, NEW v,
           u = Lst(Meant(s, Plain), Paired(a, Plain)), u \in Layer[Depth],
           v = Lst(Meant(t, Plain), Paired(b, Plain)), v \in Layer[Depth]
    PROVE  VariableCompare(u, v) <=> s = t /\ Within(a, b)
<1> DEFINE same == Compared[Depth - 1]
<1>1. VariableCompare(u, v) <=> Compare(u, v, same)
  <2>1. Depth \in 0..Depth /\ Depth # 0
    BY MeaningAssumption, DepthAssumption
  <2>2. Compared[Depth] = [x \in Layer[Depth] |-> [y \in Layer[Depth] |-> Compare(x, y, same)]]
    BY <2>1, ComparedIs
  <2>3. VariableCompare(u, v) = Compare(u, v, same)
    BY <2>2 DEF VariableCompare
  <2> QED
    BY <2>3
<1>2. \A m, n \in Values \cup Keys : same[Plain[m]][Plain[n]] <=> m = n
  BY PlainIs
<1> HIDE DEF same
<1> DEFINE e == Meant(s, Plain)
           f == Meant(t, Plain)
           p == Paired(a, Plain)
           q == Paired(b, Plain)
<1>3. VariableCompareDics(p, q, same) <=> Within(a, b)
  BY <1>2, DicsCompare
<1>4. /\ Len(e) = Len(s) /\ Len(f) = Len(t) /\ DOMAIN e = 1..Len(s)
      /\ \A i \in 1..Len(s) : e[i] = Plain[s[i]] /\ s[i] \in Values
      /\ \A i \in 1..Len(t) : f[i] = Plain[t[i]] /\ t[i] \in Values
  BY DEF Meant
<1>5. u = Lst(e, p) /\ v = Lst(f, q)
  OBVIOUS
<1> HIDE DEF e, f, p, q
<1>6. Compare(u, v, same) <=> /\ Len(e) = Len(f) /\ \A i \in DOMAIN e : same[e[i]][f[i]]
                              /\ VariableCompareDics(p, q, same)
  <2>1. /\ u.type = "lst" /\ v.type = "lst" /\ u.elements = e /\ v.elements = f
        /\ u.pairs = p /\ v.pairs = q
    BY <1>5 DEF Lst
  <2>2. ~Scalar(u)
    BY <2>1 DEF Scalar
  <2>3. Compare(u, v, same) <=>
           /\ Len(u.elements) = Len(v.elements)
           /\ \A i \in DOMAIN u.elements : same[u.elements[i]][v.elements[i]]
           /\ VariableCompareDics(u.pairs, v.pairs, same)
    BY <2>1, <2>2 DEF Compare
  <2> QED
    BY <2>1, <2>3, Zenon
<1>7. (Len(e) = Len(f) /\ \A i \in DOMAIN e : same[e[i]][f[i]]) <=> s = t
  <2>1. ASSUME Len(s) = Len(t), NEW i \in 1..Len(s) PROVE same[e[i]][f[i]] <=> s[i] = t[i]
    <3>1. e[i] = Plain[s[i]] /\ f[i] = Plain[t[i]] /\ s[i] \in Values \cup Keys /\ t[i] \in Values \cup Keys
      BY <1>4, <2>1
    <3> QED
      BY <1>2, <3>1, Zenon
  <2>2. (Len(s) = Len(t) /\ \A i \in 1..Len(s) : s[i] = t[i]) => s = t
    BY SameSeq
  <2>3. s = t => (Len(s) = Len(t) /\ \A i \in 1..Len(s) : s[i] = t[i])
    OBVIOUS
  <2> QED
    BY <1>4, <2>1, <2>2, <2>3, Zenon
<1> QED
  BY <1>1, <1>3, <1>6, <1>7, Zenon

(* The elements of a literal are integers, none of them a null pointer.    *)
LEMMA LiteralElements ==
    ASSUME NEW items \in Seq(Items)
    PROVE  Script!ElementsOf(items) \in Seq(Values)
<1> DEFINE ss == [i \in DOMAIN items |-> IF Script!IsPair(items[i]) THEN <<>> ELSE <<items[i].val>>]
<1>1. \A i \in 1..Len(items) :
         (IF Script!IsPair(items[i]) THEN <<>> ELSE <<items[i].val>>) \in Seq(Values)
  <2> TAKE i \in 1..Len(items)
  <2>1. items[i] \in Items
    OBVIOUS
  <2>2. Script!IsPair(items[i]) <=> IsPair(items[i])
    BY DEF Script!IsPair, IsPair
  <2>3. ~Script!IsPair(items[i]) => items[i].val \in Values
    BY <2>1, <2>2, ItemIs
  <2> QED
    BY <2>3
<1>2. ss \in [1..Len(items) -> Seq(Values)] /\ Len(items) \in Nat
  BY <1>1
<1> HIDE DEF ss
<1>3. ss \in Seq(Seq(Values))
  BY <1>2, FunSeq
<1>4. FlattenSeq(ss) \in Seq(Values)
  BY <1>3, FlattenValues
<1> QED
  BY <1>4 DEF ss, Script!ElementsOf, Script!FlattenSeq, FlattenSeq

(* What == tells of the list and a literal.                                *)
LEMMA EqualIs == IInv => EqualBothWays
<1> DEFINE s == Elements(ordered)
           u == AsVariable(List, Plain)
           a == DicPairs(dic)
<1> SUFFICES ASSUME IInv, Numeric(ordered), NEW items \in Literals,
                    Sized(u), Sized(AsVariable(PushList(items), Plain))
             PROVE  VariableCompare(u, AsVariable(PushList(items), Plain))
                       /\ VariableCompare(AsVariable(PushList(items), Plain), u)
                    <=> /\ s = Script!ElementsOf(items)
                        /\ \A k \in Keys : DicGet(dic, k) = Script!PairsOf(items)[k]
  BY Zenon DEF EqualBothWays
<1> DEFINE l == PushList(items)
           t == Script!ElementsOf(items)
           v == AsVariable(l, Plain)
           b == DicPairs(l.dic)
<1>1. /\ Keeps(List.ordered, s) /\ s \in Seq(Values) /\ Tidy(List.dic) /\ List.dic = dic
  <2>1. Keeps(ordered, s) /\ s \in Seq(Cells)
    BY Viewed, KeepsIs
  <2>2. s \in Seq(Values)
    BY <2>1, NumericIs DEF Numeric
  <2> QED
    BY <2>1, <2>2 DEF List, IInv
<1>2. items \in Seq(Items)
  BY LiteralsAssumption
<1>3. /\ Keeps(l.ordered, t) /\ Tidy(l.dic)
      /\ \A k \in Keys : DicGet(l.dic, k) = Script!PairsOf(items)[k]
  <2>1. Shows(l, [seq |-> t, map |-> Script!PairsOf(items)])
    BY <1>2, PushIs
  <2> HIDE DEF l, t
  <2> QED
    BY <2>1 DEF Shows
<1>4. t \in Seq(Values)
  BY <1>2, LiteralElements
<1>5. Means(Plain, Layer[Depth - 1])
  BY PlainIs
<1>6. Sized(u) /\ Sized(v)
  OBVIOUS
<1> HIDE DEF s, t, l
<1>7. /\ u = Lst(Meant(s, Plain), Paired(a, Plain)) /\ Meant(s, Plain) \in Seq(Layer[Depth - 1])
      /\ Paired(a, Plain) \in Seq(PairsOver(Layer[Depth - 1])) /\ KeysApart(Paired(a, Plain))
  BY <1>1, <1>5, VariableIs
<1>8. /\ v = Lst(Meant(t, Plain), Paired(b, Plain)) /\ Meant(t, Plain) \in Seq(Layer[Depth - 1])
      /\ Paired(b, Plain) \in Seq(PairsOver(Layer[Depth - 1])) /\ KeysApart(Paired(b, Plain))
  BY <1>3, <1>4, <1>5, VariableIs
<1>9. /\ a \in Seq(Entries) /\ Once(a) /\ \A k \in Keys : Val(a, k) = DicGet(dic, k)
      /\ b \in Seq(Entries) /\ Once(b) /\ \A k \in Keys : Val(b, k) = Script!PairsOf(items)[k]
  <2>1. a \in Seq(Entries) /\ Once(a) /\ \A k \in Keys : Val(a, k) = DicGet(dic, k)
    BY <1>1, PairsAre
  <2>2. b \in Seq(Entries) /\ Once(b) /\ \A k \in Keys : Val(b, k) = DicGet(l.dic, k)
    BY <1>3, PairsAre
  <2> QED
    BY <1>3, <2>1, <2>2
<1> HIDE DEF u, v, a, b
<1>10. u \in Layer[Depth] /\ v \in Layer[Depth]
  <2>1. Depth > 0 /\ Sized(Lst(Meant(s, Plain), Paired(a, Plain))) /\ Sized(Lst(Meant(t, Plain), Paired(b, Plain)))
    BY <1>6, <1>7, <1>8, MeaningAssumption
  <2>2. /\ Lst(Meant(s, Plain), Paired(a, Plain)) \in Layer[Depth]
        /\ Lst(Meant(t, Plain), Paired(b, Plain)) \in Layer[Depth]
    BY <1>7, <1>8, <2>1, ListLevel
  <2> QED
    BY <1>7, <1>8, <2>2, Zenon
<1>11. VariableCompare(u, v) <=> s = t /\ Within(a, b)
  BY <1>1, <1>4, <1>7, <1>8, <1>9, <1>10, ListsCompare
<1>12. VariableCompare(v, u) <=> t = s /\ Within(b, a)
  BY <1>1, <1>4, <1>7, <1>8, <1>9, <1>10, ListsCompare
<1>13. (Within(a, b) /\ Within(b, a)) <=> \A k \in Keys : DicGet(dic, k) = Script!PairsOf(items)[k]
  BY <1>9, WithinBoth
<1>14. VariableCompare(u, v) /\ VariableCompare(v, u)
         <=> s = t /\ \A k \in Keys : DicGet(dic, k) = Script!PairsOf(items)[k]
  BY <1>11, <1>12, <1>13, Zenon
<1> QED
  BY <1>14 DEF s, t, u, v, l

(* Two lists that are == both ways round have equal elements and, for each *)
(* key, equal values, however their chains are ordered: variable_compare,  *)
(* which looks for the keys of its first list only, asked twice.           *)
THEOREM ListsAreEqual ==
    ASSUME ~Careless
    PROVE  Spec => []EqualBothWays
BY EqualIs, ListsKeep, PTL
==============================================================================
