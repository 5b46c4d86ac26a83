---------------------------- MODULE StructProofs ----------------------------
(***************************************************************************)
(* The arrays and dics of struct.c, for every size, length, index, hash    *)
(* and key: what each operation leaves below length, that length stays     *)
(* within the memory, and what a dic gives for each key afterwards.  Then  *)
(* the sort of sys.c, for arrays of every length: it loses no element, and *)
(* puts them in order as far as compar can compare them.                   *)
(***************************************************************************)
EXTENDS Lists, Induction, SequenceTheorems

Room(a) == a.length <= Size(a)

(* list_resize never cuts off what it is asked to hold.                    *)
LEMMA ResizeHolds ==
    ASSUME NEW size \in Nat, NEW length \in Nat
    PROVE  /\ ListResize(size, length) \in Nat
           /\ length <= ListResize(size, length)
  BY DEF ListResize

LEMMA ResizeKeeps ==
    ASSUME NEW a \in Arrays, NEW n \in Nat
    PROVE  /\ Resize(a, n) \in Arrays
           /\ Resize(a, n).length = a.length
           /\ Size(Resize(a, n)) = ListResize(Size(a), n)
           /\ Size(Resize(a, n)) \in Nat /\ n <= Size(Resize(a, n))
           /\ \A i \in 1..Size(a) :
                 i <= Size(Resize(a, n)) => Resize(a, n).cells[i] = a.cells[i]
  <1> DEFINE s == ListResize(Size(a), n)
             c == [i \in 1..s |-> IF i <= Size(a) THEN a.cells[i] ELSE Null]
  <1>1. /\ a.cells \in Seq(Cells) /\ a.length \in Nat /\ Size(a) \in Nat
        /\ a = [cells |-> a.cells, length |-> a.length]
    BY DEF Arrays, Size
  <1>2. s \in Nat /\ n <= s
    BY <1>1, ResizeHolds
  <1>3. \A i \in 1..s : c[i] \in Cells
    BY <1>1, <1>2 DEF Size, Cells
  <1>4. c \in Seq(Cells) /\ Len(c) = s
    BY <1>2, <1>3
  <1>5. Resize(a, n) = [cells |-> c, length |-> a.length]
    BY DEF Resize
  <1> QED
    BY <1>1, <1>2, <1>4, <1>5 DEF Arrays, Size

LEMMA ElementsAre ==
    ASSUME NEW a \in Arrays, Room(a)
    PROVE  /\ Elements(a) \in Seq(Cells) /\ Len(Elements(a)) = a.length
           /\ \A i \in 1..a.length : a.cells[i] \in Cells /\ Elements(a)[i] = a.cells[i]
  <1>1. a.cells \in Seq(Cells) /\ a.length \in Nat /\ Size(a) \in Nat
    BY DEF Arrays, Size
  <1>2. Elements(a) = [i \in 1..a.length |-> a.cells[i]]
    BY <1>1 DEF Elements, Room
  <1>3. \A i \in 1..a.length : a.cells[i] \in Cells
    BY <1>1 DEF Room, Size
  <1> QED
    BY <1>1, <1>2, <1>3

(* array_add appends, within the memory.                                   *)
THEOREM AddAppends ==
    ASSUME NEW a \in Arrays, Room(a), NEW x \in Cells
    PROVE  /\ ArrayAdd(a, x) \in Arrays /\ Room(ArrayAdd(a, x))
           /\ Elements(ArrayAdd(a, x)) = Append(Elements(a), x)
  <1> DEFINE n == a.length + 1
             r == Resize(a, n)
             b == ArrayAdd(a, x)
  <1>1. a.cells \in Seq(Cells) /\ a.length \in Nat /\ Size(a) \in Nat /\ n \in Nat
    BY DEF Arrays, Size
  <1>2. /\ r \in Arrays /\ n <= Size(r)
        /\ \A i \in 1..a.length : r.cells[i] = a.cells[i]
    <2>1. /\ r \in Arrays /\ n <= Size(r)
          /\ Size(r) \in Nat
          /\ \A i \in 1..Size(a) : i <= Size(r) => r.cells[i] = a.cells[i]
      BY <1>1, ResizeKeeps
    <2>2. \A i \in 1..a.length : i \in 1..Size(a) /\ i <= Size(r)
      BY <1>1, <2>1 DEF Room
    <2> QED
      BY <2>1, <2>2
  <1>3. /\ r.cells \in Seq(Cells) /\ b.cells = [r.cells EXCEPT ![n] = x]
        /\ b = [cells |-> b.cells, length |-> n]
    BY <1>2 DEF ArrayAdd, Arrays
  <1>4. b.cells \in Seq(Cells) /\ Len(b.cells) = Size(r)
    BY <1>1, <1>2, <1>3 DEF Size
  <1>5. b \in Arrays /\ Room(b)
    BY <1>1, <1>2, <1>3, <1>4, SMTT(30) DEF Arrays, Room, Size
  <1>6. \A i \in 1..n : b.cells[i] = IF i = n THEN x ELSE a.cells[i]
    BY <1>1, <1>2, <1>3 DEF Size
  <1>7. /\ Elements(b) \in Seq(Cells) /\ Len(Elements(b)) = n
        /\ \A i \in 1..n : Elements(b)[i] = b.cells[i]
    <2>1. b.length = n
      BY <1>3
    <2> QED
      BY <1>5, <2>1, ElementsAre
  <1>8. /\ Elements(a) \in Seq(Cells) /\ Len(Elements(a)) = a.length
        /\ \A i \in 1..a.length : Elements(a)[i] = a.cells[i]
    BY ElementsAre
  <1>9. Elements(b) = Append(Elements(a), x)
    <2> DEFINE s == Elements(a)
               t == Elements(b)
    <2>1. /\ s \in Seq(Cells) /\ Len(s) = a.length /\ t \in Seq(Cells) /\ Len(t) = n
          /\ \A i \in 1..n : t[i] = IF i = n THEN x ELSE s[i]
      BY <1>1, <1>6, <1>7, <1>8
    <2> HIDE DEF s, t
    <2>2. /\ Append(s, x) \in Seq(Cells) /\ Len(Append(s, x)) = n
          /\ \A i \in 1..n : Append(s, x)[i] = IF i = n THEN x ELSE s[i]
      BY <1>1, <2>1
    <2>3. t = Append(s, x)
      BY <2>1, <2>2, SameSeq
    <2> QED
      BY <2>3 DEF s, t
  <1> QED
    BY <1>5, <1>9

(* array_set writes one element and leaves the others, if only the resize  *)
(* to index + 1 leaves the length that there was.                          *)
THEOREM SetKeeps ==
    ASSUME NEW a \in Arrays, Room(a), NEW index \in Nat, NEW x \in Cells,
           a.length <= ListResize(Size(a), index + 1)
    PROVE  LET b == ArraySet(a, index, x)
           IN  /\ b \in Arrays /\ Room(b)
               /\ Elements(b)[index + 1] = x
               /\ \A i \in 1..a.length \ {index + 1} : Elements(b)[i] = Elements(a)[i]
  <1> DEFINE n == index + 1
             r == Resize(a, n)
             b == ArraySet(a, index, x)
  <1>1. a.cells \in Seq(Cells) /\ a.length \in Nat /\ Size(a) \in Nat /\ n \in Nat
    BY DEF Arrays, Size
  <1>2. /\ r \in Arrays /\ n <= Size(r) /\ Size(r) = ListResize(Size(a), n)
        /\ \A i \in 1..a.length : r.cells[i] = a.cells[i]
    <2> HIDE DEF n
    <2>1. /\ r \in Arrays /\ n <= Size(r) /\ Size(r) = ListResize(Size(a), n)
          /\ Size(r) \in Nat
          /\ \A i \in 1..Size(a) : i <= Size(r) => r.cells[i] = a.cells[i]
      BY <1>1, ResizeKeeps
    <2>2. a.length <= Size(r)
      BY <2>1 DEF n
    <2>3. \A i \in 1..a.length : i \in 1..Size(a) /\ i <= Size(r)
      BY <1>1, <2>1, <2>2 DEF Room
    <2> QED
      BY <2>1, <2>3
  <1>3. /\ r.cells \in Seq(Cells) /\ b.cells = [r.cells EXCEPT ![n] = x]
        /\ b.length = IF a.length <= n THEN n ELSE a.length
        /\ b = [cells |-> b.cells, length |-> b.length]
    BY <1>2 DEF ArraySet, Arrays
  <1>4. b.cells \in Seq(Cells) /\ Len(b.cells) = Size(r)
    BY <1>1, <1>2, <1>3 DEF Size
  <1>5. b \in Arrays /\ Room(b)
    BY <1>1, <1>2, <1>3, <1>4 DEF Arrays, Room, Size
  <1>6. \A i \in 1..b.length : Elements(b)[i] = b.cells[i]
    BY <1>5, ElementsAre
  <1>7. \A i \in 1..a.length : Elements(a)[i] = a.cells[i]
    BY ElementsAre
  <1>8. Elements(b)[n] = x
    BY <1>1, <1>2, <1>3, <1>6 DEF Size
  <1>9. ASSUME NEW i \in 1..a.length \ {n} PROVE Elements(b)[i] = Elements(a)[i]
    <2>1. i \in 1..b.length /\ i \in 1..a.length
      BY <1>1, <1>3
    <2>2. i \in DOMAIN r.cells
      BY <1>1, <1>2, <1>3, <2>1 DEF Size
    <2>3. b.cells[i] = r.cells[i]
      BY <1>3, <2>2
    <2> QED
      BY <1>2, <1>6, <1>7, <2>1, <2>3
  <1> QED
    BY <1>5, <1>8, <1>9

(* array_remove takes count elements out, from start on.                   *)
THEOREM RemoveShifts ==
    ASSUME NEW a \in Arrays, Room(a), NEW start \in Nat, NEW n \in Int, Removable(a, start, n)
    PROVE  LET b     == ArrayRemove(a, start, n)
               count == IF n < 0 THEN a.length - start ELSE n
           IN  /\ b \in Arrays /\ Room(b) /\ b.length = a.length - count
               /\ \A i \in 1..b.length :
                     Elements(b)[i] = Elements(a)[IF i <= start THEN i ELSE i + count]
  <1> DEFINE count == IF n < 0 THEN a.length - start ELSE n
             m == a.length - count
             r == ListRemove(a, start, n)
             b == Resize(r, m)
  <1>1. a.cells \in Seq(Cells) /\ a.length \in Nat /\ Size(a) \in Nat
        /\ DOMAIN a.cells = 1..Size(a)
    BY DEF Arrays, Size
  <1>2. count \in Nat /\ m \in Nat /\ start + count <= a.length
    <2>1. start <= a.length /\ start + count <= a.length
      BY DEF Removable
    <2>2. count \in Int /\ (count < 0 => ~(start <= a.length))
      BY <1>1
    <2> HIDE DEF count
    <2> QED
      BY <1>1, <2>1, <2>2 DEF m
  <1>3. r = [cells  |-> [i \in DOMAIN a.cells |->
                          IF i > start /\ i <= m THEN a.cells[i + count] ELSE a.cells[i]],
             length |-> m]
    BY DEF ListRemove
  <1> HIDE DEF count, m
  <1>4. \A i \in 1..Size(a) : i <= m => i + count \in 1..Size(a)
    BY <1>1, <1>2 DEF Room, m
  <1>5. /\ r \in Arrays /\ r.length = m /\ Size(r) = Size(a)
        /\ \A i \in 1..m : r.cells[i] = a.cells[IF i <= start THEN i ELSE i + count]
    <2> DEFINE c == [i \in 1..Size(a) |->
                       IF i > start /\ i <= m THEN a.cells[i + count] ELSE a.cells[i]]
    <2>1. r = [cells |-> c, length |-> m]
      BY <1>1, <1>3
    <2>2. \A i \in 1..Size(a) : c[i] \in Cells
      BY <1>1, <1>4
    <2>3. c \in Seq(Cells) /\ Len(c) = Size(a)
      BY <1>1, <2>2
    <2>4. \A i \in 1..m : i \in 1..Size(a)
      BY <1>1, <1>2 DEF Room, m
    <2> QED
      BY <1>1, <1>2, <2>1, <2>3, <2>4 DEF Arrays, Size
  <1> HIDE DEF r
  <1>6. /\ b \in Arrays /\ b.length = m /\ m <= Size(b) /\ Size(b) \in Nat
        /\ \A i \in 1..Size(r) : i <= Size(b) => b.cells[i] = r.cells[i]
    BY <1>2, <1>5, ResizeKeeps
  <1> HIDE DEF b
  <1>7. Room(b)
    BY <1>6 DEF Room
  <1>8. ASSUME NEW i \in 1..m
        PROVE  Elements(b)[i] = Elements(a)[IF i <= start THEN i ELSE i + count]
    <2>1. i \in 1..Size(r) /\ i <= Size(b)
      BY <1>1, <1>2, <1>5, <1>6 DEF Room, m
    <2>2. Elements(b)[i] = b.cells[i] /\ b.cells[i] = r.cells[i]
      BY <1>6, <1>7, <2>1, ElementsAre
    <2>3. (IF i <= start THEN i ELSE i + count) \in 1..a.length
      BY <1>1, <1>2 DEF m
    <2>4. \A j \in 1..a.length : Elements(a)[j] = a.cells[j]
      BY ElementsAre
    <2> QED
      BY <1>5, <2>2, <2>3, <2>4
  <1>9. b = ArrayRemove(a, start, n)
    BY <1>5 DEF b, r, ArrayRemove
  <1> QED
    BY <1>6, <1>7, <1>8, <1>9 DEF count, m

LEMMA CopyKeeps ==
    ASSUME NEW a \in Arrays, Room(a)
    PROVE  /\ ArrayCopy(a) \in Arrays /\ Room(ArrayCopy(a))
           /\ Elements(ArrayCopy(a)) = Elements(a)
  <1> DEFINE c == [i \in 1..Size(a) |-> IF i <= a.length THEN a.cells[i] ELSE Null]
  <1>1. a.cells \in Seq(Cells) /\ a.length \in Nat /\ Size(a) \in Nat /\ DOMAIN a.cells = 1..Size(a)
    BY DEF Arrays, Size
  <1>2. ArrayCopy(a) = [cells |-> c, length |-> a.length]
    BY <1>1 DEF ArrayCopy
  <1>3. \A i \in 1..Size(a) : c[i] \in Cells
    BY <1>1 DEF Cells
  <1>4. c \in Seq(Cells) /\ Len(c) = Size(a)
    BY <1>1, <1>3
  <1>5. ArrayCopy(a) \in Arrays /\ Room(ArrayCopy(a))
    BY <1>1, <1>2, <1>4 DEF Arrays, Room, Size
  <1>6. \A i \in 1..a.length : ArrayCopy(a).cells[i] = a.cells[i]
    BY <1>1, <1>2 DEF Room
  <1>7. ArrayCopy(a).length = a.length
    BY <1>2
  <1> QED
    BY <1>5, <1>6, <1>7, ElementsAre, SameSeq

-----------------------------------------------------------------------------
(* The least of a set of numbers.                                          *)
LEMMA LeastIs ==
    ASSUME NEW T \in SUBSET Nat, T # {}
    PROVE  Min(T) \in T /\ \A n \in T : Min(T) <= n
  BY LeastNumber, Zenon DEF Min

(* A chain has each key once.                                              *)
Once(c) == \A i, j \in DOMAIN c : c[i].key = c[j].key => i = j

(* Where a key is, in a chain that has it once.                            *)
LEMMA AtOnce ==
    ASSUME NEW c \in Seq(Entries), Once(c), NEW i \in DOMAIN c
    PROVE  At(c, c[i].key) = {i} /\ Min(At(c, c[i].key)) = i
<1>1. At(c, c[i].key) = {i}
  BY DEF At, Once
<1>2. {i} \in SUBSET Nat /\ {i} # {}
  OBVIOUS
<1>3. Min({i}) = i
  BY <1>2, LeastIs
<1> QED
  BY <1>1, <1>3

(* A chain with an entry before it.                                        *)
LEMMA PutFirst ==
    ASSUME NEW c \in Seq(Entries), NEW e \in Entries
    PROVE  /\ <<e>> \o c \in Seq(Entries) /\ Len(<<e>> \o c) = Len(c) + 1
           /\ (<<e>> \o c)[1] = e
           /\ \A i \in 2..Len(c) + 1 : (<<e>> \o c)[i] = c[i - 1]
<1>1. <<e>> \in Seq(Entries) /\ Len(<<e>>) = 1 /\ <<e>>[1] = e
  OBVIOUS
<1> HIDE DEF Entries
<1> QED
  BY <1>1, ConcatProperties

(* A sequence with element i taken out.                                    *)
LEMMA TakenOut ==
    ASSUME NEW S, NEW c \in Seq(S), NEW i \in 1..Len(c)
    PROVE  /\ RemoveAt(c, i) \in Seq(S) /\ Len(RemoveAt(c, i)) = Len(c) - 1
           /\ \A j \in 1..Len(c) - 1 : RemoveAt(c, i)[j] = c[IF j < i THEN j ELSE j + 1]
<1> DEFINE a == SubSeq(c, 1, i - 1)
           b == SubSeq(c, i + 1, Len(c))
<1>1. a \in Seq(S) /\ Len(a) = i - 1 /\ \A j \in 1..i - 1 : a[j] = c[j]
  OBVIOUS
<1>2. b \in Seq(S) /\ Len(b) = Len(c) - i /\ \A j \in 1..Len(c) - i : b[j] = c[j + i]
  OBVIOUS
<1>3. RemoveAt(c, i) = a \o b
  BY DEF RemoveAt
<1> HIDE DEF a, b
<1>4. /\ a \o b \in Seq(S) /\ Len(a \o b) = Len(c) - 1
      /\ \A j \in 1..Len(c) - 1 : (a \o b)[j] = IF j <= i - 1 THEN a[j] ELSE b[j - (i - 1)]
  <2>1. /\ a \o b \in Seq(S) /\ Len(a \o b) = Len(a) + Len(b)
        /\ \A j \in 1..Len(a) + Len(b) : (a \o b)[j] = IF j <= Len(a) THEN a[j] ELSE b[j - Len(a)]
    BY <1>1, <1>2, ConcatProperties
  <2>2. Len(a) + Len(b) = Len(c) - 1
    BY <1>1, <1>2
  <2> QED
    BY <1>1, <2>1, <2>2
<1>5. ASSUME NEW j \in 1..Len(c) - 1 PROVE (a \o b)[j] = c[IF j < i THEN j ELSE j + 1]
  <2>1. CASE j < i
    <3>1. j \in 1..i - 1
      BY <2>1
    <3> QED
      BY <1>1, <1>4, <2>1, <3>1
  <2>2. CASE ~(j < i)
    <3>1. j - (i - 1) \in 1..Len(c) - i /\ (j - (i - 1)) + i = j + 1
      BY <2>2
    <3> QED
      BY <1>2, <1>4, <2>2, <3>1
  <2> QED
    BY <2>1, <2>2
<1> QED
  BY <1>3, <1>4, <1>5

Proper(c, b) == /\ c \in Seq(Entries) /\ Once(c)
                /\ \A i \in DOMAIN c : Bucket(c[i].key) = b

Tidy(m) == m \in Dics /\ \A b \in Buckets : Proper(m[b], b)

(* What a chain gives for a key.                                           *)
Val(c, k) == IF At(c, k) # {} THEN c[Min(At(c, k))].val ELSE Null

(* Of the two chains c and d, d has v for k, and is like c otherwise.      *)
Gives(d, c, k, v) == \A j \in Keys : Val(d, j) = IF j = k THEN v ELSE Val(c, j)

(* The same of two dics.                                                   *)
Changed(n, m, k, v) == \A j \in Keys : DicGet(n, j) = IF j = k THEN v ELSE DicGet(m, j)

(* The dic m with the chain d in place of k's.                             *)
Rechained(m, k, d) == [m EXCEPT ![Bucket(k)] = d]

(* A key has a bucket, whatever its hash, negative ones too.               *)
LEMMA BucketIs == \A k \in Keys : Bucket(k) \in Buckets
  BY ListsAssumption DEF Bucket, Buckets

(* What a chain gives for the key of an entry is the entry's value.        *)
LEMMA ValOf ==
    ASSUME NEW c \in Seq(Entries), Once(c), NEW i \in DOMAIN c, NEW k, c[i].key = k
    PROVE  Val(c, k) = c[i].val
<1>1. At(c, k) = {i} /\ Min(At(c, k)) = i
  BY AtOnce
<1> QED
  BY <1>1 DEF Val

(* What it gives for a key that it does not have.                          *)
LEMMA ValNone ==
    ASSUME NEW c, NEW k, \A i \in DOMAIN c : c[i].key # k
    PROVE  Val(c, k) = Null
  BY DEF Val, At

(* A dic looks for a key in the chain of its bucket.                       *)
LEMMA DicGetIs ==
    ASSUME NEW m, NEW k
    PROVE  DicGet(m, k) = Val(m[Bucket(k)], k) /\ (DicHas(m, k) <=> At(m[Bucket(k)], k) # {})
  BY DEF DicGet, DicHas, Val, Chain

(* An entry of a chain.                                                    *)
LEMMA EntryIs ==
    ASSUME NEW c \in Seq(Entries), NEW i \in DOMAIN c
    PROVE  /\ i \in 1..Len(c) /\ c[i] \in Entries /\ c[i].key \in Keys /\ c[i].val \in Values
           /\ c[i] = [key |-> c[i].key, val |-> c[i].val]
<1>1. i \in 1..Len(c) /\ c[i] \in Entries
  OBVIOUS
<1> QED
  BY ONLY <1>1 DEF Entries

(* Of two chains with the same entries for j, both give the same for j.    *)
LEMMA SameVal ==
    ASSUME NEW c \in Seq(Entries), Once(c), NEW d \in Seq(Entries), Once(d), NEW j,
           \A i \in DOMAIN c : c[i].key = j => \E h \in DOMAIN d : d[h] = c[i],
           \A h \in DOMAIN d : d[h].key = j => \E i \in DOMAIN c : d[h].key = c[i].key
    PROVE  Val(d, j) = Val(c, j)
<1>1. CASE \E i \in DOMAIN c : c[i].key = j
  <2>1. PICK i \in DOMAIN c : c[i].key = j
    BY <1>1
  <2>2. PICK h \in DOMAIN d : d[h] = c[i]
    BY <2>1
  <2>3. Val(c, j) = c[i].val
    BY <2>1, ValOf
  <2>4. Val(d, j) = d[h].val
    BY <2>1, <2>2, ValOf
  <2> QED
    BY <2>2, <2>3, <2>4
<1>2. CASE \A i \in DOMAIN c : c[i].key # j
  <2>1. Val(c, j) = Null
    BY <1>2, ValNone
  <2>2. \A h \in DOMAIN d : d[h].key # j
    BY <1>2
  <2>3. Val(d, j) = Null
    BY <2>2, ValNone
  <2> QED
    BY <2>1, <2>3
<1> QED
  BY <1>1, <1>2

(* A value is written over another one.                                    *)
Reset(c, n, v) == [c EXCEPT ![n].val = v]

(* A chain in which a value is written over has the new one.               *)
LEMMA ChainSet ==
    ASSUME NEW b, NEW c, Proper(c, b), NEW n \in DOMAIN c, NEW v \in Values
    PROVE  Proper(Reset(c, n, v), b) /\ Gives(Reset(c, n, v), c, c[n].key, v)
<1> DEFINE d == [c EXCEPT ![n].val = v]
           e == [key |-> c[n].key, val |-> v]
<1>1. c \in Seq(Entries) /\ Once(c) /\ DOMAIN c = 1..Len(c) /\ Len(c) \in Nat
      /\ \A i \in DOMAIN c : Bucket(c[i].key) = b
  BY DEF Proper
<1>2. e \in Entries /\ e.key = c[n].key /\ e.val = v
  <2>1. c[n].key \in Keys
    BY <1>1, EntryIs
  <2> QED
    BY <2>1 DEF Entries
<1>3. d = [c EXCEPT ![n] = e]
  <2>1. [c[n] EXCEPT !.val = v] = e
    <3>1. c[n] = [key |-> c[n].key, val |-> c[n].val]
      BY <1>1, EntryIs
    <3> QED
      BY <3>1
  <2>2. d = [c EXCEPT ![n] = [c[n] EXCEPT !.val = v]]
    OBVIOUS
  <2> QED
    BY <2>1, <2>2
<1> HIDE DEF d, e
<1>4. d \in Seq(Entries) /\ DOMAIN d = DOMAIN c /\ d[n] = e /\ \A i \in DOMAIN c : i # n => d[i] = c[i]
  <2> HIDE DEF Entries
  <2> QED
    BY <1>1, <1>2, <1>3
<1>5. \A i \in DOMAIN c : d[i].key = c[i].key
  BY <1>2, <1>4
<1>6. Once(d)
  BY <1>1, <1>4, <1>5 DEF Once
<1>7. Proper(d, b)
  BY <1>1, <1>4, <1>5, <1>6 DEF Proper
<1>8. ASSUME NEW j \in Keys PROVE Val(d, j) = IF j = c[n].key THEN v ELSE Val(c, j)
  <2>1. CASE j = c[n].key
    <3>1. Val(d, j) = d[n].val
      BY <1>2, <1>4, <1>6, <2>1, ValOf
    <3> QED
      BY <1>2, <1>4, <2>1, <3>1
  <2>2. CASE j # c[n].key
    <3>1. \A i \in DOMAIN c : c[i].key = j => \E h \in DOMAIN d : d[h] = c[i]
      BY <1>4, <2>2
    <3>2. \A h \in DOMAIN d : d[h].key = j => \E i \in DOMAIN c : d[h].key = c[i].key
      BY <1>4, <1>5
    <3>3. Val(d, j) = Val(c, j)
      BY <1>1, <1>4, <1>6, <3>1, <3>2, SameVal
    <3> QED
      BY <2>2, <3>3
  <2> QED
    BY <2>1, <2>2
<1> QED
  BY <1>7, <1>8 DEF d, Reset, Gives

(* An entry for a new key comes first.                                     *)
LEMMA ChainPut ==
    ASSUME NEW b, NEW c, Proper(c, b), NEW e \in Entries, Bucket(e.key) = b,
           \A i \in DOMAIN c : c[i].key # e.key
    PROVE  Proper(<<e>> \o c, b) /\ Gives(<<e>> \o c, c, e.key, e.val)
<1> DEFINE d == <<e>> \o c
<1>1. c \in Seq(Entries) /\ Once(c) /\ DOMAIN c = 1..Len(c) /\ Len(c) \in Nat
      /\ \A i \in DOMAIN c : Bucket(c[i].key) = b
  BY DEF Proper
<1>2. /\ d \in Seq(Entries) /\ Len(d) = Len(c) + 1 /\ d[1] = e
      /\ \A i \in 2..Len(c) + 1 : d[i] = c[i - 1]
  BY <1>1, PutFirst
<1> HIDE DEF d
<1>3. DOMAIN d = 1..Len(c) + 1
  BY <1>1, <1>2
<1>4. 1 \in DOMAIN d /\ \A i \in DOMAIN d : i = 1 \/ (i - 1 \in DOMAIN c /\ d[i] = c[i - 1])
  BY <1>1, <1>2, <1>3
<1>5. \A i \in DOMAIN c : i + 1 \in DOMAIN d /\ d[i + 1] = c[i]
  <2> TAKE i \in DOMAIN c
  <2>1. i + 1 \in 2..Len(c) + 1 /\ (i + 1) - 1 = i
    BY <1>1
  <2> QED
    BY <1>1, <1>2, <1>3, <2>1
<1>6. Once(d)
  <2>1. SUFFICES ASSUME NEW i \in DOMAIN d, NEW j \in DOMAIN d, d[i].key = d[j].key PROVE i = j
    BY DEF Once
  <2>2. CASE i = 1
    BY <1>2, <1>4, <2>1, <2>2
  <2>3. CASE j = 1
    BY <1>2, <1>4, <2>1, <2>3
  <2>4. CASE i # 1 /\ j # 1
    <3>1. i - 1 \in DOMAIN c /\ j - 1 \in DOMAIN c /\ c[i - 1].key = c[j - 1].key
      BY <1>4, <2>1, <2>4
    <3>2. i - 1 = j - 1
      BY <1>1, <3>1 DEF Once
    <3> QED
      BY <1>3, <3>2
  <2> QED
    BY <2>2, <2>3, <2>4
<1>7. Proper(d, b)
  <2>1. \A i \in DOMAIN d : Bucket(d[i].key) = b
    BY <1>1, <1>2, <1>4
  <2> QED
    BY <1>2, <1>6, <2>1 DEF Proper
<1>8. ASSUME NEW j \in Keys PROVE Val(d, j) = IF j = e.key THEN e.val ELSE Val(c, j)
  <2>1. CASE j = e.key
    <3>1. Val(d, j) = d[1].val
      BY <1>2, <1>4, <1>6, <2>1, ValOf
    <3> QED
      BY <1>2, <2>1, <3>1
  <2>2. CASE j # e.key
    <3>1. \A i \in DOMAIN c : c[i].key = j => \E h \in DOMAIN d : d[h] = c[i]
      BY <1>5
    <3>2. \A h \in DOMAIN d : d[h].key = j => \E i \in DOMAIN c : d[h].key = c[i].key
      BY <1>2, <1>4, <2>2
    <3>3. Val(d, j) = Val(c, j)
      BY <1>1, <1>2, <1>6, <3>1, <3>2, SameVal, ZenonT(30)
    <3> QED
      BY <2>2, <3>3
  <2> QED
    BY <2>1, <2>2
<1> QED
  BY <1>7, <1>8 DEF d, Gives

(* An entry that is unlinked.                                              *)
LEMMA ChainCut ==
    ASSUME NEW b, NEW c, Proper(c, b), NEW n \in DOMAIN c
    PROVE  Proper(RemoveAt(c, n), b) /\ Gives(RemoveAt(c, n), c, c[n].key, Null)
<1> DEFINE d == RemoveAt(c, n)
<1>1. c \in Seq(Entries) /\ Once(c) /\ DOMAIN c = 1..Len(c) /\ Len(c) \in Nat /\ n \in 1..Len(c)
      /\ \A i \in DOMAIN c : Bucket(c[i].key) = b
  BY DEF Proper
<1> DEFINE from(i) == IF i < n THEN i ELSE i + 1
<1>2. /\ d \in Seq(Entries) /\ DOMAIN d = 1..Len(c) - 1
      /\ \A i \in DOMAIN d : d[i] = c[from(i)]
  <2> HIDE DEF Entries
  <2>1. /\ d \in Seq(Entries) /\ Len(d) = Len(c) - 1
        /\ \A i \in 1..Len(c) - 1 : d[i] = c[from(i)]
    BY <1>1, TakenOut, Zenon
  <2> QED
    BY <1>1, <2>1
<1> HIDE DEF d
<1>3. \A i, j \in DOMAIN d : from(i) \in DOMAIN c /\ from(i) # n /\ (from(i) = from(j) => i = j)
  BY <1>1, <1>2
<1>4. \A i \in DOMAIN c : i # n => \E j \in DOMAIN d : from(j) = i
  <2>1. ASSUME NEW i \in DOMAIN c, i < n PROVE i \in DOMAIN d /\ from(i) = i
    BY <1>1, <1>2, <2>1
  <2>2. ASSUME NEW i \in DOMAIN c, i > n PROVE i - 1 \in DOMAIN d /\ from(i - 1) = i
    BY <1>1, <1>2, <2>2
  <2> QED
    BY <1>1, <2>1, <2>2
<1> HIDE DEF from, d
<1>5. Once(d)
  BY <1>1, <1>2, <1>3 DEF Once
<1>6. Proper(d, b)
  BY <1>1, <1>2, <1>3, <1>5 DEF Proper
<1>7. ASSUME NEW j \in Keys PROVE Val(d, j) = IF j = c[n].key THEN Null ELSE Val(c, j)
  <2>1. CASE j = c[n].key
    <3>1. \A i \in DOMAIN d : d[i].key # j
      BY <1>1, <1>2, <1>3, <2>1 DEF Once
    <3> QED
      BY <2>1, <3>1, ValNone
  <2>2. CASE j # c[n].key
    <3>1. \A i \in DOMAIN c : c[i].key = j => \E h \in DOMAIN d : d[h] = c[i]
      BY <1>2, <1>4, <2>2
    <3>2. \A h \in DOMAIN d : d[h].key = j => \E i \in DOMAIN c : d[h].key = c[i].key
      BY <1>2, <1>3
    <3>3. Val(d, j) = Val(c, j)
      BY <1>1, <1>2, <1>5, <3>1, <3>2, SameVal
    <3> QED
      BY <2>2, <3>3
  <2> QED
    BY <2>1, <2>2
<1> QED
  BY <1>6, <1>7 DEF d, Gives

(* A change of one chain is a change for one key of the dic.               *)
LEMMA BucketChanged ==
    ASSUME NEW m, Tidy(m), NEW k \in Keys, NEW d, Proper(d, Bucket(k)), NEW v,
           Gives(d, m[Bucket(k)], k, v)
    PROVE  Tidy(Rechained(m, k, d)) /\ Changed(Rechained(m, k, d), m, k, v)
<1> DEFINE n == Rechained(m, k, d)
<1>1. Bucket(k) \in Buckets
  BY BucketIs
<1>2. m \in [Buckets -> Seq(Entries)] /\ d \in Seq(Entries)
  BY DEF Tidy, Dics, Entries, Proper
<1>3. n \in [Buckets -> Seq(Entries)]
  BY <1>1, <1>2 DEF Rechained
<1>4. \A b \in Buckets : n[b] = IF b = Bucket(k) THEN d ELSE m[b]
  BY <1>2 DEF Rechained
<1> HIDE DEF n
<1>5. Tidy(n)
  BY <1>3, <1>4 DEF Tidy, Dics, Entries
<1>6. ASSUME NEW j \in Keys PROVE DicGet(n, j) = IF j = k THEN v ELSE DicGet(m, j)
  <2>1. Bucket(j) \in Buckets
    BY BucketIs
  <2>2. DicGet(n, j) = Val(n[Bucket(j)], j) /\ DicGet(m, j) = Val(m[Bucket(j)], j)
    BY DicGetIs
  <2> QED
    BY <1>4, <2>1, <2>2 DEF Gives
<1>7. Changed(n, m, k, v)
  BY <1>6 DEF Changed
<1> QED
  BY <1>5, <1>7 DEF n

(* dic_insert sets one key's value, whether it was there or not, and       *)
(* leaves a tidy dic and the values of all other keys.                     *)
LEMMA InsertIs ==
    ASSUME NEW m, Tidy(m), NEW k \in Keys, NEW v \in Values
    PROVE  Tidy(DicInsert(m, k, v)) /\ Changed(DicInsert(m, k, v), m, k, v)
<1> DEFINE c == m[Bucket(k)]
           e == [key |-> k, val |-> v]
<1>1. Bucket(k) \in Buckets /\ Proper(c, Bucket(k))
  BY BucketIs DEF Tidy
<1>2. CASE At(c, k) = {}
  <2>1. e \in Entries /\ e.key = k /\ e.val = v /\ \A i \in DOMAIN c : c[i].key # k
    BY <1>2 DEF Entries, At
  <2>2. DicInsert(m, k, v) = Rechained(m, k, <<e>> \o c)
    BY <1>2, DicGetIs DEF DicInsert, Rechained
  <2> HIDE DEF c, e
  <2>3. Proper(<<e>> \o c, Bucket(k)) /\ Gives(<<e>> \o c, c, k, v)
    BY <1>1, <2>1, ChainPut
  <2> QED
    BY <2>2, <2>3, BucketChanged DEF c
<1>3. CASE At(c, k) # {}
  <2>1. PICK n \in DOMAIN c : c[n].key = k
    BY <1>3 DEF At
  <2>2. Min(At(c, k)) = n
    BY <1>1, <2>1, AtOnce DEF Proper
  <2>3. DicInsert(m, k, v) = Rechained(m, k, Reset(c, n, v))
    BY <1>3, <2>2, DicGetIs DEF DicInsert, Rechained, Reset
  <2> HIDE DEF c
  <2>4. Proper(Reset(c, n, v), Bucket(k)) /\ Gives(Reset(c, n, v), c, k, v)
    BY <1>1, <2>1, ChainSet
  <2> QED
    BY <2>3, <2>4, BucketChanged DEF c
<1> QED
  BY <1>2, <1>3

(* dic_remove takes one key out: no older value comes back.                *)
THEOREM RemoveIs ==
    ASSUME NEW m, Tidy(m), NEW k \in Keys
    PROVE  Tidy(DicRemove(m, k)) /\ Changed(DicRemove(m, k), m, k, Null)
<1> DEFINE c == m[Bucket(k)]
<1>1. Bucket(k) \in Buckets /\ Proper(c, Bucket(k))
  BY BucketIs DEF Tidy
<1>2. CASE At(c, k) = {}
  <2>1. DicRemove(m, k) = m /\ DicGet(m, k) = Null
    BY <1>2, DicGetIs DEF DicRemove, Val
  <2> QED
    BY <2>1 DEF Changed
<1>3. CASE At(c, k) # {}
  <2>1. PICK n \in DOMAIN c : c[n].key = k
    BY <1>3 DEF At
  <2>2. Min(At(c, k)) = n
    BY <1>1, <2>1, AtOnce DEF Proper
  <2>3. DicRemove(m, k) = Rechained(m, k, RemoveAt(c, n))
    BY <1>3, <2>2, DicGetIs DEF DicRemove, Rechained
  <2> HIDE DEF c
  <2>4. Proper(RemoveAt(c, n), Bucket(k)) /\ Gives(RemoveAt(c, n), c, k, Null)
    BY <1>1, <2>1, ChainCut
  <2> QED
    BY <2>3, <2>4, BucketChanged DEF c
<1> QED
  BY <1>2, <1>3

-----------------------------------------------------------------------------
Apart(s, t) == \A i \in DOMAIN s, j \in DOMAIN t : s[i].key # t[j].key

(* Two chains that have no key in common, one behind the other.            *)
LEMMA OnceJoined ==
    ASSUME NEW s \in Seq(Entries), NEW t \in Seq(Entries), Once(s), Once(t), Apart(s, t)
    PROVE  /\ s \o t \in Seq(Entries) /\ Once(s \o t)
           /\ ToSet(s \o t) = ToSet(s) \cup ToSet(t)
<1> DEFINE d == s \o t
           k == Len(s)
           l == Len(t)
<1>1. /\ k \in Nat /\ l \in Nat /\ DOMAIN s = 1..k /\ DOMAIN t = 1..l
      /\ d \in Seq(Entries) /\ DOMAIN d = 1..k + l
      /\ \A i \in 1..k + l : d[i] = IF i <= k THEN s[i] ELSE t[i - k]
  <2> HIDE DEF Entries
  <2> QED
    BY ConcatProperties
<1> HIDE DEF d, k, l
<1>2. \A i \in DOMAIN s : i \in DOMAIN d /\ i <= k /\ d[i] = s[i]
  BY <1>1
<1>3. \A i \in DOMAIN t : i + k \in DOMAIN d /\ ~(i + k <= k) /\ (i + k) - k = i
  BY <1>1
<1>4. \A i \in DOMAIN t : d[i + k] = t[i]
  BY <1>1, <1>3
<1>5. \A i \in DOMAIN d : \/ i \in DOMAIN s /\ d[i] = s[i]
                          \/ i - k \in DOMAIN t /\ d[i] = t[i - k]
  BY <1>1
<1>6. ToSet(d) = ToSet(s) \cup ToSet(t)
  BY <1>2, <1>3, <1>4, <1>5 DEF ToSet
<1>7. Once(d)
  <2>1. SUFFICES ASSUME NEW i \in DOMAIN d, NEW j \in DOMAIN d, d[i].key = d[j].key PROVE i = j
    BY DEF Once
  <2>2. CASE i \in DOMAIN s /\ d[i] = s[i] /\ j \in DOMAIN s /\ d[j] = s[j]
    BY <2>1, <2>2 DEF Once
  <2>3. CASE i - k \in DOMAIN t /\ d[i] = t[i - k] /\ j - k \in DOMAIN t /\ d[j] = t[j - k]
    <3>1. i - k = j - k
      BY <2>1, <2>3 DEF Once
    <3> QED
      BY <1>1, <3>1
  <2>4. CASE i \in DOMAIN s /\ d[i] = s[i] /\ j - k \in DOMAIN t /\ d[j] = t[j - k]
    BY <2>1, <2>4 DEF Apart
  <2>5. CASE i - k \in DOMAIN t /\ d[i] = t[i - k] /\ j \in DOMAIN s /\ d[j] = s[j]
    BY <2>1, <2>5 DEF Apart
  <2> QED
    BY <1>5, <2>2, <2>3, <2>4, <2>5
<1> QED
  BY <1>1, <1>6, <1>7 DEF d

(* The same of any number of chains.                                       *)
LEMMA FlattenOnce ==
    ASSUME NEW ss \in Seq(Seq(Entries)), ss # <<>>, \A i \in DOMAIN ss : Once(ss[i]),
           \A i, j \in DOMAIN ss : i # j => Apart(ss[i], ss[j])
    PROVE  Once(FlattenSeq(ss))
<1> DEFINE L == Len(ss)
<1>1. L \in Nat /\ 1 <= L /\ DOMAIN ss = 1..L /\ \A i \in 1..L : ss[i] \in Seq(Entries)
  <2> HIDE DEF Entries
  <2> QED
    BY EmptySeq
<1>2. PICK f \in [1..L -> Seq(Entries)] :
         /\ FlattenSeq(ss) = f[L] /\ f[1] = ss[1]
         /\ \A i \in 2..L : f[i] = f[i - 1] \o ss[i]
  BY FlattenIs
<1> HIDE DEF L
<1> DEFINE P(i) == Once(f[i]) /\ ToSet(f[i]) = UNION {ToSet(ss[j]) : j \in 1..i}
<1>3. P(1)
  <2>1. {ToSet(ss[j]) : j \in 1..1} = {ToSet(ss[1])}
    OBVIOUS
  <2> QED
    BY <1>1, <1>2, <2>1, SMTT(30)
<1>4. ASSUME NEW i \in 2..L, P(i - 1) PROVE P(i)
  <2>1. /\ i \in 1..L /\ i - 1 \in 1..L /\ f[i] = f[i - 1] \o ss[i]
        /\ f[i - 1] \in Seq(Entries) /\ ss[i] \in Seq(Entries) /\ Once(ss[i])
    <3> HIDE DEF Entries
    <3>1. i \in 1..L /\ i - 1 \in 1..L
      BY <1>1
    <3>2. i \in DOMAIN ss
      BY <1>1, <3>1
    <3> QED
      BY <1>1, <1>2, <3>1, <3>2
  <2>2. Apart(f[i - 1], ss[i])
    <3>1. SUFFICES ASSUME NEW a \in DOMAIN f[i - 1], NEW b \in DOMAIN ss[i]
                   PROVE  f[i - 1][a].key # ss[i][b].key
      BY DEF Apart
    <3>2. PICK j \in 1..i - 1 : f[i - 1][a] \in ToSet(ss[j])
      <4>1. f[i - 1][a] \in ToSet(f[i - 1])
        BY DEF ToSet
      <4> QED
        BY <1>4, <4>1
    <3>3. PICK c \in DOMAIN ss[j] : f[i - 1][a] = ss[j][c]
      BY <3>2 DEF ToSet
    <3>4. j \in DOMAIN ss /\ i \in DOMAIN ss /\ i # j
      BY <1>1, <2>1
    <3> QED
      BY <3>3, <3>4 DEF Apart
  <2>3. Once(f[i]) /\ ToSet(f[i]) = ToSet(f[i - 1]) \cup ToSet(ss[i])
    BY <1>4, <2>1, <2>2, OnceJoined
  <2>4. UNION {ToSet(ss[j]) : j \in 1..i} = (UNION {ToSet(ss[j]) : j \in 1..i - 1}) \cup ToSet(ss[i])
    <3>1. 1..i = (1..i - 1) \cup {i}
      BY <2>1
    <3> QED
      BY <3>1
  <2> QED
    BY <1>4, <2>3, <2>4
<1> HIDE DEF P
<1>5. \A i \in 1..L : P(i)
  <2> DEFINE T == {i \in 0..L : i = 0 \/ P(i)}
  <2>1. T \in SUBSET (0..L) /\ 0 \in T
    BY <1>1
  <2>2. ASSUME NEW i \in 1..L, i - 1 \in T PROVE i \in T
    <3>1. CASE i = 1
      BY <1>3, <3>1
    <3>2. CASE i # 1
      <4>1. i \in 2..L /\ P(i - 1)
        BY <2>2, <3>2
      <4> QED
        BY <1>4, <4>1
    <3> QED
      BY <3>1, <3>2
  <2>3. T = 0..L
    <3> HIDE DEF T
    <3> QED
      BY <1>1, <2>1, <2>2, UpTo
  <2> QED
    BY <2>3
<1>6. P(L)
  BY <1>1, <1>5
<1> QED
  BY <1>2, <1>6 DEF P

(* dic_keys and dic_vals name each key once, with its value.               *)
LEMMA PairsAre ==
    ASSUME NEW m, Tidy(m)
    PROVE  /\ DicPairs(m) \in Seq(Entries) /\ Once(DicPairs(m))
           /\ \A k \in Keys : Val(DicPairs(m), k) = DicGet(m, k)
<1> DEFINE ss == [b \in 1..16 |-> m[b - 1]]
           d == DicPairs(m)
<1>1. \A b \in 1..16 : b - 1 \in Buckets
  BY DEF Buckets
<1>2. \A b \in Buckets : m[b] \in Seq(Entries) /\ Once(m[b])
                         /\ \A i \in DOMAIN m[b] : Bucket(m[b][i].key) = b
  BY DEF Tidy, Proper
<1>3. ss \in Seq(Seq(Entries)) /\ ss # <<>> /\ DOMAIN ss = 1..16
  <2> HIDE DEF Entries
  <2>1. \A b \in 1..16 : m[b - 1] \in Seq(Entries)
    BY <1>1, <1>2
  <2> QED
    BY <2>1
<1>4. \A b \in DOMAIN ss : ss[b] = m[b - 1] /\ b - 1 \in Buckets
  BY <1>1
<1>5. d = FlattenSeq(ss)
  BY DEF DicPairs
<1> HIDE DEF ss, d
<1>6. \A b \in DOMAIN ss : Once(ss[b])
  BY <1>2, <1>4
<1>7. \A b, c \in DOMAIN ss : b # c => Apart(ss[b], ss[c])
  <2> SUFFICES ASSUME NEW b \in DOMAIN ss, NEW c \in DOMAIN ss, b # c,
                      NEW i \in DOMAIN ss[b], NEW j \in DOMAIN ss[c]
               PROVE  ss[b][i].key # ss[c][j].key
    BY DEF Apart
  <2>1. Bucket(ss[b][i].key) = b - 1 /\ Bucket(ss[c][j].key) = c - 1
    BY <1>2, <1>4
  <2>2. b - 1 # c - 1
    <3>1. b \in 1..16 /\ c \in 1..16 /\ b # c
      BY <1>3, SMTT(30)
    <3> QED
      BY ONLY <3>1
  <2> QED
    BY <2>1, <2>2
<1>8. Once(d)
  BY <1>3, <1>5, <1>6, <1>7, FlattenOnce, Zenon
<1>9. d \in Seq(Entries) /\ ToSet(d) = UNION {ToSet(ss[b]) : b \in DOMAIN ss}
  BY <1>3, <1>5, FlattenValues
<1>10. ASSUME NEW k \in Keys PROVE Val(d, k) = DicGet(m, k)
  <2> DEFINE c == m[Bucket(k)]
  <2>1. Bucket(k) \in Buckets /\ c \in Seq(Entries) /\ Once(c) /\ DicGet(m, k) = Val(c, k)
    BY <1>2, BucketIs, DicGetIs
  <2>2. Bucket(k) + 1 \in DOMAIN ss /\ ss[Bucket(k) + 1] = c
    <3>1. Bucket(k) + 1 \in 1..16 /\ (Bucket(k) + 1) - 1 = Bucket(k)
      BY <2>1 DEF Buckets
    <3> QED
      BY <1>3, <1>4, <3>1
  <2>3. \A i \in DOMAIN c : c[i].key = k => \E h \in DOMAIN d : d[h] = c[i]
    <3> TAKE i \in DOMAIN c
    <3>1. c[i] \in ToSet(c)
      BY DEF ToSet
    <3>2. c[i] \in ToSet(d)
      BY <1>9, <2>2, <3>1
    <3> QED
      BY <3>2 DEF ToSet
  <2>4. \A h \in DOMAIN d : d[h].key = k => \E i \in DOMAIN c : d[h].key = c[i].key
    <3> SUFFICES ASSUME NEW h \in DOMAIN d, d[h].key = k PROVE \E i \in DOMAIN c : d[h].key = c[i].key
      OBVIOUS
    <3>1. d[h] \in ToSet(d)
      BY DEF ToSet
    <3>2. PICK b \in DOMAIN ss : d[h] \in ToSet(ss[b])
      BY <1>9, <3>1
    <3>3. PICK i \in DOMAIN ss[b] : d[h] = ss[b][i]
      BY <3>2 DEF ToSet
    <3>4. ss[b] = c
      BY <1>2, <1>4, <3>3
    <3> QED
      BY <3>3, <3>4
  <2> HIDE DEF c
  <2> QED
    BY <1>8, <1>9, <2>1, <2>3, <2>4, SameVal
<1> QED
  BY <1>8, <1>9, <1>10 DEF d

-----------------------------------------------------------------------------
(* A dic has the keys whose value is not nil.                              *)
LEMMA HasIs ==
    ASSUME NEW m, Tidy(m), NEW k \in Keys
    PROVE  DicHas(m, k) <=> DicGet(m, k) # Null
<1> DEFINE c == m[Bucket(k)]
<1>1. c \in Seq(Entries) /\ Once(c)
  BY BucketIs DEF Tidy, Proper
<1>2. DicGet(m, k) = Val(c, k) /\ (DicHas(m, k) <=> At(c, k) # {})
  BY DicGetIs
<1> HIDE DEF c
<1>3. CASE At(c, k) = {}
  BY <1>2, <1>3 DEF Val
<1>4. CASE At(c, k) # {}
  <2>1. PICK i \in DOMAIN c : c[i].key = k
    BY <1>4 DEF At
  <2>2. Val(c, k) = c[i].val /\ c[i].val \in Values
    BY <1>1, <2>1, ValOf, EntryIs
  <2> QED
    BY <1>2, <1>4, <2>2, ListsAssumption
<1> QED
  BY <1>3, <1>4

(* A dic with nothing in it.                                               *)
LEMMA NoPairs ==
    /\ Tidy(EmptyDic) /\ \A k \in Keys : DicGet(EmptyDic, k) = Null
<1>1. Tidy(EmptyDic)
  BY DEF Tidy, EmptyDic, Dics, Proper, Once, Entries
<1>2. ASSUME NEW k \in Keys PROVE DicGet(EmptyDic, k) = Null
  <2>1. EmptyDic[Bucket(k)] = <<>>
    BY BucketIs DEF EmptyDic
  <2>2. Val(<<>>, k) = Null
    BY ValNone
  <2> QED
    BY <2>1, <2>2, DicGetIs
<1> QED
  BY <1>1, <1>2

(* The dic m, where pairs that it has no key of have been inserted.        *)
Joined(m, a, pairs, n) ==
    \A k \in Keys : DicGet(m, k) = IF DicGet(a, k) # Null THEN DicGet(a, k)
                                   ELSE IF \E j \in 1..n : pairs[j].key = k THEN Val(pairs, k)
                                   ELSE Null

(* A turn of dic_union's loop.                                             *)
LEMMA PairJoins ==
    ASSUME NEW a, NEW pairs \in Seq(Entries), Once(pairs), NEW i \in 1..Len(pairs),
           NEW m, Tidy(m), Joined(m, a, pairs, i - 1)
    PROVE  Tidy(DicInsertNew(m, pairs[i])) /\ Joined(DicInsertNew(m, pairs[i]), a, pairs, i)
<1> DEFINE e == pairs[i]
           n == DicInsertNew(m, e)
<1>1. i \in DOMAIN pairs /\ i \in Nat /\ e.key \in Keys /\ e.val \in Values
  <2>1. i \in DOMAIN pairs
    OBVIOUS
  <2> QED
    BY <2>1, EntryIs
<1>2. Val(pairs, e.key) = e.val
  BY <1>1, ValOf
<1>3. \A k : (\E j \in 1..i : pairs[j].key = k) <=> k = e.key \/ \E j \in 1..i - 1 : pairs[j].key = k
  <2>1. 1..i = (1..i - 1) \cup {i}
    OBVIOUS
  <2> QED
    BY <2>1
<1>4. ~\E j \in 1..i - 1 : pairs[j].key = e.key
  <2> SUFFICES ASSUME NEW j \in 1..i - 1, pairs[j].key = e.key PROVE FALSE
    OBVIOUS
  <2>1. j \in DOMAIN pairs /\ j # i
    OBVIOUS
  <2> QED
    BY <1>1, <2>1 DEF Once
<1> HIDE DEF e
<1>5. CASE DicHas(m, e.key)
  <2>1. n = m /\ DicGet(m, e.key) # Null
    BY <1>1, <1>5, HasIs DEF DicInsertNew
  <2>2. DicGet(a, e.key) # Null
    BY <1>1, <1>4, <2>1 DEF Joined
  <2> HIDE DEF n
  <2>3. Joined(n, a, pairs, i)
    BY <1>3, <2>1, <2>2 DEF Joined
  <2> QED
    BY <2>1, <2>3 DEF n, e
<1>6. CASE ~DicHas(m, e.key)
  <2>1. n = DicInsert(m, e.key, e.val) /\ DicGet(m, e.key) = Null
    BY <1>1, <1>6, HasIs DEF DicInsertNew
  <2>2. DicGet(a, e.key) = Null
    BY <1>1, <2>1 DEF Joined
  <2>3. Tidy(n) /\ Changed(n, m, e.key, e.val)
    BY <1>1, <2>1, InsertIs
  <2> HIDE DEF n
  <2>4. \A k \in Keys : DicGet(n, k) = IF k = e.key THEN e.val ELSE DicGet(m, k)
    BY <2>3 DEF Changed
  <2>5. Joined(n, a, pairs, i)
    BY <1>2, <1>3, <2>2, <2>4 DEF Joined
  <2> QED
    BY <2>3, <2>5 DEF n, e
<1> QED
  BY <1>5, <1>6

(* dic_union: a key of both has the value of the first.                    *)
THEOREM UnionIs ==
    ASSUME NEW a, Tidy(a), NEW pairs \in Seq(Entries), Once(pairs)
    PROVE  /\ Tidy(DicUnion[a][pairs])
           /\ \A k \in Keys : DicGet(DicUnion[a][pairs], k) =
                                IF DicGet(a, k) # Null THEN DicGet(a, k) ELSE Val(pairs, k)
<1> DEFINE n == Len(pairs)
           turns == [i \in 1..n |-> [m \in Dics |-> DicInsertNew(m, pairs[i])]]
           P == [i \in 0..n |-> {m \in Dics : Tidy(m) /\ Joined(m, a, pairs, i)}]
           r == DicUnion[a][pairs]
<1>1. n \in Nat /\ DOMAIN pairs = 1..n /\ a \in Dics
  BY DEF Tidy
<1>2. r = Loop(turns, a)
  <2>1. r = Loop([i \in DOMAIN pairs |-> [m \in Dics |-> DicInsertNew(m, pairs[i])]], a)
    BY <1>1 DEF DicUnion
  <2> QED
    BY <1>1, <2>1
<1>3. turns = [i \in 1..n |-> turns[i]]
  OBVIOUS
<1>4. P \in [0..n -> SUBSET Dics]
  OBVIOUS
<1>5. a \in P[0]
  <2>1. 0 \in 0..n /\ ~\E j \in 1..0 : TRUE
    BY <1>1
  <2>2. Joined(a, a, pairs, 0)
    BY <2>1 DEF Joined
  <2> QED
    BY <1>1, <2>1, <2>2
<1>6. ASSUME NEW i \in 1..n, NEW m \in P[i - 1] PROVE turns[i][m] \in P[i]
  <2>1. i - 1 \in 0..n /\ i \in 0..n
    BY <1>1
  <2>2. m \in Dics /\ Tidy(m) /\ Joined(m, a, pairs, i - 1)
    BY <2>1
  <2>3. turns[i][m] = DicInsertNew(m, pairs[i])
    BY <2>2
  <2>4. Tidy(DicInsertNew(m, pairs[i])) /\ Joined(DicInsertNew(m, pairs[i]), a, pairs, i)
    BY <2>2, PairJoins
  <2>5. DicInsertNew(m, pairs[i]) \in Dics
    BY <2>4 DEF Tidy
  <2> QED
    BY <2>1, <2>3, <2>4, <2>5
<1> HIDE DEF turns
<1>7. r \in P[n]
  <2> HIDE DEF P, n, r
  <2> QED
    BY <1>1, <1>2, <1>3, <1>4, <1>5, <1>6, LoopKeeps
<1> HIDE DEF r
<1>8. Tidy(r) /\ Joined(r, a, pairs, n)
  <2>1. n \in 0..n
    BY <1>1
  <2> QED
    BY <1>7, <2>1
<1>9. ASSUME NEW k \in Keys, ~\E j \in 1..n : pairs[j].key = k PROVE Val(pairs, k) = Null
  BY <1>1, <1>9, ValNone
<1> QED
  BY <1>8, <1>9 DEF Joined, r

(* dic_minus: the keys of the second are gone, the others are as they      *)
(* were.                                                                   *)
LEMMA MinusIs ==
    ASSUME NEW a, Tidy(a), NEW pairs \in Seq(Entries)
    PROVE  /\ Tidy(DicMinus[a][pairs])
           /\ \A k \in Keys : DicGet(DicMinus[a][pairs], k) =
                                IF \E j \in DOMAIN pairs : pairs[j].key = k THEN Null ELSE DicGet(a, k)
<1> DEFINE n == Len(pairs)
           turns == [i \in 1..n |-> [m \in Dics |-> DicRemove(m, pairs[i].key)]]
           Left(m, i) == \A k \in Keys : DicGet(m, k) =
                            IF \E j \in 1..i : pairs[j].key = k THEN Null ELSE DicGet(a, k)
           P == [i \in 0..n |-> {m \in Dics : Tidy(m) /\ Left(m, i)}]
           r == DicMinus[a][pairs]
<1>1. n \in Nat /\ DOMAIN pairs = 1..n /\ a \in Dics
  BY DEF Tidy
<1>2. r = Loop(turns, a)
  <2>1. r = Loop([i \in DOMAIN pairs |-> [m \in Dics |-> DicRemove(m, pairs[i].key)]], a)
    BY <1>1 DEF DicMinus
  <2> QED
    BY <1>1, <2>1
<1>3. turns = [i \in 1..n |-> turns[i]]
  OBVIOUS
<1>4. P \in [0..n -> SUBSET Dics]
  OBVIOUS
<1>5. a \in P[0]
  <2>1. 0 \in 0..n /\ ~\E j \in 1..0 : TRUE
    BY <1>1
  <2>2. Left(a, 0)
    BY <2>1
  <2> QED
    BY <1>1, <2>1, <2>2
<1>6. ASSUME NEW i \in 1..n, NEW m \in P[i - 1] PROVE turns[i][m] \in P[i]
  <2> DEFINE d == DicRemove(m, pairs[i].key)
  <2>1. i - 1 \in 0..n /\ i \in 0..n /\ 1..i = (1..i - 1) \cup {i}
    BY <1>1
  <2>2. m \in Dics /\ Tidy(m) /\ Left(m, i - 1)
    BY <2>1
  <2>3. turns[i][m] = d
    BY <2>2
  <2>4. pairs[i].key \in Keys
    BY <1>1, EntryIs
  <2>5. Tidy(d) /\ Changed(d, m, pairs[i].key, Null)
    BY <2>2, <2>4, RemoveIs
  <2> HIDE DEF d
  <2>6. \A k \in Keys : DicGet(d, k) = IF k = pairs[i].key THEN Null ELSE DicGet(m, k)
    BY <2>5 DEF Changed
  <2>7. d \in Dics
    BY <2>5 DEF Tidy
  <2>8. Left(d, i)
    BY <2>1, <2>2, <2>6
  <2> QED
    BY <2>1, <2>3, <2>5, <2>7, <2>8
<1> HIDE DEF turns, Left
<1>7. r \in P[n]
  <2> HIDE DEF P, n, r
  <2> QED
    BY <1>1, <1>2, <1>3, <1>4, <1>5, <1>6, LoopKeeps
<1> HIDE DEF r
<1>8. Tidy(r) /\ Left(r, n)
  <2>1. n \in 0..n
    BY <1>1
  <2> QED
    BY <1>7, <2>1
<1> QED
  BY <1>1, <1>8 DEF Left, r

(* A copy of a dic has its keys and their values.                          *)
LEMMA CopyIs ==
    ASSUME NEW m, Tidy(m)
    PROVE  Tidy(DicCopy(m)) /\ \A k \in Keys : DicGet(DicCopy(m), k) = DicGet(m, k)
<1>1. /\ DicPairs(m) \in Seq(Entries) /\ Once(DicPairs(m))
      /\ \A k \in Keys : Val(DicPairs(m), k) = DicGet(m, k)
  BY PairsAre
<1> QED
  BY <1>1, UnionIs, NoPairs DEF DicCopy

-----------------------------------------------------------------------------
(* The array a keeps the elements s, within its memory.                    *)
Keeps(a, s) == /\ a \in Arrays /\ s \in Seq(Cells)
               /\ a.length = Len(s) /\ Len(s) <= Size(a)
               /\ \A i \in 1..Len(s) : a.cells[i] = s[i]

(* What it is for an array to keep elements.                               *)
LEMMA KeepsIs ==
    ASSUME NEW a, NEW s, Keeps(a, s)
    PROVE  /\ a \in Arrays /\ s \in Seq(Cells) /\ Room(a) /\ Elements(a) = s
           /\ a.length = Len(s) /\ Len(s) \in Nat
<1>1. a \in Arrays /\ s \in Seq(Cells) /\ a.length = Len(s) /\ Room(a) /\ Len(s) \in Nat
  BY DEF Keeps, Room
<1>2. /\ Elements(a) \in Seq(Cells) /\ Len(Elements(a)) = a.length
      /\ \A i \in 1..a.length : Elements(a)[i] = a.cells[i]
  BY <1>1, ElementsAre
<1>3. \A i \in 1..Len(s) : Elements(a)[i] = s[i]
  BY <1>1, <1>2 DEF Keeps
<1> QED
  BY <1>1, <1>2, <1>3, SameSeq

(* An array within its memory keeps what are its elements.                 *)
LEMMA IsKept ==
    ASSUME NEW a \in Arrays, Room(a), NEW s \in Seq(Cells), Elements(a) = s
    PROVE  Keeps(a, s)
<1>1. /\ Elements(a) \in Seq(Cells) /\ Len(Elements(a)) = a.length
      /\ \A i \in 1..a.length : Elements(a)[i] = a.cells[i]
  BY ElementsAre
<1> QED
  BY <1>1 DEF Keeps, Room

(* The same.                                                               *)
LEMMA ElementsKept ==
    ASSUME NEW a \in Arrays, Room(a)
    PROVE  Keeps(a, Elements(a))
  BY ElementsAre, IsKept

(* array_add appends.                                                      *)
LEMMA KeepsAdd ==
    ASSUME NEW a, NEW s, Keeps(a, s), NEW x \in Cells
    PROVE  Keeps(ArrayAdd(a, x), Append(s, x))
<1>1. a \in Arrays /\ Room(a) /\ Elements(a) = s /\ s \in Seq(Cells)
  BY KeepsIs
<1>2. ArrayAdd(a, x) \in Arrays /\ Room(ArrayAdd(a, x)) /\ Elements(ArrayAdd(a, x)) = Append(s, x)
  BY <1>1, AddAppends
<1>3. Append(s, x) \in Seq(Cells)
  BY <1>1
<1> QED
  BY <1>2, <1>3, IsKept

(* array_copy keeps the elements.                                          *)
LEMMA KeepsCopy ==
    ASSUME NEW a, NEW s, Keeps(a, s)
    PROVE  Keeps(ArrayCopy(a), s)
  BY KeepsIs, CopyKeeps, IsKept

(* Resized for n elements, n at least the length.                          *)
LEMMA KeepsResize ==
    ASSUME NEW a, NEW s, Keeps(a, s), NEW n \in Nat, Len(s) <= n
    PROVE  /\ Keeps(Resize(a, n), s) /\ n <= Size(Resize(a, n)) /\ Size(Resize(a, n)) \in Nat
           /\ Resize(a, n).cells \in Seq(Cells) /\ DOMAIN Resize(a, n).cells = 1..Size(Resize(a, n))
<1> DEFINE r == Resize(a, n)
<1>1. a \in Arrays /\ a.cells \in Seq(Cells) /\ Size(a) \in Nat
  BY DEF Keeps, Arrays, Size
<1>2. /\ r \in Arrays /\ r.length = a.length /\ Size(r) \in Nat /\ n <= Size(r)
      /\ \A i \in 1..Size(a) : i <= Size(r) => r.cells[i] = a.cells[i]
  BY <1>1, ResizeKeeps
<1> HIDE DEF r
<1>3. \A i \in 1..Len(s) : i \in 1..Size(a) /\ i <= Size(r)
  BY <1>1, <1>2 DEF Keeps
<1>4. Keeps(r, s)
  BY <1>2, <1>3 DEF Keeps
<1> QED
  BY <1>2, <1>4 DEF r, Arrays, Size

(* array_insert at 0 puts the element before the others.                   *)
LEMMA KeepsFirst ==
    ASSUME NEW a, NEW s, Keeps(a, s), NEW x \in Cells
    PROVE  Keeps(ArrayInsert(a, 0, x), <<x>> \o s)
<1> DEFINE n == a.length + 1
           r == Resize(a, n)
           room == r.cells
           c == [i \in DOMAIN room |-> CASE i = 1 -> x [] i > 1 /\ i <= n -> room[i - 1] [] OTHER -> room[i]]
           t == <<x>> \o s
<1>1. s \in Seq(Cells) /\ a.length = Len(s) /\ Len(s) \in Nat /\ n \in Nat /\ n = Len(s) + 1
  BY KeepsIs
<1>2. /\ Keeps(r, s) /\ n <= Size(r) /\ Size(r) \in Nat /\ room \in Seq(Cells)
      /\ DOMAIN room = 1..Size(r)
  BY <1>1, KeepsResize
<1> HIDE DEF n, r
<1>3. ArrayInsert(a, 0, x) = [cells |-> c, length |-> n]
  BY <1>1 DEF ArrayInsert, r, n
<1>4. \A i \in 1..Size(r) : c[i] \in Cells
  BY <1>1, <1>2
<1>5. c \in Seq(Cells) /\ Len(c) = Size(r)
  BY <1>2, <1>4
<1>6. t \in Seq(Cells) /\ Len(t) = n /\ t[1] = x /\ \A i \in 2..n : t[i] = s[i - 1]
  <2>1. <<x>> \in Seq(Cells) /\ Len(<<x>>) = 1 /\ <<x>>[1] = x
    OBVIOUS
  <2> QED
    BY <1>1, <2>1, ConcatProperties
<1>7. \A i \in 1..n : c[i] = t[i]
  <2> TAKE i \in 1..n
  <2>1. i \in DOMAIN room
    BY <1>1, <1>2
  <2>2. CASE i = 1
    BY <1>6, <2>1, <2>2
  <2>3. CASE i # 1
    <3>1. i \in 2..n /\ i - 1 \in 1..Len(s)
      BY <1>1, <2>3
    <3>2. room[i - 1] = s[i - 1]
      BY <1>2, <3>1 DEF Keeps
    <3>3. c[i] = room[i - 1]
      BY <2>1, <2>3, <3>1
    <3> QED
      BY <1>6, <3>1, <3>2, <3>3
  <2> QED
    BY <2>2, <2>3
<1> HIDE DEF c, t
<1>8. Keeps([cells |-> c, length |-> n], t)
  BY <1>1, <1>2, <1>5, <1>6, <1>7 DEF Keeps, Arrays, Size
<1> QED
  BY <1>3, <1>8 DEF t

(* array_set at the length appends.                                        *)
LEMMA KeepsEnd ==
    ASSUME NEW a, NEW s, Keeps(a, s), NEW x \in Cells
    PROVE  Keeps(ArraySet(a, a.length, x), Append(s, x))
<1> DEFINE n == a.length
           b == ArraySet(a, n, x)
<1>1. /\ a \in Arrays /\ Room(a) /\ s \in Seq(Cells) /\ Elements(a) = s /\ n = Len(s) /\ n \in Nat
      /\ Size(a) \in Nat
  BY KeepsIs DEF Arrays, Size
<1> HIDE DEF n
<1>2. n <= ListResize(Size(a), n + 1)
  <2>1. n + 1 \in Nat
    BY <1>1
  <2>2. n + 1 <= ListResize(Size(a), n + 1) /\ ListResize(Size(a), n + 1) \in Nat
    BY <1>1, <2>1, ResizeHolds
  <2> QED
    BY <1>1, <2>2
<1>3. /\ b \in Arrays /\ Room(b) /\ Elements(b)[n + 1] = x
      /\ \A i \in 1..a.length \ {n + 1} : Elements(b)[i] = Elements(a)[i]
  BY <1>1, <1>2, SetKeeps DEF n
<1>4. b.length = n + 1
  BY <1>1 DEF ArraySet, n
<1> HIDE DEF b
<1>5. Elements(b) \in Seq(Cells) /\ Len(Elements(b)) = n + 1
  BY <1>3, <1>4, ElementsAre
<1>6. \A i \in 1..n : Elements(b)[i] = s[i]
  BY <1>1, <1>3 DEF n
<1>7. Elements(b) = Append(s, x)
  <2> DEFINE t == Elements(b)
             u == Append(s, x)
  <2>1. u \in Seq(Cells) /\ Len(u) = n + 1 /\ u[n + 1] = x /\ \A i \in 1..n : u[i] = s[i]
    BY <1>1
  <2>2. t \in Seq(Cells) /\ Len(t) = n + 1 /\ t[n + 1] = x /\ \A i \in 1..n : t[i] = s[i]
    BY <1>3, <1>5, <1>6
  <2> HIDE DEF t, u
  <2>3. \A i \in 1..n + 1 : t[i] = u[i]
    BY <1>1, <2>1, <2>2
  <2>4. t = u
    BY <2>1, <2>2, <2>3, SameSeq
  <2> QED
    BY <2>4 DEF t, u
<1>8. Keeps(b, Append(s, x))
  BY <1>3, <1>5, <1>7, IsKept
<1> QED
  BY <1>8 DEF b, n

(* array_append joins the elements of both.                                *)
LEMMA KeepsAppend ==
    ASSUME NEW a, NEW s, Keeps(a, s), NEW b, NEW t, Keeps(b, t)
    PROVE  Keeps(ArrayAppend(a, b), s \o t)
<1> DEFINE k == a.length
           n == k + b.length
           r == Resize(a, n)
           room == r.cells
           c == [i \in DOMAIN room |-> IF i > k /\ i <= n THEN b.cells[i - k] ELSE room[i]]
           u == s \o t
<1>1. /\ s \in Seq(Cells) /\ k = Len(s) /\ k \in Nat
      /\ t \in Seq(Cells) /\ b.length = Len(t) /\ Len(t) \in Nat /\ n \in Nat /\ k <= n
  BY KeepsIs
<1>2. /\ Keeps(r, s) /\ n <= Size(r) /\ Size(r) \in Nat /\ room \in Seq(Cells)
      /\ DOMAIN room = 1..Size(r)
  BY <1>1, KeepsResize
<1> HIDE DEF r
<1>3. ArrayAppend(a, b) = [cells |-> c, length |-> n]
  BY DEF ArrayAppend, r
<1>4. \A i \in 1..Len(t) : b.cells[i] = t[i] /\ t[i] \in Cells
  BY <1>1 DEF Keeps
<1>5. u \in Seq(Cells) /\ Len(u) = n /\ \A i \in 1..n : u[i] = IF i <= k THEN s[i] ELSE t[i - k]
  BY <1>1, ConcatProperties
<1>6. n = k + Len(t)
  BY <1>1
<1> HIDE DEF k, n, u
<1>7. \A i \in 1..Size(r) : c[i] \in Cells
  <2> TAKE i \in 1..Size(r)
  <2>1. i \in DOMAIN room /\ room[i] \in Cells
    BY <1>2
  <2>2. CASE i > k /\ i <= n
    <3>1. i - k \in 1..Len(t)
      BY <1>1, <1>6, <2>2
    <3> QED
      BY <1>4, <2>1, <2>2, <3>1
  <2>3. CASE ~(i > k /\ i <= n)
    BY <2>1, <2>3
  <2> QED
    BY <2>2, <2>3
<1>8. c \in Seq(Cells) /\ Len(c) = Size(r)
  BY <1>2, <1>7
<1>9. \A i \in 1..n : c[i] = u[i]
  <2> TAKE i \in 1..n
  <2>1. i \in DOMAIN room
    BY <1>1, <1>2
  <2>2. CASE i <= k
    <3>1. i \in 1..Len(s)
      BY <1>1, <2>2
    <3>2. room[i] = s[i]
      BY <1>2, <3>1 DEF Keeps
    <3> QED
      BY <1>1, <1>5, <2>1, <2>2, <3>2
  <2>3. CASE ~(i <= k)
    <3>1. i - k \in 1..Len(t) /\ i > k /\ i <= n
      BY <1>1, <1>6, <2>3
    <3>2. c[i] = b.cells[i - k]
      BY <2>1, <3>1
    <3> QED
      BY <1>4, <1>5, <2>3, <3>1, <3>2
  <2> QED
    BY <2>2, <2>3
<1> HIDE DEF c
<1>10. Keeps([cells |-> c, length |-> n], u)
  BY <1>1, <1>2, <1>5, <1>8, <1>9 DEF Keeps, Arrays, Size
<1> QED
  BY <1>3, <1>10 DEF u

(* The elements of a sequence from p + 1 to q.                             *)
LEMMA PartIs ==
    ASSUME NEW S, NEW s \in Seq(S), NEW p \in Nat, NEW q \in Nat, p <= q, q <= Len(s)
    PROVE  /\ SubSeq(s, p + 1, q) \in Seq(S) /\ Len(SubSeq(s, p + 1, q)) = q - p
           /\ \A i \in 1..q - p : SubSeq(s, p + 1, q)[i] = s[i + p]
<1>1. \A i \in p + 1..q : s[i] \in S
  OBVIOUS
<1>2. /\ SubSeq(s, p + 1, q) \in Seq(S)
      /\ Len(SubSeq(s, p + 1, q)) = IF p + 1 <= q THEN q - (p + 1) + 1 ELSE 0
      /\ \A i \in 1..q - (p + 1) + 1 : SubSeq(s, p + 1, q)[i] = s[p + 1 + i - 1]
  BY <1>1, SubSeqProperties
<1>3. \A i \in 1..q - p : i \in 1..q - (p + 1) + 1 /\ p + 1 + i - 1 = i + p
  OBVIOUS
<1>4. (IF p + 1 <= q THEN q - (p + 1) + 1 ELSE 0) = q - p
  OBVIOUS
<1> QED
  BY <1>2, <1>3, <1>4

(* array_remove leaves what was before start, and what was behind the      *)
(* elements that are taken out.                                            *)
LEMMA KeepsRemove ==
    ASSUME NEW a, NEW s, Keeps(a, s), NEW start \in Nat, NEW n \in Int, Removable(a, start, n),
           NEW count, count = IF n < 0 THEN Len(s) - start ELSE n
    PROVE  Keeps(ArrayRemove(a, start, n), SubSeq(s, 1, start) \o SubSeq(s, start + count + 1, Len(s)))
<1> DEFINE b == ArrayRemove(a, start, n)
           u == SubSeq(s, 1, start)
           w == SubSeq(s, start + count + 1, Len(s))
           t == u \o w
<1>1. /\ a \in Arrays /\ Room(a) /\ s \in Seq(Cells) /\ Elements(a) = s /\ a.length = Len(s)
      /\ Len(s) \in Nat
  BY KeepsIs
<1>2. /\ b \in Arrays /\ Room(b) /\ b.length = Len(s) - count
      /\ \A i \in 1..b.length : Elements(b)[i] = s[IF i <= start THEN i ELSE i + count]
  BY <1>1, RemoveShifts
<1>3. b.length \in Nat
  BY <1>2 DEF Arrays
<1>4. count \in Nat /\ count <= Len(s)
  <2>1. count \in Int /\ count <= Len(s)
    BY <1>1, <1>2, <1>3
  <2>2. start <= Len(s) /\ (count < 0 => n < 0)
    BY <1>1 DEF Removable
  <2> QED
    BY <1>1, <2>1, <2>2
<1>5. start <= Len(s) /\ start + count <= Len(s)
  BY <1>1 DEF Removable
<1> HIDE DEF b
<1>6. u \in Seq(Cells) /\ Len(u) = start /\ \A i \in 1..start : u[i] = s[i]
  BY <1>1, <1>5
<1>7. /\ w \in Seq(Cells) /\ Len(w) = Len(s) - (start + count)
      /\ \A i \in 1..Len(s) - (start + count) : w[i] = s[i + (start + count)]
  <2> DEFINE p == start + count
  <2>1. p \in Nat /\ p <= Len(s) /\ w = SubSeq(s, p + 1, Len(s))
    BY <1>4, <1>5
  <2>2. s \in Seq(Cells) /\ Len(s) \in Nat
    BY <1>1
  <2> HIDE DEF p, w
  <2>3. w \in Seq(Cells) /\ Len(w) = Len(s) - p /\ \A i \in 1..Len(s) - p : w[i] = s[i + p]
    <3>1. Len(s) <= Len(s)
      BY <2>2
    <3> QED
      BY ONLY <2>1, <2>2, <3>1, PartIs
  <2> QED
    BY <2>3 DEF p
<1> HIDE DEF u, w
<1>8. /\ t \in Seq(Cells) /\ Len(t) = Len(u) + Len(w)
      /\ \A i \in 1..Len(u) + Len(w) : t[i] = IF i <= Len(u) THEN u[i] ELSE w[i - Len(u)]
  <2>1. u \in Seq(Cells) /\ w \in Seq(Cells)
    BY <1>6, <1>7, SMTT(30)
  <2> QED
    BY ONLY <2>1, ConcatProperties DEF t
<1> HIDE DEF t
<1>9. Len(t) = Len(s) - count
  <2>1. start + (Len(s) - (start + count)) = Len(s) - count
    BY <1>1, <1>4
  <2> QED
    BY <1>6, <1>7, <1>8, <2>1, Zenon
<1>10. Elements(b) \in Seq(Cells) /\ Len(Elements(b)) = Len(s) - count
  BY <1>2, ElementsAre
<1>11. \A i \in 1..Len(s) - count : Elements(b)[i] = t[i]
  <2> TAKE i \in 1..Len(s) - count
  <2>1. Elements(b)[i] = s[IF i <= start THEN i ELSE i + count]
    BY <1>2
  <2>2. i \in 1..Len(u) + Len(w)
    BY <1>8, <1>9
  <2>3. CASE i <= start
    <3>1. i \in 1..start
      BY <2>3
    <3> QED
      BY <1>6, <1>8, <2>1, <2>2, <2>3, <3>1
  <2>4. CASE ~(i <= start)
    <3>1. i - start \in 1..Len(s) - (start + count) /\ (i - start) + (start + count) = i + count
      BY <1>1, <1>4, <2>4
    <3>2. t[i] = w[i - start]
      BY <1>6, <1>8, <2>2, <2>4
    <3> QED
      BY <1>7, <2>1, <2>4, <3>1, <3>2
  <2> QED
    BY <2>3, <2>4
<1>12. Elements(b) = t
  BY <1>8, <1>9, <1>10, <1>11, SameSeq
<1> QED
  BY <1>2, <1>8, <1>12, IsKept DEF b, t, u, w

-----------------------------------------------------------------------------
(* A longer beginning of a sequence.                                       *)
LEMMA AppendNext ==
    ASSUME NEW S, NEW s \in Seq(S), NEW i \in 1..Len(s)
    PROVE  Append(SubSeq(s, 1, i - 1), s[i]) = SubSeq(s, 1, i)
<1> DEFINE t == SubSeq(s, 1, i - 1)
           u == SubSeq(s, 1, i)
<1>1. t \in Seq(S) /\ Len(t) = i - 1 /\ \A j \in 1..i - 1 : t[j] = s[j]
  OBVIOUS
<1>2. u \in Seq(S) /\ Len(u) = i /\ \A j \in 1..i : u[j] = s[j]
  OBVIOUS
<1> HIDE DEF t, u
<1>3. /\ Append(t, s[i]) \in Seq(S) /\ Len(Append(t, s[i])) = i
      /\ \A j \in 1..i : Append(t, s[i])[j] = IF j = i THEN s[i] ELSE t[j]
  BY <1>1
<1>4. \A j \in 1..i : Append(t, s[i])[j] = u[j]
  BY <1>1, <1>2, <1>3
<1>5. Append(t, s[i]) = u
  BY <1>2, <1>3, <1>4, SameSeq
<1> QED
  BY <1>5 DEF t, u

(* Appending to the second of two sequences.                               *)
LEMMA AppendBehind ==
    ASSUME NEW s \in Seq(Cells), NEW t \in Seq(Cells), NEW x \in Cells
    PROVE  Append(s \o t, x) = s \o Append(t, x)
<1>1. <<x>> \in Seq(Cells) /\ s \o t \in Seq(Cells)
  OBVIOUS
<1>2. (s \o t) \o <<x>> = s \o (t \o <<x>>)
  BY <1>1, ConcatAssociative
<1>3. \A r \in Seq(Cells) : Append(r, x) = r \o <<x>>
  BY AppendIsConcat
<1> QED
  BY <1>1, <1>2, <1>3

(* A new array has no elements.                                            *)
LEMMA KeepsNone ==
    /\ NewSize(0).length = 0 /\ Keeps(NewSize(0), <<>>)
    /\ NewSize(1).length = 0 /\ Keeps(NewSize(1), <<>>)
<1>1. ASSUME NEW n \in {0, 1} PROVE NewSize(n).length = 0 /\ Keeps(NewSize(n), <<>>)
  <2> DEFINE c == [i \in 1..n |-> Null]
  <2>1. c \in Seq(Cells) /\ Len(c) = n
    BY DEF Cells
  <2> HIDE DEF c
  <2>2. Keeps([cells |-> c, length |-> 0], <<>>)
    BY <2>1 DEF Keeps, Arrays, Size
  <2> QED
    BY <2>2 DEF NewSize, c
<1> QED
  BY <1>1

(* variable_new_list makes a list of the elements that it is given.        *)
LEMMA NewKeeps ==
    ASSUME NEW s \in Seq(Cells)
    PROVE  Keeps(NewList[s], s)
<1> DEFINE n == Len(s)
           turns == [i \in 1..n |-> [a \in Arrays |-> ArraySet(a, a.length, s[i])]]
           P == [i \in 0..n |-> {a \in Arrays : Keeps(a, SubSeq(s, 1, i))}]
           r == NewList[s]
<1>1. n \in Nat /\ DOMAIN s = 1..n
  OBVIOUS
<1>2. r = Loop(turns, NewSize(0))
  <2>1. r = Loop([i \in DOMAIN s |-> [a \in Arrays |-> ArraySet(a, a.length, s[i])]], NewSize(0))
    BY DEF NewList
  <2> QED
    BY <1>1, <2>1
<1>3. turns = [i \in 1..n |-> turns[i]]
  OBVIOUS
<1>4. P \in [0..n -> SUBSET Arrays]
  OBVIOUS
<1>5. NewSize(0) \in P[0]
  <2>1. Keeps(NewSize(0), SubSeq(s, 1, 0)) /\ NewSize(0) \in Arrays
    BY KeepsNone, WholeSeq, KeepsIs
  <2> QED
    BY <1>1, <2>1
<1>6. ASSUME NEW i \in 1..n, NEW a \in P[i - 1] PROVE turns[i][a] \in P[i]
  <2>1. i - 1 \in 0..n /\ i \in 0..n /\ s[i] \in Cells
    BY <1>1
  <2>2. a \in Arrays /\ Keeps(a, SubSeq(s, 1, i - 1))
    BY <2>1
  <2>3. turns[i][a] = ArraySet(a, a.length, s[i])
    BY <2>2
  <2>4. Keeps(ArraySet(a, a.length, s[i]), SubSeq(s, 1, i))
    BY <2>1, <2>2, KeepsEnd, AppendNext
  <2>5. ArraySet(a, a.length, s[i]) \in Arrays
    BY <2>4, KeepsIs
  <2> QED
    BY <2>1, <2>3, <2>4, <2>5
<1> HIDE DEF turns
<1>7. r \in P[n]
  <2> HIDE DEF P, n, r
  <2> QED
    BY <1>1, <1>2, <1>3, <1>4, <1>5, <1>6, LoopKeeps
<1> HIDE DEF r
<1>8. Keeps(r, SubSeq(s, 1, n))
  BY <1>1, <1>7
<1> QED
  BY <1>8, WholeSeq DEF r

(* The loop of binary_op_lst that adds the elements of another list.       *)
LEMMA AddAllKeeps ==
    ASSUME NEW a, NEW s, Keeps(a, s), NEW t \in Seq(Cells)
    PROVE  Keeps(AddAll[a][t], s \o t)
<1> DEFINE n == Len(t)
           turns == [i \in 1..n |-> [b \in Arrays |-> ArrayAdd(b, t[i])]]
           P == [i \in 0..n |-> {b \in Arrays : Keeps(b, s \o SubSeq(t, 1, i))}]
           r == AddAll[a][t]
<1>1. n \in Nat /\ DOMAIN t = 1..n /\ a \in Arrays /\ s \in Seq(Cells)
  BY KeepsIs
<1>2. r = Loop(turns, a)
  <2>1. r = Loop([i \in DOMAIN t |-> [b \in Arrays |-> ArrayAdd(b, t[i])]], a)
    BY <1>1 DEF AddAll
  <2> QED
    BY <1>1, <2>1
<1>3. turns = [i \in 1..n |-> turns[i]]
  OBVIOUS
<1>4. P \in [0..n -> SUBSET Arrays]
  OBVIOUS
<1>5. a \in P[0]
  <2>1. SubSeq(t, 1, 0) = <<>> /\ s \o <<>> = s
    BY <1>1, WholeSeq
  <2>2. Keeps(a, s \o SubSeq(t, 1, 0))
    BY <2>1
  <2>3. 0 \in 0..n
    BY <1>1
  <2> QED
    BY <1>1, <2>2, <2>3
<1>6. ASSUME NEW i \in 1..n, NEW b \in P[i - 1] PROVE turns[i][b] \in P[i]
  <2>1. i - 1 \in 0..n /\ i \in 0..n /\ t[i] \in Cells
    BY <1>1
  <2>2. b \in Arrays /\ Keeps(b, s \o SubSeq(t, 1, i - 1))
    BY <2>1
  <2>3. turns[i][b] = ArrayAdd(b, t[i])
    BY <2>2
  <2>4. Append(s \o SubSeq(t, 1, i - 1), t[i]) = s \o SubSeq(t, 1, i)
    <3> DEFINE u == SubSeq(t, 1, i - 1)
    <3>1. u \in Seq(Cells)
      BY <2>1
    <3>2. Append(u, t[i]) = SubSeq(t, 1, i)
      BY AppendNext
    <3> HIDE DEF u
    <3>3. Append(s \o u, t[i]) = s \o Append(u, t[i])
      <4>1. s \in Seq(Cells) /\ t[i] \in Cells
        BY <1>1, <2>1
      <4> QED
        BY <3>1, <4>1, AppendBehind
    <3> QED
      BY <3>2, <3>3 DEF u
  <2>5. Keeps(ArrayAdd(b, t[i]), s \o SubSeq(t, 1, i))
    BY <2>1, <2>2, <2>4, KeepsAdd
  <2>6. ArrayAdd(b, t[i]) \in Arrays
    BY <2>5, KeepsIs
  <2> QED
    BY <2>1, <2>3, <2>5, <2>6
<1> HIDE DEF turns
<1>7. r \in P[n]
  <2> HIDE DEF P, n, r
  <2> QED
    BY <1>1, <1>2, <1>3, <1>4, <1>5, <1>6, LoopKeeps
<1> HIDE DEF r
<1>8. Keeps(r, s \o SubSeq(t, 1, n))
  BY <1>1, <1>7
<1> QED
  BY <1>8, WholeSeq DEF r

(* array_part: the elements from start on, n of them.                      *)
LEMMA KeepsPart ==
    ASSUME NEW a, NEW s, Keeps(a, s), NEW start \in Nat, NEW n \in Nat, start + n <= Len(s)
    PROVE  Keeps(ArrayPart(a, start, n), SubSeq(s, start + 1, start + n))
<1> DEFINE p == start + n
           front == ArrayRemove(ArrayCopy(a), p, a.length - start - n)
           part == ArrayRemove(front, 0, start)
           u == SubSeq(s, 1, p)
           w == SubSeq(s, start + 1, p)
<1>1. s \in Seq(Cells) /\ a.length = Len(s) /\ Len(s) \in Nat /\ p \in Nat /\ p <= Len(s)
  BY KeepsIs
<1>2. Keeps(ArrayCopy(a), s) /\ ArrayCopy(a).length = Len(s)
  BY KeepsCopy, KeepsIs
<1>3. Keeps(front, u)
  <2> DEFINE c == Len(s) - p
  <2>1. a.length - start - n = c /\ c \in Nat /\ p + c + 1 = Len(s) + 1
    BY <1>1
  <2> HIDE DEF p
  <2>2. Removable(ArrayCopy(a), p, c)
    BY <1>1, <1>2, <2>1 DEF Removable
  <2>3. c = IF c < 0 THEN Len(s) - p ELSE c
    OBVIOUS
  <2> HIDE DEF c
  <2>4. Keeps(ArrayRemove(ArrayCopy(a), p, c), SubSeq(s, 1, p) \o SubSeq(s, p + c + 1, Len(s)))
    BY <1>1, <1>2, <2>1, <2>2, <2>3, KeepsRemove
  <2>5. SubSeq(s, 1, p) \o SubSeq(s, p + c + 1, Len(s)) = SubSeq(s, 1, p)
    <3>1. SubSeq(s, 1, p) \in Seq(Cells)
      BY <1>1
    <3>2. SubSeq(s, p + c + 1, Len(s)) = <<>>
      BY <1>1, <2>1, WholeSeq
    <3> QED
      BY <3>1, <3>2, WholeSeq
  <2> QED
    BY <2>1, <2>4, <2>5
<1>4. u \in Seq(Cells) /\ Len(u) = p /\ \A i \in 1..p : u[i] = s[i]
  BY <1>1
<1> HIDE DEF front, u
<1>5. Keeps(part, SubSeq(u, start + 1, p))
  <2>1. front.length = p
    BY <1>3, <1>4, KeepsIs
  <2>2. Removable(front, 0, start)
    BY <2>1 DEF Removable
  <2>3. Keeps(ArrayRemove(front, 0, start), SubSeq(u, 1, 0) \o SubSeq(u, 0 + start + 1, Len(u)))
    <3>1. 0 <= Len(u) /\ start = IF start < 0 THEN Len(u) - 0 ELSE start
      BY <1>1, <1>4
    <3> QED
      BY <1>3, <2>2, <3>1, KeepsRemove
  <2>4. SubSeq(u, 1, 0) = <<>> /\ 0 + start + 1 = start + 1
    BY <1>4, WholeSeq
  <2>5. SubSeq(u, start + 1, p) \in Seq(Cells)
    BY <1>1, <1>4, PartIs
  <2>6. <<>> \o SubSeq(u, start + 1, p) = SubSeq(u, start + 1, p)
    BY <2>5, WholeSeq
  <2> QED
    BY <1>4, <2>3, <2>4, <2>6
<1>6. SubSeq(u, start + 1, p) = w
  <2>1. start <= p
    OBVIOUS
  <2> HIDE DEF p
  <2>2. /\ w \in Seq(Cells) /\ Len(w) = p - start
        /\ \A i \in 1..p - start : w[i] = s[i + start]
    BY <1>1, <2>1, PartIs
  <2> DEFINE z == SubSeq(u, start + 1, p)
  <2>3. z \in Seq(Cells) /\ Len(z) = p - start /\ \A i \in 1..p - start : z[i] = u[i + start]
    <3>1. u \in Seq(Cells) /\ start \in Nat /\ p \in Nat /\ p <= Len(u)
      BY <1>1, <1>4
    <3> QED
      BY ONLY <2>1, <3>1, PartIs DEF z
  <2> HIDE DEF w, z
  <2>4. \A i \in 1..p - start : i + start \in 1..p
    BY <1>1, <2>1
  <2>5. \A i \in 1..p - start : z[i] = w[i]
    BY <1>4, <2>2, <2>3, <2>4
  <2>6. z = w
    BY <2>2, <2>3, <2>5, SameSeq
  <2> QED
    BY <2>6 DEF z
<1> HIDE DEF part, w
<1>7. Keeps(part, w)
  BY <1>5, <1>6
<1>8. Keeps(Resize(part, part.length), w)
  BY <1>7, KeepsIs, KeepsResize
<1>9. ArrayPart(a, start, n) = Resize(part, part.length)
  BY DEF ArrayPart, part, front, p
<1> QED
  BY <1>8, <1>9 DEF w, p

-----------------------------------------------------------------------------
(* The sort.                                                               *)

(* r has the elements of s, in another order: element i is s[p[i]].        *)
Moves(s) == {p \in [1..Len(s) -> 1..Len(s)] :
               /\ \A i, j \in 1..Len(s) : p[i] = p[j] => i = j
               /\ \A j \in 1..Len(s) : \E i \in 1..Len(s) : p[i] = j}
Shuffled(s, r) == /\ r \in Seq(Int) /\ Len(r) = Len(s)
                  /\ \E p \in Moves(s) : \A i \in 1..Len(s) : r[i] = s[p[i]]

(* An order of s is s itself.                                              *)
LEMMA ShuffledSame ==
    ASSUME NEW s \in Seq(Int)
    PROVE  Shuffled(s, s)
<1> DEFINE p == [i \in 1..Len(s) |-> i]
<1>1. p \in Moves(s) /\ \A i \in 1..Len(s) : s[i] = s[p[i]]
  BY DEF Moves
<1> QED
  BY <1>1 DEF Shuffled

(* An order of an order.                                                   *)
LEMMA ShuffledTwice ==
    ASSUME NEW s \in Seq(Int), NEW r, NEW t, Shuffled(s, r), Shuffled(r, t)
    PROVE  Shuffled(s, t) /\ t \in Seq(Int) /\ Len(t) = Len(s)
<1>1. PICK p \in Moves(s) : \A i \in 1..Len(s) : r[i] = s[p[i]]
  BY DEF Shuffled
<1>2. PICK q \in Moves(r) : \A i \in 1..Len(r) : t[i] = r[q[i]]
  BY DEF Shuffled
<1>3. Len(r) = Len(s) /\ Len(t) = Len(s) /\ t \in Seq(Int)
  BY DEF Shuffled
<1> DEFINE n == Len(s)
           c == [i \in 1..n |-> p[q[i]]]
<1> HIDE DEF n
<1>4. /\ p \in [1..n -> 1..n] /\ \A i, j \in 1..n : p[i] = p[j] => i = j
      /\ \A j \in 1..n : \E i \in 1..n : p[i] = j
  BY DEF Moves, n
<1>5. /\ q \in [1..n -> 1..n] /\ \A i, j \in 1..n : q[i] = q[j] => i = j
      /\ \A j \in 1..n : \E i \in 1..n : q[i] = j
  BY <1>3 DEF Moves, n
<1>6. c \in [1..n -> 1..n] /\ \A i, j \in 1..n : c[i] = c[j] => i = j
  BY <1>4, <1>5
<1>7. \A j \in 1..n : \E i \in 1..n : c[i] = j
  <2> TAKE j \in 1..n
  <2>1. PICK h \in 1..n : p[h] = j
    BY <1>4
  <2>2. PICK i \in 1..n : q[i] = h
    BY <1>5
  <2> QED
    BY <2>1, <2>2
<1>8. c \in Moves(s)
  BY <1>6, <1>7 DEF Moves, n
<1>9. \A i \in 1..n : t[i] = s[c[i]]
  BY <1>1, <1>2, <1>3, <1>4, <1>5 DEF n
<1> HIDE DEF c
<1> QED
  BY <1>3, <1>8, <1>9 DEF Shuffled, n

(* Two elements change places.                                             *)
LEMMA ShuffledSwap ==
    ASSUME NEW s \in Seq(Int), NEW i \in 1..Len(s), NEW j \in 1..Len(s),
           NEW r \in Seq(Int), Len(r) = Len(s), r[i] = s[j], r[j] = s[i],
           \A h \in 1..Len(s) : h # i /\ h # j => r[h] = s[h]
    PROVE  Shuffled(s, r)
<1> DEFINE n == Len(s)
           p == [h \in 1..n |-> IF h = i THEN j ELSE IF h = j THEN i ELSE h]
<1>1. \A h \in 1..n : r[h] = s[p[h]]
  OBVIOUS
<1>2. p \in [1..n -> 1..n] /\ \A h \in 1..n : p[p[h]] = h
  OBVIOUS
<1> HIDE DEF p
<1>3. p \in Moves(s)
  <2>1. \A h, k \in 1..n : p[h] = p[k] => h = k
    BY <1>2
  <2>2. \A k \in 1..n : p[k] \in 1..n /\ p[p[k]] = k
    BY <1>2
  <2> QED
    BY <1>2, <2>1, <2>2 DEF Moves
<1> QED
  BY <1>1, <1>3 DEF Shuffled

(* Where x is, and that it is in as many places.                           *)
Places(s, x) == {i \in DOMAIN s : s[i] = x}

(* Each element is there as often.                                         *)
LEMMA ShuffledTimes ==
    ASSUME NEW s \in Seq(Int), NEW r, Shuffled(s, r), NEW x
    PROVE  Cardinality(Places(r, x)) = Cardinality(Places(s, x))
<1>1. PICK p \in Moves(s) : \A i \in 1..Len(s) : r[i] = s[p[i]]
  BY DEF Shuffled
<1>2. DOMAIN s = 1..Len(s) /\ DOMAIN r = 1..Len(s) /\ Len(s) \in Nat
  BY DEF Shuffled
<1> DEFINE n == Len(s)
           S == {i \in 1..n : s[i] = x}
           R == {i \in 1..n : r[i] = x}
           f == [i \in R |-> p[i]]
<1> HIDE DEF n
<1>3. /\ p \in [1..n -> 1..n] /\ \A i, j \in 1..n : p[i] = p[j] => i = j
      /\ \A j \in 1..n : \E i \in 1..n : p[i] = j
  BY DEF Moves, n
<1>4. f \in [R -> S] /\ \A i, j \in R : f[i] = f[j] => i = j
  BY <1>1, <1>3 DEF n
<1>5. \A j \in S : \E i \in R : f[i] = j
  <2> TAKE j \in S
  <2>1. PICK i \in 1..n : p[i] = j
    BY <1>3
  <2> QED
    BY <1>1, <2>1 DEF n
<1>6. f \in Bijection(R, S)
  <2> HIDE DEF f, R, S
  <2> QED
    BY <1>4, <1>5 DEF Bijection, Injection, Surjection, IsInjective
<1>7. IsFiniteSet(R) /\ IsFiniteSet(S)
  <2>1. IsFiniteSet(1..n) /\ R \subseteq 1..n /\ S \subseteq 1..n
    BY <1>2, FS_Interval DEF n
  <2> QED
    BY <2>1, FS_Subset
<1>8. Cardinality(R) = Cardinality(S)
  <2> HIDE DEF f, R, S
  <2>1. ExistsBijection(R, S)
    BY <1>6 DEF ExistsBijection
  <2> QED
    BY <1>7, <2>1, FS_Bijection
<1>9. Places(s, x) = S /\ Places(r, x) = R
  BY <1>2 DEF Places, n
<1> QED
  BY <1>8, <1>9

-----------------------------------------------------------------------------
(* The cells of a heap that t is pushed down in, with t in its place.      *)
Filled(heap, t) == [heap.cells EXCEPT ![heap.index + 1] = t]

(* Its elements.                                                           *)
LEMMA FilledIs ==
    ASSUME NEW heap \in Heaps, heap.index < Len(heap.cells), NEW t \in Int
    PROVE  /\ Filled(heap, t) \in Seq(Int) /\ Len(Filled(heap, t)) = Len(heap.cells)
           /\ heap.index + 1 \in 1..Len(heap.cells) /\ heap.index \in Nat
           /\ \A j \in 1..Len(heap.cells) :
                 Filled(heap, t)[j] = IF j = heap.index + 1 THEN t ELSE heap.cells[j]
<1>1. heap.cells \in Seq(Int) /\ heap.index \in Nat /\ Len(heap.cells) \in Nat
  BY DEF Heaps
<1>2. heap.index + 1 \in 1..Len(heap.cells)
  BY <1>1
<1> QED
  BY <1>1, <1>2 DEF Filled

(* The larger child of i, of n cells.                                      *)
Child(s, i, n) == IF i * 2 + 2 < n /\ Compar(s[i * 2 + 3], s[i * 2 + 2]) > 0 THEN i * 2 + 2 ELSE i * 2 + 1
Sinks(heap, t, n) == /\ heap.index * 2 + 1 < n
                     /\ Compar(heap.cells[Child(heap.cells, heap.index, n) + 1], t) > 0

(* A turn of the loop, which does something or nothing.                    *)
LEMMA SinkIs ==
    ASSUME NEW heap \in Heaps, NEW t, NEW n
    PROVE  LET child == Child(heap.cells, heap.index, n)
           IN  Sink(heap, t, n) =
                 IF Sinks(heap, t, n)
                 THEN [cells |-> [heap.cells EXCEPT ![heap.index + 1] = heap.cells[child + 1]],
                       index |-> child]
                 ELSE heap
<1> DEFINE i == heap.index
<1>1. i \in Nat
  BY DEF Heaps
<1>2. i * 2 + 1 + 1 = i * 2 + 2 /\ i * 2 + 1 + 2 = i * 2 + 3
  BY <1>1
<1> QED
  BY <1>2 DEF Sink, Sinks, Child

(* What a turn changes, t being in its place: it changes places with its   *)
(* larger child.                                                           *)
Swapped(heap, k, t, n) ==
    LET u == Filled(heap, t)
        w == Filled(k, t)
        i == heap.index
        c == k.index
    IN  /\ i \in Nat /\ c \in Nat /\ c < n /\ i < c /\ c \in {i * 2 + 1, i * 2 + 2}
        /\ k \in Heaps /\ Len(k.cells) = Len(heap.cells)
        /\ u \in Seq(Int) /\ w \in Seq(Int) /\ Len(u) = Len(heap.cells) /\ Len(w) = Len(heap.cells)
        /\ w[i + 1] = u[c + 1] /\ w[c + 1] = u[i + 1] /\ u[i + 1] = t
        /\ \A j \in 1..Len(heap.cells) : j # i + 1 /\ j # c + 1 => w[j] = u[j]

(* A turn that does something.                                             *)
LEMMA SinkSwaps ==
    ASSUME NEW n \in Nat, NEW heap \in Heaps, heap.index < n, n <= Len(heap.cells), NEW t \in Int,
           Sinks(heap, t, n)
    PROVE  /\ Swapped(heap, Sink(heap, t, n), t, n)
           /\ Sink(heap, t, n).index = Child(heap.cells, heap.index, n)
<1> DEFINE c == Child(heap.cells, heap.index, n)
<1> DEFINE i == heap.index
           s == heap.cells
           u == Filled(heap, t)
           k == Sink(heap, t, n)
           w == Filled(k, t)
<1>1. i \in Nat /\ s \in Seq(Int) /\ Len(s) \in Nat /\ i + 1 \in 1..Len(s) /\ i < Len(s) /\ i < n
  BY DEF Heaps
<1>2. c \in Nat /\ c < n /\ i < c /\ c \in {i * 2 + 1, i * 2 + 2}
  <2>1. i * 2 + 1 < n
    BY DEF Sinks
  <2>2. (c = i * 2 + 2 /\ i * 2 + 2 < n) \/ c = i * 2 + 1
    BY DEF Child
  <2> HIDE DEF c, i
  <2> QED
    BY <1>1, <2>1, <2>2
<1>3. c + 1 \in 1..Len(s) /\ c + 1 # i + 1 /\ c < Len(s)
  BY <1>1, <1>2, SMTT(30)
<1>4. k = [cells |-> [s EXCEPT ![i + 1] = s[c + 1]], index |-> c]
  BY SinkIs
<1> HIDE DEF i, s, c
<1>5. [s EXCEPT ![i + 1] = s[c + 1]] \in Seq(Int) /\ Len([s EXCEPT ![i + 1] = s[c + 1]]) = Len(s)
  BY <1>1, <1>3
<1>6. k \in Heaps /\ k.index = c /\ Len(k.cells) = Len(s)
      /\ \A j \in 1..Len(s) : k.cells[j] = IF j = i + 1 THEN s[c + 1] ELSE s[j]
  <2>1. k.index = c /\ k.cells = [s EXCEPT ![i + 1] = s[c + 1]]
    BY <1>4
  <2>2. k \in Heaps
    BY <1>2, <1>4, <1>5 DEF Heaps
  <2>3. \A j \in 1..Len(s) : [s EXCEPT ![i + 1] = s[c + 1]][j] = IF j = i + 1 THEN s[c + 1] ELSE s[j]
    BY <1>1
  <2> QED
    BY <1>5, <2>1, <2>2, <2>3
<1> HIDE DEF k
<1>7. u \in Seq(Int) /\ Len(u) = Len(s) /\ \A j \in 1..Len(s) : u[j] = IF j = i + 1 THEN t ELSE s[j]
  BY <1>1, FilledIs DEF i, s
<1>8. w \in Seq(Int) /\ Len(w) = Len(s) /\ \A j \in 1..Len(s) : w[j] = IF j = c + 1 THEN t ELSE k.cells[j]
  <2>1. k \in Heaps /\ k.index < Len(k.cells) /\ t \in Int
    BY <1>3, <1>6
  <2>2. /\ w \in Seq(Int) /\ Len(w) = Len(k.cells)
        /\ \A j \in 1..Len(k.cells) : w[j] = IF j = k.index + 1 THEN t ELSE k.cells[j]
    BY <2>1, FilledIs
  <2> QED
    BY <1>6, <2>2
<1> HIDE DEF u, w
<1>9. /\ w[i + 1] = u[c + 1] /\ w[c + 1] = u[i + 1] /\ u[i + 1] = t
      /\ \A j \in 1..Len(s) : j # i + 1 /\ j # c + 1 => w[j] = u[j]
  <2>1. w[i + 1] = k.cells[i + 1] /\ k.cells[i + 1] = s[c + 1]
    BY <1>1, <1>3, <1>6, <1>8
  <2>2. w[c + 1] = t /\ u[i + 1] = t /\ u[c + 1] = s[c + 1]
    BY <1>1, <1>3, <1>7, <1>8
  <2>3. ASSUME NEW j \in 1..Len(s), j # i + 1, j # c + 1 PROVE w[j] = u[j]
    <3>1. w[j] = k.cells[j]
      BY <1>8, <2>3
    <3>2. k.cells[j] = s[j]
      BY <1>6, <2>3
    <3>3. u[j] = s[j]
      BY <1>7, <2>3
    <3> QED
      BY <3>1, <3>2, <3>3
  <2> QED
    BY <2>1, <2>2, <2>3
<1> QED
  BY <1>1, <1>2, <1>6, <1>7, <1>8, <1>9 DEF Swapped, u, w, k, i, s, c

-----------------------------------------------------------------------------
(* What t being pushed down from parent has made of s, where t was put.    *)
Sifting(heap, s, t, n) ==
    /\ heap \in Heaps /\ heap.index < n /\ Len(heap.cells) = Len(s)
    /\ Shuffled(s, Filled(heap, t))
    /\ \A j \in 1..n : \E k \in 1..n : Filled(heap, t)[j] = s[k]
    /\ \A j \in n + 1..Len(s) : Filled(heap, t)[j] = s[j]

(* A turn moves elements among the first n.                                *)
LEMMA SinkSifts ==
    ASSUME NEW s \in Seq(Int), NEW t \in Int, NEW n \in Nat, n <= Len(s),
           NEW heap, Sifting(heap, s, t, n)
    PROVE  Sifting(Sink(heap, t, n), s, t, n)
<1>1. heap \in Heaps /\ heap.index < n /\ Len(heap.cells) = Len(s) /\ heap.index \in Nat /\ Len(s) \in Nat
  BY DEF Sifting, Heaps
<1>2. CASE Sinks(heap, t, n)
  <2> DEFINE k == Sink(heap, t, n)
             i == heap.index
             c == k.index
             u == Filled(heap, t)
             w == Filled(k, t)
  <2>0. Swapped(heap, k, t, n)
    BY <1>1, <1>2, SinkSwaps
  <2>1. /\ c \in Nat /\ c < n /\ i \in Nat /\ k \in Heaps /\ k.index = c /\ Len(k.cells) = Len(s)
        /\ u \in Seq(Int) /\ w \in Seq(Int) /\ Len(u) = Len(s) /\ Len(w) = Len(s)
        /\ w[i + 1] = u[c + 1] /\ w[c + 1] = u[i + 1]
        /\ \A j \in 1..Len(s) : j # i + 1 /\ j # c + 1 => w[j] = u[j]
    <3> HIDE DEF k
    <3> QED
      BY <1>1, <2>0 DEF Swapped
  <2>2. /\ Shuffled(s, u) /\ \A j \in 1..n : \E h \in 1..n : u[j] = s[h]
        /\ \A j \in n + 1..Len(s) : u[j] = s[j]
    BY DEF Sifting
  <2> HIDE DEF c, i, k, u, w
  <2>3. i < n
    BY <1>1 DEF i
  <2>31. i + 1 \in 1..n /\ c + 1 \in 1..n /\ i + 1 \in 1..Len(s) /\ c + 1 \in 1..Len(s)
    <3>1. n <= Len(s) /\ n \in Nat /\ Len(s) \in Nat /\ i \in Nat /\ c \in Nat /\ i < n /\ c < n
      BY <1>1, <2>1, <2>3
    <3>2. \A l \in Nat : n <= l => i + 1 <= l /\ c + 1 <= l /\ i + 1 <= n /\ c + 1 <= n
      BY ONLY <3>1
    <3> QED
      BY <3>1, <3>2
  <2>4. Shuffled(u, w)
    <3>1. /\ i + 1 \in 1..Len(u) /\ c + 1 \in 1..Len(u) /\ Len(w) = Len(u)
          /\ \A j \in 1..Len(u) : j # i + 1 /\ j # c + 1 => w[j] = u[j]
      BY <2>1, <2>31
    <3> QED
      BY <2>1, <3>1, ShuffledSwap
  <2>5. Shuffled(s, w)
    BY <2>2, <2>4, ShuffledTwice
  <2>6. \A j \in 1..n : \E h \in 1..n : w[j] = s[h]
    <3> TAKE j \in 1..n
    <3>1. \E g \in 1..n : w[j] = u[g]
      <4>1. j \in 1..Len(s)
        BY <1>1
      <4> QED
        BY <2>1, <2>31, <4>1
    <3> QED
      BY <2>2, <3>1
  <2>7. \A j \in n + 1..Len(s) : w[j] = s[j]
    <3> TAKE j \in n + 1..Len(s)
    <3>1. j \in 1..Len(s) /\ j # i + 1 /\ j # c + 1
      BY <1>1, <2>31
    <3> QED
      BY <2>1, <2>2, <3>1
  <2> QED
    BY <2>1, <2>5, <2>6, <2>7 DEF Sifting, k, w
<1>3. CASE ~Sinks(heap, t, n)
  <2>1. Sink(heap, t, n) = heap
    BY <1>1, <1>3, SinkIs
  <2> QED
    BY <2>1
<1> QED
  BY <1>2, <1>3

(* Where t is put, to be pushed down.                                      *)
First(s, parent) == [cells |-> s, index |-> parent]
Puts(u, s, parent, t) == /\ u \in Seq(Int) /\ Len(u) = Len(s)
                         /\ \A j \in 1..Len(s) : u[j] = IF j = parent + 1 THEN t ELSE s[j]

(* Before the first turn.                                                  *)
LEMMA SiftBegins ==
    ASSUME NEW s \in Seq(Int), NEW t \in Int, NEW n \in Nat, n <= Len(s), NEW parent \in Nat, parent < n
    PROVE  /\ Puts(Filled(First(s, parent), t), s, parent, t)
           /\ Sifting(First(s, parent), Filled(First(s, parent), t), t, n)
<1> DEFINE first == First(s, parent)
<1>1. first \in Heaps /\ first.index = parent /\ first.cells = s /\ Len(s) \in Nat
  BY DEF Heaps, First
<1> HIDE DEF first
<1>2. /\ Filled(first, t) \in Seq(Int) /\ Len(Filled(first, t)) = Len(s)
      /\ \A j \in 1..Len(s) : Filled(first, t)[j] = IF j = parent + 1 THEN t ELSE s[j]
  <2>1. first.index < Len(first.cells)
    BY <1>1
  <2> QED
    BY <1>1, <2>1, FilledIs
<1> DEFINE u == Filled(first, t)
<1>3. Shuffled(u, u)
  BY <1>2, ShuffledSame
<1>4. Sifting(first, u, t, n)
  <2> HIDE DEF u
  <2> QED
    BY <1>1, <1>2, <1>3 DEF Sifting, u
<1> QED
  BY <1>2, <1>4 DEF Puts, first

(* The element that is being pushed down, and its loop.                    *)
Turns(t, n) == [i \in 1..n |-> [h \in Heaps |-> Sink(h, t, n)]]

(* The loop, and t put where it ends.                                      *)
LEMMA SiftDownIs ==
    ASSUME NEW s, NEW t, NEW parent, NEW n
    PROVE  SiftDown(s, t, parent, n) = Filled(Loop(Turns(t, n), First(s, parent)), t)
  BY DEF SiftDown, Filled, First, Turns

(* One turn of it.                                                         *)
LEMMA TurnIs ==
    ASSUME NEW n \in Nat, NEW i \in 1..n, NEW heap \in Heaps, NEW t
    PROVE  Turns(t, n)[i][heap] = Sink(heap, t, n)
  BY DEF Turns

(* Whatever compar says: the elements are those that there were, among the *)
(* first n, and the others are left alone.                                 *)
Sifted(u, r, n) == /\ Shuffled(u, r)
                   /\ \A j \in 1..n : \E k \in 1..n : r[j] = u[k]
                   /\ \A j \in n + 1..Len(u) : r[j] = u[j]

(* What the loop leaves.                                                   *)
LEMMA SiftMoves ==
    ASSUME NEW s \in Seq(Int), NEW t \in Int, NEW n \in Nat, n <= Len(s), NEW parent \in Nat, parent < n
    PROVE  Sifted(Filled(First(s, parent), t), SiftDown(s, t, parent, n), n)
<1> DEFINE u == Filled(First(s, parent), t)
           turns == Turns(t, n)
           P == [i \in 0..n |-> {heap \in Heaps : Sifting(heap, u, t, n)}]
           last == Loop(turns, First(s, parent))
<1>1. u \in Seq(Int) /\ Len(u) = Len(s) /\ Sifting(First(s, parent), u, t, n)
  BY SiftBegins DEF Puts
<1> HIDE DEF u
<1>2. turns = [i \in 1..n |-> turns[i]]
  BY DEF Turns
<1>3. P \in [0..n -> SUBSET Heaps] /\ \A i \in 0..n : P[i] = {heap \in Heaps : Sifting(heap, u, t, n)}
  OBVIOUS
<1>4. First(s, parent) \in P[0]
  BY <1>1, <1>3 DEF Sifting
<1>5. ASSUME NEW i \in 1..n, NEW heap \in P[i - 1] PROVE turns[i][heap] \in P[i]
  <2>1. i - 1 \in 0..n /\ i \in 0..n
    OBVIOUS
  <2>2. heap \in Heaps /\ Sifting(heap, u, t, n)
    BY <1>3, <2>1
  <2>3. Sifting(Sink(heap, t, n), u, t, n)
    BY <1>1, <2>2, SinkSifts
  <2>4. turns[i][heap] = Sink(heap, t, n)
    BY <2>2, TurnIs
  <2> QED
    BY <1>3, <2>1, <2>3, <2>4 DEF Sifting
<1> HIDE DEF turns, P
<1>6. last \in P[n]
  BY <1>2, <1>3, <1>4, <1>5, LoopKeeps
<1>7. Sifting(last, u, t, n)
  BY <1>3, <1>6
<1>8. SiftDown(s, t, parent, n) = Filled(last, t)
  BY SiftDownIs DEF turns
<1> QED
  BY <1>1, <1>7, <1>8 DEF Sifted, Sifting, u

-----------------------------------------------------------------------------
(* Values of which no two are so far apart that an int32_t cannot hold     *)
(* their difference: compar orders them.                                   *)
Narrow(V) == V \subseteq Int /\ \A x, y \in V : x - y \in -Half..Half - 1

(* compar compares them.                                                   *)
LEMMA ComparOrders ==
    ASSUME NEW V, Narrow(V), NEW x \in V, NEW y \in V
    PROVE  Compar(x, y) > 0 <=> x > y
<1> DEFINE z == x - y + Half
<1>1. Half \in Nat /\ Half > 0 /\ x \in Int /\ y \in Int /\ x - y \in -Half..Half - 1
  BY ListsAssumption DEF Narrow
<1>2. z \in Nat /\ z < 2 * Half /\ 2 * Half \in Nat
  BY <1>1
<1>3. z % (2 * Half) = z
  <2> DEFINE m == 2 * Half
  <2>1. z \in Nat /\ m \in Nat /\ z < m
    BY <1>2
  <2> HIDE DEF z, m
  <2>2. z % m = z
    BY <2>1
  <2> QED
    BY <2>2 DEF m
<1>4. Compar(x, y) = z - Half
  BY <1>3 DEF Compar
<1> QED
  BY <1>1, <1>4

-----------------------------------------------------------------------------
(* Position p of the array has its children in a heap at those of Kids(p). *)
Kids(p) == {2 * p + 1, 2 * p + 2}

(* No parent of the first n cells of u, from position from on, is less     *)
(* than a child of its.                                                    *)
Above(u, p, c) == u[c + 1] <= u[p + 1]
Heap(u, from, n) == \A p \in Nat : from <= p => \A c \in Kids(p) : c < n => Above(u, p, c)

(* The same but for position h, whose children are no more than its        *)
(* parent: what is pushed down is there.                                   *)
Partly(u, h, from, n) ==
    /\ \A p \in Nat : from <= p /\ p # h => \A c \in Kids(p) : c < n => Above(u, p, c)
    /\ \A p \in Nat : from <= p /\ h \in Kids(p) => \A c \in Kids(h) : c < n => Above(u, p, c)

(* The cells that compar is given hold values that it orders.              *)
Ordered(u, V, n) == \A j \in 1..n : u[j] \in V

(* The child that is chosen is the largest, and t sinks when it is larger  *)
(* than t.                                                                 *)
LEMMA ChildLargest ==
    ASSUME NEW V, Narrow(V), NEW n \in Nat, NEW t \in Int, NEW heap \in Heaps,
           heap.index < n, n <= Len(heap.cells),
           NEW u, u = Filled(heap, t), Ordered(u, V, n),
           NEW i, i = heap.index, NEW c, c = Child(heap.cells, i, n), i * 2 + 1 < n
    PROVE  /\ c \in Kids(i) /\ c < n
           /\ \A d \in Kids(i) : d < n => u[d + 1] <= u[c + 1]
           /\ Sinks(heap, t, n) <=> u[c + 1] > u[i + 1]
<1> DEFINE s == heap.cells
<1>1. i \in Nat /\ s \in Seq(Int) /\ Len(s) \in Nat /\ i < n /\ V \subseteq Int /\ n <= Len(s)
  BY DEF Heaps, Narrow
<1>2. /\ u[i + 1] = t /\ \A j \in 1..n : j # i + 1 => u[j] = s[j]
  <2>1. i + 1 \in 1..Len(s) /\ \A j \in 1..n : j \in 1..Len(s)
    BY <1>1, SMTT(30)
  <2>2. \A j \in 1..Len(s) : u[j] = IF j = i + 1 THEN t ELSE s[j]
    <3>1. heap.index < Len(heap.cells)
      BY <1>1
    <3> QED
      BY <3>1, FilledIs
  <2> QED
    BY <2>1, <2>2
<1>3. t \in V
  <2>1. i + 1 \in 1..n
    BY <1>1
  <2> QED
    BY <1>2, <2>1 DEF Ordered
<1> HIDE DEF s
<1>4. u[i * 2 + 2] = s[i * 2 + 2] /\ u[i * 2 + 2] \in V
  <2>1. i * 2 + 2 \in 1..n /\ i * 2 + 2 # i + 1
    <3>1. i \in Nat /\ n \in Nat /\ i * 2 + 1 < n
      BY <1>1
    <3> QED
      BY ONLY <3>1
  <2> QED
    BY <1>2, <2>1 DEF Ordered
<1>5. CASE i * 2 + 2 < n
  <2>1. u[i * 2 + 3] = s[i * 2 + 3] /\ u[i * 2 + 3] \in V
    <3>1. i * 2 + 3 \in 1..n /\ i * 2 + 3 # i + 1
      <4>1. i \in Nat /\ n \in Nat /\ i * 2 + 2 < n
        BY <1>1, <1>5
      <4> QED
        BY ONLY <4>1
    <3> QED
      BY <1>2, <3>1 DEF Ordered
  <2> DEFINE x == u[i * 2 + 2]
             y == u[i * 2 + 3]
  <2>2. x \in Int /\ y \in Int /\ x \in V /\ y \in V
    BY <1>1, <1>4, <2>1
  <2>3. Compar(y, x) > 0 <=> y > x
    BY <2>2, ComparOrders
  <2>4. c = IF Compar(y, x) > 0 THEN i * 2 + 2 ELSE i * 2 + 1
    BY <1>4, <1>5, <2>1 DEF Child, s
  <2>41. (i * 2 + 1) + 1 = i * 2 + 2 /\ (i * 2 + 2) + 1 = i * 2 + 3 /\ Kids(i) = {i * 2 + 1, i * 2 + 2}
    BY <1>1, SMTT(30) DEF Kids
  <2>5. CASE y > x
    <3>1. c = i * 2 + 2 /\ u[c + 1] = y /\ u[c + 1] \in V /\ u[c + 1] = s[c + 1]
      BY <2>1, <2>3, <2>4, <2>5, <2>41
    <3>2. Compar(u[c + 1], t) > 0 <=> u[c + 1] > t
      BY <1>3, <3>1, ComparOrders
    <3>3. Sinks(heap, t, n) <=> u[c + 1] > u[i + 1]
      BY <1>2, <3>1, <3>2 DEF Sinks, s
    <3>4. \A d \in Kids(i) : u[d + 1] <= u[c + 1]
      <4> HIDE DEF x, y
      <4>1. ASSUME NEW d \in Kids(i) PROVE u[d + 1] = x \/ u[d + 1] = y
        BY <2>41 DEF x, y
      <4> QED
        BY <2>2, <2>5, <3>1, <4>1
    <3> QED
      BY <1>5, <2>41, <3>1, <3>3, <3>4
  <2>6. CASE ~(y > x)
    <3>1. c = i * 2 + 1 /\ u[c + 1] = x /\ u[c + 1] \in V /\ u[c + 1] = s[c + 1]
      BY <1>4, <2>3, <2>4, <2>6, <2>41
    <3>2. Compar(u[c + 1], t) > 0 <=> u[c + 1] > t
      BY <1>3, <3>1, ComparOrders
    <3>3. Sinks(heap, t, n) <=> u[c + 1] > u[i + 1]
      BY <1>2, <3>1, <3>2 DEF Sinks, s
    <3>4. \A d \in Kids(i) : u[d + 1] <= u[c + 1]
      <4> HIDE DEF x, y
      <4>1. ASSUME NEW d \in Kids(i) PROVE u[d + 1] = x \/ u[d + 1] = y
        BY <2>41 DEF x, y
      <4> QED
        BY <2>2, <2>6, <3>1, <4>1
    <3> QED
      BY <2>41, <3>1, <3>3, <3>4
  <2> QED
    BY <2>5, <2>6
<1>6. CASE ~(i * 2 + 2 < n)
  <2>1. c = i * 2 + 1 /\ c + 1 = i * 2 + 2
    BY <1>1, <1>6 DEF Child, s
  <2>2. Kids(i) = {i * 2 + 1, i * 2 + 2}
    BY <1>1 DEF Kids
  <2>3. \A d \in Kids(i) : d < n => u[d + 1] <= u[c + 1]
    <3> TAKE d \in Kids(i)
    <3>1. CASE d = i * 2 + 1
      <4>1. u[c + 1] \in Int
        BY <1>1, <1>4, <2>1
      <4> QED
        BY <2>1, <3>1, <4>1
    <3>2. CASE d = i * 2 + 2
      BY <1>6, <3>2
    <3> QED
      BY <2>2, <3>1, <3>2
  <2>4. Compar(u[c + 1], t) > 0 <=> u[c + 1] > t
    BY <1>3, <1>4, <2>1, ComparOrders
  <2>5. Sinks(heap, t, n) <=> u[c + 1] > u[i + 1]
    BY <1>2, <1>4, <2>1, <2>4 DEF Sinks, s
  <2> QED
    BY <2>1, <2>2, <2>3, <2>5
<1> QED
  BY <1>5, <1>6

(* Where t is less than a child of its, the hole goes there.               *)
LEMMA SwapKeepsPartly ==
    ASSUME NEW n \in Nat, NEW from \in Nat, NEW i \in Nat, NEW c \in Nat, c < n, from <= i,
           NEW u, NEW w, \A j \in 1..n : u[j] \in Int,
           Partly(u, i, from, n), c \in Kids(i), \A d \in Kids(i) : d < n => u[d + 1] <= u[c + 1],
           u[c + 1] > u[i + 1], w[i + 1] = u[c + 1], w[c + 1] = u[i + 1],
           \A j \in 1..n : j # i + 1 /\ j # c + 1 => w[j] = u[j]
    PROVE  Partly(w, c, from, n)
<1>1. \A j \in Nat : j < n /\ j # i /\ j # c => w[j + 1] = u[j + 1]
  OBVIOUS
<1>2. i < c /\ \A p \in Nat : \A d \in Kids(p) : p < d /\ d \in Nat
  BY DEF Kids
<1>3. \A p, q \in Nat : \A d \in Kids(p) : d \in Kids(q) => p = q
  BY DEF Kids
<1>4. ASSUME NEW p \in Nat, from <= p, p # c, NEW d \in Kids(p), d < n PROVE w[d + 1] <= w[p + 1]
  <2>1. d \in Nat /\ p < d /\ p < n
    BY <1>2, <1>4
  <2>2. CASE p = i
    <3>1. CASE d = c
      <4>1. u[i + 1] \in Int /\ u[c + 1] \in Int
        <5>1. i + 1 \in 1..n /\ c + 1 \in 1..n
          BY <1>2
        <5> QED
          BY <5>1
      <4> QED
        BY <2>2, <3>1, <4>1
    <3>2. CASE d # c
      BY <1>1, <1>4, <2>1, <2>2, <3>2
    <3> QED
      BY <3>1, <3>2
  <2>3. CASE p # i
    <3>1. w[p + 1] = u[p + 1] /\ d # c
      BY <1>1, <1>3, <1>4, <2>1, <2>3
    <3>2. CASE d = i
      BY <1>4, <3>1, <3>2 DEF Partly, Above
    <3>3. CASE d # i
      <4>1. w[d + 1] = u[d + 1]
        BY <1>1, <1>4, <2>1, <3>1, <3>3
      <4> QED
        BY <1>4, <2>3, <3>1, <4>1 DEF Partly, Above
    <3> QED
      BY <3>2, <3>3
  <2> QED
    BY <2>2, <2>3
<1>5. ASSUME NEW p \in Nat, from <= p, c \in Kids(p), NEW d \in Kids(c), d < n PROVE w[d + 1] <= w[p + 1]
  <2>1. p = i
    BY <1>3, <1>5
  <2>2. d \in Nat /\ c < d
    BY <1>2, <1>5
  <2>3. w[d + 1] = u[d + 1]
    BY <1>1, <1>2, <1>5, <2>2
  <2>4. u[d + 1] <= u[c + 1]
    <3>1. from <= c /\ c # i
      BY <1>2
    <3> QED
      BY <1>5, <3>1 DEF Partly, Above
  <2> QED
    BY <2>1, <2>3, <2>4
<1> QED
  BY <1>4, <1>5 DEF Partly, Above
-----------------------------------------------------------------------------
(* What t being pushed down from parent has made of u, where t was put:    *)
(* the heap but for t, whose turns come to an end.                         *)
Sinking(heap, u, t, from, n) ==
    /\ Sifting(heap, u, t, n)
    /\ from <= heap.index /\ Partly(Filled(heap, t), heap.index, from, n)

(* A turn that moves t leaves the heap in order but for t.                 *)
LEMMA SinkOrders ==
    ASSUME NEW V, Narrow(V), NEW n \in Nat, NEW from \in Nat, NEW t \in Int,
           NEW u \in Seq(Int), n <= Len(u), Ordered(u, V, n),
           NEW heap, Sinking(heap, u, t, from, n), Sinks(heap, t, n)
    PROVE  Sinking(Sink(heap, t, n), u, t, from, n) /\ Sink(heap, t, n).index > heap.index
<1> DEFINE k == Sink(heap, t, n)
           i == heap.index
           c == k.index
           v == Filled(heap, t)
           w == Filled(k, t)
<1>1. /\ heap \in Heaps /\ i < n /\ Len(heap.cells) = Len(u) /\ i \in Nat /\ Len(u) \in Nat
      /\ Sifting(heap, u, t, n) /\ from <= i /\ Partly(v, i, from, n)
  BY DEF Sinking, Sifting, Heaps
<1>2. Sifting(k, u, t, n)
  BY <1>1, SinkSifts
<1>3. Swapped(heap, k, t, n) /\ c = Child(heap.cells, i, n) /\ i * 2 + 1 < n
  <2>1. n <= Len(heap.cells)
    BY <1>1
  <2>2. i * 2 + 1 < n
    BY DEF Sinks
  <2> QED
    BY <1>1, <2>1, <2>2, SinkSwaps
<1>4. Ordered(v, V, n)
  BY <1>1 DEF Sifting, Ordered
<1>5. /\ c \in Kids(i) /\ c < n /\ \A d \in Kids(i) : d < n => v[d + 1] <= v[c + 1]
      /\ v[c + 1] > v[i + 1]
  <2>1. n <= Len(heap.cells)
    BY <1>1
  <2> HIDE DEF k
  <2> QED
    BY <1>1, <1>3, <1>4, <2>1, ChildLargest
<1> HIDE DEF k
<1>6. /\ c \in Nat /\ i < c /\ w[i + 1] = v[c + 1] /\ w[c + 1] = v[i + 1]
      /\ \A j \in 1..n : j # i + 1 /\ j # c + 1 => w[j] = v[j]
  <2>1. \A j \in 1..n : j \in 1..Len(heap.cells)
    BY <1>1
  <2> QED
    BY <1>3, <2>1 DEF Swapped
<1>7. \A j \in 1..n : v[j] \in Int
  BY <1>4 DEF Narrow, Ordered
<1> HIDE DEF i, c, v, w
<1>8. Partly(w, c, from, n)
  BY <1>1, <1>5, <1>6, <1>7, SwapKeepsPartly
<1> QED
  BY <1>1, <1>2, <1>6, <1>8 DEF Sinking, k, c, i, w

(* When t does not sink it is in its place.                                *)
LEMMA SinkEnds ==
    ASSUME NEW V, Narrow(V), NEW n \in Nat, NEW from \in Nat, NEW t \in Int,
           NEW u \in Seq(Int), n <= Len(u), Ordered(u, V, n),
           NEW heap, Sinking(heap, u, t, from, n), ~Sinks(heap, t, n)
    PROVE  Heap(Filled(heap, t), from, n)
<1> DEFINE i == heap.index
           v == Filled(heap, t)
           c == Child(heap.cells, i, n)
<1>1. /\ heap \in Heaps /\ i < n /\ Len(heap.cells) = Len(u) /\ i \in Nat
      /\ Sifting(heap, u, t, n) /\ from <= i /\ Partly(v, i, from, n)
  BY DEF Sinking, Sifting, Heaps
<1>2. Ordered(v, V, n)
  BY <1>1 DEF Sifting, Ordered
<1>3. \A j \in Nat : j < n => v[j + 1] \in Int
  <2>1. \A j \in Nat : j < n => j + 1 \in 1..n
    OBVIOUS
  <2> QED
    BY <1>2, <2>1 DEF Narrow, Ordered
<1>4. \A d \in Kids(i) : d < n => v[d + 1] <= v[i + 1]
  <2>1. CASE i * 2 + 1 < n
    <3>1. /\ c \in Kids(i) /\ c < n /\ \A d \in Kids(i) : d < n => v[d + 1] <= v[c + 1]
          /\ ~(v[c + 1] > v[i + 1])
      <4>1. n <= Len(heap.cells)
        BY <1>1
      <4> QED
        BY <1>1, <1>2, <2>1, <4>1, ChildLargest, SMTT(30)
    <3>2. \A d \in Kids(i) : d \in Nat
      BY <1>1 DEF Kids
    <3> HIDE DEF i, v, c
    <3> QED
      BY <1>1, <1>3, <3>1, <3>2, SMTT(30)
  <2>2. CASE ~(i * 2 + 1 < n)
    <3>1. \A d \in Kids(i) : ~(d < n)
      BY <1>1, <2>2 DEF Kids
    <3> QED
      BY <3>1
  <2> QED
    BY <2>1, <2>2
<1> HIDE DEF i, v
<1> QED
  BY <1>1, <1>4 DEF Heap, Partly, Above, v

(* n turns are enough to make a heap again.                                *)
LEMMA SiftOrders ==
    ASSUME NEW V, Narrow(V), NEW s \in Seq(Int), NEW t \in Int, NEW n \in Nat, n <= Len(s),
           NEW parent \in Nat, parent < n, NEW from \in Nat, from <= parent,
           NEW u, u = Filled(First(s, parent), t), Ordered(u, V, n), Partly(u, parent, from, n)
    PROVE  Heap(SiftDown(s, t, parent, n), from, n)
<1> DEFINE turns == Turns(t, n)
           P == [i \in 0..n |-> {heap \in Heaps : Sinking(heap, u, t, from, n) /\ (heap.index >= i \/ ~Sinks(heap, t, n))}]
           last == Loop(turns, First(s, parent))
<1>1. /\ u \in Seq(Int) /\ Len(u) = Len(s) /\ Sifting(First(s, parent), u, t, n)
      /\ First(s, parent).index = parent
  BY SiftBegins DEF First, Puts
<1>2. turns = [i \in 1..n |-> turns[i]]
  BY DEF Turns
<1>3. P \in [0..n -> SUBSET Heaps]
      /\ \A i \in 0..n : P[i] = {heap \in Heaps : Sinking(heap, u, t, from, n) /\ (heap.index >= i \/ ~Sinks(heap, t, n))}
  OBVIOUS
<1>4. First(s, parent) \in P[0]
  BY <1>1, <1>3 DEF Sifting, Sinking
<1>5. ASSUME NEW i \in 1..n, NEW heap \in P[i - 1] PROVE turns[i][heap] \in P[i]
  <2>1. i - 1 \in 0..n /\ i \in 0..n
    OBVIOUS
  <2>2. heap \in Heaps /\ Sinking(heap, u, t, from, n) /\ (heap.index >= i - 1 \/ ~Sinks(heap, t, n))
    BY <1>3, <2>1
  <2>3. turns[i][heap] = Sink(heap, t, n)
    BY <2>2, TurnIs
  <2>4. CASE Sinks(heap, t, n)
    <3>1. Sinking(Sink(heap, t, n), u, t, from, n) /\ Sink(heap, t, n).index > heap.index
      BY <1>1, <2>2, <2>4, SinkOrders
    <3>2. Sink(heap, t, n) \in Heaps /\ Sink(heap, t, n).index \in Nat /\ heap.index \in Nat
      BY <2>2, <3>1 DEF Sinking, Sifting, Heaps
    <3>3. Sink(heap, t, n).index >= i
      BY <2>2, <2>4, <3>1, <3>2
    <3> QED
      BY <1>3, <2>1, <2>3, <3>1, <3>2, <3>3
  <2>5. CASE ~Sinks(heap, t, n)
    <3>1. Sink(heap, t, n) = heap
      BY <2>2, <2>5, SinkIs
    <3> QED
      BY <1>3, <2>1, <2>2, <2>3, <2>5, <3>1
  <2> QED
    BY <2>4, <2>5
<1> HIDE DEF turns, P
<1>6. last \in P[n]
  BY <1>2, <1>3, <1>4, <1>5, LoopKeeps
<1> HIDE DEF last
<1>7. Sinking(last, u, t, from, n) /\ ~Sinks(last, t, n)
  <2>1. Sinking(last, u, t, from, n) /\ (last.index >= n \/ ~Sinks(last, t, n))
    BY <1>3, <1>6
  <2>2. last.index < n /\ last.index \in Nat
    BY <2>1 DEF Sinking, Sifting, Heaps
  <2> QED
    BY <2>1, <2>2
<1>8. SiftDown(s, t, parent, n) = Filled(last, t)
  BY SiftDownIs DEF turns, last
<1> QED
  BY <1>1, <1>7, <1>8, SinkEnds

-----------------------------------------------------------------------------
(* An order of values of V has values of V.                                *)
LEMMA ShuffledIn ==
    ASSUME NEW s \in Seq(Int), NEW V, NEW r, Shuffled(s, r), Ordered(s, V, Len(s))
    PROVE  Ordered(r, V, Len(s)) /\ r \in Seq(Int) /\ Len(r) = Len(s)
<1>1. PICK p \in Moves(s) : \A i \in 1..Len(s) : r[i] = s[p[i]]
  BY DEF Shuffled
<1>2. \A i \in 1..Len(s) : p[i] \in 1..Len(s)
  BY DEF Moves
<1> QED
  BY <1>1, <1>2 DEF Shuffled, Ordered

(* The root of a heap is the largest of its cells.                         *)
LEMMA RootLargest ==
    ASSUME NEW n \in Nat, NEW u, \A j \in 1..n : u[j] \in Int, Heap(u, 0, n)
    PROVE  \A j \in 1..n : u[j] <= u[1]
<1> DEFINE T == {m \in 0..n : \A j \in 1..m : u[j] <= u[1]}
<1>1. T \in SUBSET (0..n) /\ 0 \in T
  OBVIOUS
<1>2. ASSUME NEW i \in 1..n, i - 1 \in T PROVE i \in T
  <2>1. \A j \in 1..i - 1 : u[j] <= u[1]
    BY <1>2
  <2>2. u[i] <= u[1]
    <3>1. CASE i = 1
      BY <3>1
    <3>2. CASE i # 1
      <4> DEFINE p == (i - 2) \div 2
      <4>1. p \in Nat /\ i - 1 \in Kids(p) /\ p + 1 \in 1..i - 1
        <5>1. i - 2 \in Nat /\ p = (i - 2) \div 2
          BY <3>2
        <5>2. p \in Nat /\ (i - 2 = 2 * p \/ i - 2 = 2 * p + 1)
          BY <5>1
        <5> HIDE DEF p
        <5> QED
          BY <5>1, <5>2 DEF Kids
      <4> HIDE DEF p
      <4>2. u[(i - 1) + 1] <= u[p + 1]
        <5>1. i - 1 < n /\ 0 <= p
          BY <4>1
        <5> QED
          BY <4>1, <5>1 DEF Heap, Above
      <4>3. u[p + 1] <= u[1] /\ u[p + 1] \in Int /\ u[i] \in Int /\ u[1] \in Int /\ (i - 1) + 1 = i
        <5>1. p + 1 \in 1..n /\ 1 \in 1..n
          BY <4>1
        <5> QED
          BY <2>1, <4>1, <5>1
      <4> QED
        BY <4>2, <4>3
    <3> QED
      BY <3>1, <3>2
  <2>3. \A j \in 1..i : j \in 1..i - 1 \/ j = i
    OBVIOUS
  <2> QED
    BY <2>1, <2>2, <2>3
<1> HIDE DEF T
<1>3. T = 0..n
  BY <1>1, <1>2, UpTo
<1>4. n \in T
  BY <1>3
<1> QED
  BY <1>4 DEF T

-----------------------------------------------------------------------------
(* A turn of the first stage.                                              *)
LEMMA HeapifyMoves ==
    ASSUME NEW s \in Seq(Int), NEW parent \in Nat, parent < Len(s)
    PROVE  Shuffled(s, Heapify(s, parent)) /\ Filled(First(s, parent), s[parent + 1]) = s
<1> DEFINE n == Len(s)
           t == s[parent + 1]
           u == Filled(First(s, parent), t)
<1>1. n \in Nat /\ parent + 1 \in 1..n /\ t \in Int /\ n <= Len(s) /\ parent < n
  OBVIOUS
<1>2. u = s
  <2>1. /\ u \in Seq(Int) /\ Len(u) = Len(s)
        /\ \A j \in 1..Len(s) : u[j] = IF j = parent + 1 THEN t ELSE s[j]
    <3> HIDE DEF n, t
    <3> QED
      BY <1>1, SiftBegins DEF Puts
  <2> HIDE DEF u
  <2>2. \A j \in 1..Len(s) : u[j] = s[j]
    BY <2>1
  <2> QED
    BY <2>1, <2>2
<1>3. Shuffled(u, SiftDown(s, t, parent, n))
  <2> HIDE DEF n, t
  <2> QED
    BY <1>1, SiftMoves DEF Sifted
<1> QED
  BY <1>2, <1>3 DEF Heapify, Sifted

(* It makes a heap from parent on of one from the next on.                 *)
LEMMA HeapifyOrders ==
    ASSUME NEW V, Narrow(V), NEW s \in Seq(Int), Ordered(s, V, Len(s)),
           NEW parent \in Nat, parent < Len(s), Heap(s, parent + 1, Len(s))
    PROVE  Heap(Heapify(s, parent), parent, Len(s))
<1> DEFINE n == Len(s)
           t == s[parent + 1]
<1>1. n \in Nat /\ parent + 1 \in 1..n /\ t \in Int /\ n <= Len(s) /\ parent < n
  OBVIOUS
<1>2. s = Filled(First(s, parent), t)
  BY HeapifyMoves
<1>3. Partly(s, parent, parent, n)
  <2>1. \A p \in Nat : parent <= p => parent \notin Kids(p)
    BY DEF Kids
  <2>2. \A p \in Nat : parent <= p /\ p # parent => parent + 1 <= p
    OBVIOUS
  <2> HIDE DEF n
  <2> QED
    BY <2>1, <2>2 DEF Partly, Heap, n
<1> HIDE DEF t
<1>4. Heap(SiftDown(s, t, parent, n), parent, n)
  <2> HIDE DEF n
  <2>1. Ordered(s, V, n)
    BY DEF n
  <2> QED
    BY <1>1, <1>2, <1>3, <2>1, SiftOrders
<1> QED
  BY <1>4 DEF Heapify, t

-----------------------------------------------------------------------------
(* A turn of the second stage: s with cells 1 and n + 1 changing places.   *)
LEMMA ExtractBegins ==
    ASSUME NEW s \in Seq(Int), NEW n \in Nat, n > 0, n < Len(s),
           NEW room, room = [s EXCEPT ![n + 1] = s[1]],
           NEW u, u = Filled(First(room, 0), s[n + 1])
    PROVE  /\ room \in Seq(Int) /\ Len(room) = Len(s) /\ u \in Seq(Int) /\ Len(u) = Len(s)
           /\ u[1] = s[n + 1] /\ u[n + 1] = s[1] /\ s[n + 1] \in Int
           /\ \A j \in 1..Len(s) : j # 1 /\ j # n + 1 => u[j] = s[j]
           /\ Shuffled(s, u)
<1> DEFINE t == s[n + 1]
           l == Len(s)
<1>1. l \in Nat /\ 1 \in 1..l /\ n + 1 \in 1..l /\ t \in Int /\ n + 1 # 1 /\ s[1] \in Int
  OBVIOUS
<1>2. /\ room \in Seq(Int) /\ Len(room) = l
      /\ \A j \in 1..l : room[j] = IF j = n + 1 THEN s[1] ELSE s[j]
  BY <1>1
<1> HIDE DEF l
<1>3. /\ u \in Seq(Int) /\ Len(u) = l /\ \A j \in 1..l : u[j] = IF j = 1 THEN t ELSE room[j]
  <2>1. 0 \in Nat /\ 0 < n /\ n <= Len(room)
    BY <1>2 DEF l
  <2>2. Puts(u, room, 0, t)
    BY <1>1, <1>2, <2>1, SiftBegins
  <2>3. 0 + 1 = 1
    OBVIOUS
  <2> HIDE DEF t
  <2> QED
    BY <1>2, <2>2, <2>3 DEF Puts
<1>4. /\ u[1] = t /\ u[n + 1] = s[1] /\ \A j \in 1..l : j # 1 /\ j # n + 1 => u[j] = s[j]
  <2>1. u[1] = t
    BY <1>1, <1>3
  <2>2. u[n + 1] = room[n + 1] /\ room[n + 1] = s[1]
    BY <1>1, <1>2, <1>3
  <2>3. ASSUME NEW j \in 1..l, j # 1, j # n + 1 PROVE u[j] = s[j]
    <3>1. u[j] = room[j]
      BY <1>3, <2>3
    <3>2. room[j] = s[j]
      BY <1>2, <2>3
    <3> QED
      BY <3>1, <3>2
  <2> QED
    BY <2>1, <2>2, <2>3
<1>5. Shuffled(s, u)
  <2>1. 1 \in 1..Len(s) /\ n + 1 \in 1..Len(s) /\ Len(u) = Len(s)
    BY <1>1, <1>3 DEF l
  <2>2. /\ u \in Seq(Int) /\ u[1] = s[n + 1] /\ u[n + 1] = s[1]
        /\ \A j \in 1..Len(s) : j # 1 /\ j # n + 1 => u[j] = s[j]
    BY <1>3, <1>4 DEF l
  <2> QED
    BY ONLY s \in Seq(Int), <2>1, <2>2, ShuffledSwap
<1> QED
  BY <1>1, <1>2, <1>3, <1>4, <1>5 DEF l

(* The largest goes to n + 1, and the others stay among the first n.       *)
LEMMA ExtractMoves ==
    ASSUME NEW s \in Seq(Int), NEW n \in Nat, n > 0, n < Len(s)
    PROVE  /\ Shuffled(s, Extract(s, n))
           /\ \A j \in 1..n : \E k \in 1..n + 1 : Extract(s, n)[j] = s[k]
           /\ Extract(s, n)[n + 1] = s[1]
           /\ \A j \in n + 2..Len(s) : Extract(s, n)[j] = s[j]
<1> DEFINE room == [s EXCEPT ![n + 1] = s[1]]
           u == Filled(First(room, 0), s[n + 1])
           r == SiftDown(room, s[n + 1], 0, n)
<1>1. /\ room \in Seq(Int) /\ Len(room) = Len(s) /\ u \in Seq(Int) /\ Len(u) = Len(s)
      /\ u[1] = s[n + 1] /\ u[n + 1] = s[1] /\ s[n + 1] \in Int
      /\ \A j \in 1..Len(s) : j # 1 /\ j # n + 1 => u[j] = s[j]
      /\ Shuffled(s, u)
  <2> HIDE DEF room, u
  <2> QED
    BY ExtractBegins DEF room, u
<1> HIDE DEF room
<1>2. /\ Shuffled(u, r) /\ \A j \in 1..n : \E k \in 1..n : r[j] = u[k]
      /\ \A j \in n + 1..Len(s) : r[j] = u[j]
  <2>1. 0 \in Nat /\ 0 < n /\ n <= Len(room)
    BY <1>1
  <2>2. Sifted(u, r, n)
    BY <1>1, <2>1, SiftMoves
  <2> HIDE DEF u, r
  <2> QED
    BY <1>1, <2>2 DEF Sifted
<1> HIDE DEF u, r
<1>3. Shuffled(s, r)
  BY <1>1, <1>2, ShuffledTwice
<1>4. \A k \in 1..n : \E h \in 1..n + 1 : u[k] = s[h]
  <2> TAKE k \in 1..n
  <2>1. k \in 1..Len(s) /\ k # n + 1 /\ k \in 1..n + 1 /\ n + 1 \in 1..n + 1
    OBVIOUS
  <2>2. u[k] = s[k] \/ u[k] = s[n + 1]
    BY <1>1, <2>1
  <2> QED
    BY <2>1, <2>2
<1>5. \A j \in 1..n : \E k \in 1..n + 1 : r[j] = s[k]
  <2> TAKE j \in 1..n
  <2>1. PICK k \in 1..n : r[j] = u[k]
    BY <1>2
  <2> QED
    BY <1>4, <2>1
<1>6. r[n + 1] = s[1] /\ \A j \in n + 2..Len(s) : r[j] = s[j]
  <2>1. n + 1 \in n + 1..Len(s)
    OBVIOUS
  <2>2. \A j \in n + 2..Len(s) : j \in n + 1..Len(s) /\ j \in 1..Len(s) /\ j # 1 /\ j # n + 1
    OBVIOUS
  <2> QED
    BY <1>1, <1>2, <2>1, <2>2
<1> QED
  BY <1>3, <1>5, <1>6 DEF Extract, r, room

(* What is left is a heap.                                                 *)
LEMMA ExtractOrders ==
    ASSUME NEW V, Narrow(V), NEW s \in Seq(Int), Ordered(s, V, Len(s)),
           NEW n \in Nat, n > 0, n < Len(s), Heap(s, 0, n + 1)
    PROVE  Heap(Extract(s, n), 0, n)
<1> DEFINE room == [s EXCEPT ![n + 1] = s[1]]
           u == Filled(First(room, 0), s[n + 1])
<1>1. /\ room \in Seq(Int) /\ Len(room) = Len(s) /\ u \in Seq(Int) /\ Len(u) = Len(s)
      /\ u[1] = s[n + 1] /\ u[n + 1] = s[1] /\ s[n + 1] \in Int
      /\ \A j \in 1..Len(s) : j # 1 /\ j # n + 1 => u[j] = s[j]
      /\ Shuffled(s, u)
  <2> HIDE DEF room, u
  <2> QED
    BY ExtractBegins DEF room, u
<1>2. Ordered(u, V, n)
  <2>1. Ordered(u, V, Len(s)) /\ \A j \in 1..n : j \in 1..Len(s)
    BY <1>1, ShuffledIn
  <2> QED
    BY <2>1 DEF Ordered
<1> HIDE DEF room
<1>3. Partly(u, 0, 0, n)
  <2> HIDE DEF u
  <2>1. ASSUME NEW p \in Nat, p # 0, NEW c \in Kids(p), c < n PROVE Above(u, p, c)
    <3>1. c \in Nat /\ p < c
      BY DEF Kids
    <3>2. /\ c + 1 \in 1..Len(s) /\ c + 1 # 1 /\ c + 1 # n + 1
          /\ p + 1 \in 1..Len(s) /\ p + 1 # 1 /\ p + 1 # n + 1
      BY <2>1, <3>1
    <3>3. u[c + 1] = s[c + 1] /\ u[p + 1] = s[p + 1]
      BY <1>1, <3>2
    <3>4. c < n + 1 /\ 0 <= p
      BY <2>1, <3>1
    <3> QED
      BY <3>3, <3>4 DEF Heap, Above
  <2>2. \A p \in Nat : 0 \notin Kids(p)
    BY DEF Kids
  <2> QED
    BY <2>1, <2>2 DEF Partly
<1>4. Heap(SiftDown(room, s[n + 1], 0, n), 0, n)
  <2>1. 0 \in Nat /\ 0 < n /\ n <= Len(room) /\ 0 <= 0
    BY <1>1
  <2> QED
    BY <1>1, <1>2, <1>3, <2>1, SiftOrders
<1> QED
  BY <1>4 DEF Extract, room

(* What has been taken out: nothing before a cell of it is larger.         *)
Past(r, m) == \A j \in m + 1..Len(r) : \A k \in 1..j : r[k] <= r[j]

(* The largest of what is left comes before those taken out already.       *)
LEMMA ExtractTail ==
    ASSUME NEW V, Narrow(V), NEW s \in Seq(Int),
           NEW n \in Nat, n > 0, n < Len(s), Heap(s, 0, n + 1), Past(s, n + 1)
    PROVE  Past(Extract(s, n), n)
<1> DEFINE r == Extract(s, n)
           l == Len(s)
<1>1. /\ Shuffled(s, r) /\ \A j \in 1..n : \E k \in 1..n + 1 : r[j] = s[k]
      /\ r[n + 1] = s[1] /\ \A j \in n + 2..l : r[j] = s[j]
  BY ExtractMoves
<1>2. l \in Nat /\ n + 1 <= l /\ \A j \in 1..l : s[j] \in Int
  OBVIOUS
<1> HIDE DEF r
<1>3. r \in Seq(Int) /\ Len(r) = l /\ \A j \in 1..l : r[j] \in Int
  BY <1>1 DEF Shuffled
<1>4. \A k \in 1..n + 1 : s[k] <= s[1]
  <2>1. \A j \in 1..n + 1 : s[j] \in Int
    BY <1>2
  <2> QED
    BY <2>1, RootLargest
<1>5. \A j \in n + 2..l : \A k \in 1..j : s[k] <= s[j]
  <2>1. (n + 1) + 1 = n + 2
    OBVIOUS
  <2> QED
    BY <2>1 DEF Past
<1>6. \A k \in 1..n + 1 : \E h \in 1..n + 1 : r[k] = s[h]
  <2> TAKE k \in 1..n + 1
  <2>1. CASE k = n + 1
    <3>1. 1 \in 1..n + 1
      OBVIOUS
    <3> QED
      BY <1>1, <2>1, <3>1
  <2>2. CASE k # n + 1
    <3>1. k \in 1..n
      BY <2>2
    <3> QED
      BY <1>1, <3>1
  <2> QED
    BY <2>1, <2>2
<1> HIDE DEF l
<1>7. ASSUME NEW j \in n + 1..l, NEW k \in 1..j PROVE r[k] <= r[j]
  <2>1. CASE j = n + 1
    <3>1. k \in 1..n + 1
      BY <2>1
    <3>2. PICK h \in 1..n + 1 : r[k] = s[h]
      BY <1>6, <3>1
    <3> QED
      BY <1>1, <1>4, <2>1, <3>2
  <2>2. CASE j # n + 1
    <3>1. j \in n + 2..l /\ r[j] = s[j]
      <4>1. j \in n + 2..l
        BY <1>2, <2>2
      <4> QED
        BY <1>1, <4>1
    <3>2. CASE k \in 1..n + 1
      <4>1. PICK h \in 1..n + 1 : r[k] = s[h]
        BY <1>6, <3>2
      <4>2. h \in 1..j
        BY <2>2
      <4> QED
        BY <1>5, <3>1, <4>1, <4>2
    <3>3. CASE k \notin 1..n + 1
      <4>1. k \in n + 2..l
        BY <1>2, <3>3
      <4> QED
        BY <1>1, <1>5, <3>1, <4>1
    <3> QED
      BY <3>2, <3>3
  <2> QED
    BY <2>1, <2>2
<1> QED
  BY <1>3, <1>7 DEF Past, r

-----------------------------------------------------------------------------
(* Whatever compar says, no element is lost or doubled.                    *)
LEMMA HeapifiedMoves ==
    ASSUME NEW s \in Seq(Int)
    PROVE  Shuffled(s, Heapified[s])
<1> DEFINE half == Len(s) \div 2
           turns == [i \in 1..half |-> [r \in Seq(Int) |-> Heapify(r, half - i)]]
           P == [i \in 0..half |-> {r \in Seq(Int) : Shuffled(s, r)}]
<1>1. Len(s) \in Nat /\ half \in Nat /\ 2 * half <= Len(s)
  OBVIOUS
<1> HIDE DEF half
<1>2. turns = [i \in 1..half |-> turns[i]]
  OBVIOUS
<1>3. P \in [0..half -> SUBSET Seq(Int)] /\ \A i \in 0..half : P[i] = {r \in Seq(Int) : Shuffled(s, r)}
  OBVIOUS
<1>4. s \in P[0]
  BY <1>1, <1>3, ShuffledSame
<1>5. ASSUME NEW i \in 1..half, NEW r \in P[i - 1] PROVE turns[i][r] \in P[i]
  <2>1. i - 1 \in 0..half /\ i \in 0..half
    BY <1>1
  <2>2. r \in Seq(Int) /\ Shuffled(s, r) /\ Len(r) = Len(s)
    BY <1>3, <2>1 DEF Shuffled
  <2>3. turns[i][r] = Heapify(r, half - i)
    BY <2>2
  <2>4. half - i \in Nat /\ half - i < Len(r)
    BY <1>1, <2>2
  <2>5. Shuffled(r, Heapify(r, half - i))
    BY <2>2, <2>4, HeapifyMoves
  <2>6. Shuffled(s, Heapify(r, half - i)) /\ Heapify(r, half - i) \in Seq(Int)
    BY <2>2, <2>5, ShuffledTwice
  <2> QED
    BY <1>3, <2>1, <2>3, <2>6
<1> HIDE DEF turns, P
<1>6. Loop(turns, s) \in P[half]
  BY <1>1, <1>2, <1>3, <1>4, <1>5, LoopKeeps
<1>7. Shuffled(s, Loop(turns, s))
  BY <1>1, <1>3, <1>6
<1> QED
  BY <1>7 DEF Heapified, turns, half

(* The same of the second stage.                                           *)
LEMMA ExtractedMoves ==
    ASSUME NEW s \in Seq(Int), s # <<>>
    PROVE  Shuffled(s, Extracted[s])
<1> DEFINE l == Len(s)
           turns == [i \in 1..l - 1 |-> [r \in Seq(Int) |-> Extract(r, l - i)]]
           P == [i \in 0..l - 1 |-> {r \in Seq(Int) : Shuffled(s, r)}]
<1>1. l - 1 \in Nat /\ l \in Nat
  OBVIOUS
<1> HIDE DEF l
<1>2. turns = [i \in 1..l - 1 |-> turns[i]]
  OBVIOUS
<1>3. P \in [0..l - 1 -> SUBSET Seq(Int)] /\ \A i \in 0..l - 1 : P[i] = {r \in Seq(Int) : Shuffled(s, r)}
  OBVIOUS
<1>4. s \in P[0]
  BY <1>1, <1>3, ShuffledSame
<1>5. ASSUME NEW i \in 1..l - 1, NEW r \in P[i - 1] PROVE turns[i][r] \in P[i]
  <2>1. i - 1 \in 0..l - 1 /\ i \in 0..l - 1
    BY <1>1
  <2>2. r \in Seq(Int) /\ Shuffled(s, r) /\ Len(r) = l
    BY <1>3, <2>1 DEF Shuffled, l
  <2>3. turns[i][r] = Extract(r, l - i)
    BY <2>2
  <2>4. l - i \in Nat /\ l - i > 0 /\ l - i < Len(r)
    BY <1>1, <2>2
  <2>5. Shuffled(r, Extract(r, l - i))
    BY <2>2, <2>4, ExtractMoves
  <2>6. Shuffled(s, Extract(r, l - i)) /\ Extract(r, l - i) \in Seq(Int)
    BY <2>2, <2>5, ShuffledTwice
  <2> QED
    BY <1>3, <2>1, <2>3, <2>6
<1> HIDE DEF turns, P
<1>6. Loop(turns, s) \in P[l - 1]
  BY <1>1, <1>2, <1>3, <1>4, <1>5, LoopKeeps
<1>7. Shuffled(s, Loop(turns, s))
  BY <1>1, <1>3, <1>6
<1> QED
  BY <1>7 DEF Extracted, turns, l

(* heapsortfg loses and doubles no element, whatever the elements are:     *)
(* even where compar's difference is beyond an int32_t.                    *)
THEOREM SortShuffles ==
    ASSUME NEW s \in Seq(Int)
    PROVE  Shuffled(s, HeapSorted(s))
<1>1. CASE s = <<>>
  BY <1>1, ShuffledSame DEF HeapSorted
<1>2. CASE s # <<>>
  <2>1. Shuffled(s, Heapified[s])
    BY HeapifiedMoves
  <2>2. Heapified[s] \in Seq(Int) /\ Heapified[s] # <<>>
    BY <1>2, <2>1 DEF Shuffled
  <2>3. Shuffled(Heapified[s], Extracted[Heapified[s]])
    BY <2>2, ExtractedMoves
  <2> QED
    BY <1>2, <2>1, <2>3, ShuffledTwice DEF HeapSorted
<1> QED
  BY <1>1, <1>2

-----------------------------------------------------------------------------
(* The first stage makes a heap.                                           *)
LEMMA HeapifiedIsHeap ==
    ASSUME NEW V, Narrow(V), NEW s \in Seq(Int), Ordered(s, V, Len(s))
    PROVE  Heap(Heapified[s], 0, Len(s))
<1> DEFINE l == Len(s)
           half == Len(s) \div 2
           turns == [i \in 1..half |-> [r \in Seq(Int) |-> Heapify(r, half - i)]]
           P == [i \in 0..half |-> {r \in Seq(Int) : Shuffled(s, r) /\ Heap(r, half - i, l)}]
<1>1. l \in Nat /\ half \in Nat /\ 2 * half <= l /\ l <= 2 * half + 1
  OBVIOUS
<1> HIDE DEF half
<1>2. turns = [i \in 1..half |-> turns[i]]
  OBVIOUS
<1>3. P \in [0..half -> SUBSET Seq(Int)]
      /\ \A i \in 0..half : P[i] = {r \in Seq(Int) : Shuffled(s, r) /\ Heap(r, half - i, l)}
  OBVIOUS
<1>4. s \in P[0]
  <2>1. Heap(s, half, l)
    <3>1. \A p \in Nat : half <= p => \A c \in Kids(p) : ~(c < l)
      <4> HIDE DEF l
      <4> QED
        BY <1>1 DEF Kids
    <3> QED
      BY <3>1 DEF Heap
  <2>2. half - 0 = half /\ 0 \in 0..half
    BY <1>1
  <2> QED
    BY <1>3, <2>1, <2>2, ShuffledSame
<1>5. ASSUME NEW i \in 1..half, NEW r \in P[i - 1] PROVE turns[i][r] \in P[i]
  <2>1. i - 1 \in 0..half /\ i \in 0..half /\ half - (i - 1) = (half - i) + 1
    BY <1>1
  <2>2. r \in Seq(Int) /\ Shuffled(s, r) /\ Len(r) = l /\ Heap(r, (half - i) + 1, l)
    BY <1>3, <2>1 DEF Shuffled
  <2>3. turns[i][r] = Heapify(r, half - i)
    BY <2>2
  <2>4. half - i \in Nat /\ half - i < Len(r)
    <3> HIDE DEF l
    <3> QED
      BY <1>1, <2>2
  <2>5. Shuffled(r, Heapify(r, half - i))
    BY <2>2, <2>4, HeapifyMoves
  <2>6. Shuffled(s, Heapify(r, half - i)) /\ Heapify(r, half - i) \in Seq(Int)
    BY <2>2, <2>5, ShuffledTwice
  <2>7. Ordered(r, V, Len(r))
    BY <2>2, ShuffledIn
  <2>8. Heap(Heapify(r, half - i), half - i, l)
    <3> HIDE DEF l
    <3> QED
      BY <2>2, <2>4, <2>7, HeapifyOrders
  <2> QED
    BY <1>3, <2>1, <2>3, <2>6, <2>8
<1> HIDE DEF turns, P
<1>6. Loop(turns, s) \in P[half]
  BY <1>1, <1>2, <1>3, <1>4, <1>5, LoopKeeps
<1>7. Heap(Loop(turns, s), 0, l)
  <2>1. half \in 0..half /\ half - half = 0
    BY <1>1
  <2> QED
    BY <1>3, <1>6, <2>1
<1> QED
  BY <1>7 DEF Heapified, turns, half

Sorted(s) == \A i, j \in 1..Len(s) : i <= j => s[i] <= s[j]

(* The second stage sorts it.                                              *)
LEMMA ExtractedSorts ==
    ASSUME NEW V, Narrow(V), NEW s \in Seq(Int), s # <<>>, Ordered(s, V, Len(s)), Heap(s, 0, Len(s))
    PROVE  Sorted(Extracted[s])
<1> DEFINE l == Len(s)
           turns == [i \in 1..l - 1 |-> [r \in Seq(Int) |-> Extract(r, l - i)]]
           Good(r, i) == Shuffled(s, r) /\ Heap(r, 0, l - i) /\ Past(r, l - i)
           P == [i \in 0..l - 1 |-> {r \in Seq(Int) : Good(r, i)}]
<1>1. l - 1 \in Nat /\ l \in Nat /\ Heap(s, 0, l) /\ Ordered(s, V, l)
  OBVIOUS
<1> HIDE DEF Good
<1>2. turns = [i \in 1..l - 1 |-> turns[i]]
  OBVIOUS
<1>3. P \in [0..l - 1 -> SUBSET Seq(Int)] /\ \A i \in 0..l - 1 : P[i] = {r \in Seq(Int) : Good(r, i)}
  OBVIOUS
<1>4. s \in P[0]
  <2>1. Past(s, l)
    <3>1. l + 1..Len(s) = {}
      OBVIOUS
    <3> QED
      BY <3>1 DEF Past
  <2>2. l - 0 = l /\ 0 \in 0..l - 1
    BY <1>1
  <2>3. Good(s, 0)
    <3> HIDE DEF l
    <3> QED
      BY <1>1, <2>1, <2>2, ShuffledSame DEF Good
  <2> QED
    BY <1>3, <2>2, <2>3
<1> HIDE DEF l
<1>5. ASSUME NEW i \in 1..l - 1, NEW r \in P[i - 1] PROVE turns[i][r] \in P[i]
  <2> DEFINE n == l - i
  <2>1. i - 1 \in 0..l - 1 /\ i \in 0..l - 1 /\ l - (i - 1) = n + 1
    BY <1>1
  <2>2. r \in Seq(Int) /\ Good(r, i - 1)
    BY <1>3, <2>1
  <2>3. Shuffled(s, r) /\ Len(r) = l /\ Heap(r, 0, n + 1) /\ Past(r, n + 1)
    BY <2>1, <2>2 DEF Good, Shuffled, l
  <2>4. turns[i][r] = Extract(r, n)
    BY <2>2
  <2>5. n \in Nat /\ n > 0 /\ n < Len(r)
    BY <1>1, <2>3
  <2>6. Ordered(r, V, Len(r))
    BY <1>1, <2>3, ShuffledIn DEF l
  <2> HIDE DEF n
  <2>7. Shuffled(r, Extract(r, n))
    BY <2>2, <2>5, ExtractMoves
  <2>8. Shuffled(s, Extract(r, n)) /\ Extract(r, n) \in Seq(Int)
    BY <2>3, <2>7, ShuffledTwice
  <2>9. Heap(Extract(r, n), 0, n)
    BY <2>2, <2>3, <2>5, <2>6, ExtractOrders
  <2>10. Past(Extract(r, n), n)
    BY <2>2, <2>3, <2>5, ExtractTail
  <2> QED
    BY <1>3, <2>1, <2>4, <2>8, <2>9, <2>10 DEF Good, n
<1> HIDE DEF turns, P
<1>6. Loop(turns, s) \in P[l - 1]
  BY <1>1, <1>2, <1>3, <1>4, <1>5, LoopKeeps
<1> DEFINE r == Loop(turns, s)
<1>7. Shuffled(s, r) /\ Past(r, 1) /\ r \in Seq(Int)
  <2>1. l - 1 \in 0..l - 1 /\ l - (l - 1) = 1
    BY <1>1
  <2>2. r \in Seq(Int) /\ Good(r, l - 1)
    BY <1>3, <1>6, <2>1
  <2> QED
    BY <2>1, <2>2 DEF Good
<1> HIDE DEF r
<1>8. Sorted(r)
  <2>1. ASSUME NEW i \in 1..Len(r), NEW j \in 1..Len(r), i <= j PROVE r[i] <= r[j]
    <3>1. Len(r) \in Nat /\ r[i] \in Int /\ r[j] \in Int
      BY <1>7
    <3>2. CASE j = 1
      <4>1. i = 1
        BY <2>1, <3>1, <3>2
      <4> QED
        BY <3>1, <3>2, <4>1
    <3>3. CASE j # 1
      <4>1. j \in 1 + 1..Len(r) /\ i \in 1..j
        BY <2>1, <3>1, <3>3
      <4> QED
        BY <1>7, <4>1 DEF Past
    <3> QED
      BY <3>2, <3>3
  <2> QED
    BY <2>1 DEF Sorted
<1> QED
  BY <1>8 DEF Extracted, r, turns, l

(* heapsortfg sorts any number of integers, of which no two are so far     *)
(* apart that an int32_t cannot hold their difference.                     *)
THEOREM SortSorts ==
    ASSUME NEW V, Narrow(V), NEW s \in Seq(V)
    PROVE  Sorted(HeapSorted(s))
<1>1. s \in Seq(Int) /\ Ordered(s, V, Len(s))
  <2>1. V \subseteq Int
    BY DEF Narrow
  <2>2. s \in [1..Len(s) -> V] /\ Len(s) \in Nat
    OBVIOUS
  <2>3. s \in [1..Len(s) -> Int]
    BY <2>1, <2>2
  <2> QED
    BY <2>2, <2>3 DEF Ordered
<1>2. CASE s = <<>>
  BY <1>2 DEF HeapSorted, Sorted
<1>3. CASE s # <<>>
  <2> DEFINE r == Heapified[s]
  <2>1. Shuffled(s, r) /\ Heap(r, 0, Len(s))
    BY <1>1, HeapifiedMoves, HeapifiedIsHeap
  <2> HIDE DEF r
  <2>2. r \in Seq(Int) /\ Len(r) = Len(s) /\ Ordered(r, V, Len(s))
    BY <1>1, <2>1, ShuffledIn
  <2>3. r # <<>>
    BY <1>1, <1>3, <2>2
  <2>4. Sorted(Extracted[r])
    BY <2>1, <2>2, <2>3, ExtractedSorts
  <2> QED
    BY <1>3, <2>4 DEF HeapSorted, r
<1> QED
  BY <1>2, <1>3
==============================================================================
