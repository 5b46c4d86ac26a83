---------------------------- MODULE SerialProofs -----------------------------
(***************************************************************************)
(* What the wire format promises, for variables nested to any depth: what  *)
(* variable_serialize writes, variable_deserialize reads.                  *)
(*                                                                         *)
(* The argument goes up with the depth. An integer is read as it was       *)
(* written; so is a string; and if the parts of a variable are, the        *)
(* variable is, for its parts lie one after the other in the stream, and   *)
(* each reading stops where the next part begins.                          *)
(***************************************************************************)
EXTENDS Serial, Induction

-----------------------------------------------------------------------------
(* Integers.                                                               *)

(* The int32_t that have an abs: all but the least.                        *)
HasAbs(i) == -2147483648 < i /\ i < 2147483648
(* What is left of them without the bits of the first byte.                *)
Short(n) == n < 33554432
(* Group k of n, as a number, and the number that has the groups d.        *)
Group(n, k) == (n \div Weights[k]) % 128
FirstOf(a, n, i) == (a % 64) + (IF n > 0 THEN 128 ELSE 0) + (IF i < 0 THEN 64 ELSE 0)
NextOf(d, k, g)  == d + (IF k < g THEN 128 ELSE 0)
Digits == [1..4 -> 0..127]
Six(b)   == b % 64
Seven(b) == b % 128
Total(d) == d[1] + 128 * d[2] + 16384 * d[3] + 2097152 * d[4]
(* i is a but for its sign, of which n is what is not in the first byte:   *)
(* g groups, and all four are d.                                           *)
Parts(i, a, n, g, d) ==
    /\ i \in Int /\ a \in Nat /\ n \in Nat /\ g \in 0..4 /\ d \in Digits
    /\ i = (IF i < 0 THEN -a ELSE a) /\ a = Abs(i) /\ n = a \div 64 /\ g = Groups(n)
    /\ \A k \in 1..4 : d[k] = Group(n, k) /\ (g < k => d[k] = 0)
    /\ g = 0 <=> n = 0
    /\ n = Total(d)

(* How many groups a number has, and what is in each.                      *)
LEMMA GroupsIs ==
    ASSUME NEW n \in Nat, Short(n)
    PROVE  /\ Groups(n) \in 0..4
           /\ \A k \in 1..4 : Group(n, k) \in 0..127 /\ (Groups(n) < k => Group(n, k) = 0)
           /\ Groups(n) = 0 <=> n = 0
           /\ n = Total([k \in 1..4 |-> Group(n, k)])
<1> DEFINE W == Weights
<1>1. ASSUME NEW g \in 0..4, \A k \in 1..4 : W[k] <= n <=> k <= g
      PROVE  Groups(n) = g
  <2>1. {k \in 1..4 : W[k] <= n} = 1..g
    <3>1. ASSUME NEW k \in 1..g PROVE k \in 1..4 /\ k <= g
      BY SMT
    <3>2. ASSUME NEW k \in 1..4, k <= g PROVE k \in 1..g
      BY <3>2, SMT
    <3> QED
      BY <1>1, <3>1, <3>2
  <2>2. Cardinality(1..g) = g
    <3>1. 0 \in Int /\ 1 \in Int /\ g \in Int /\ (IF 1 > g THEN 0 ELSE g - 1 + 1) = g
      BY SMT
    <3> QED
      BY <3>1, FS_Interval
  <2> QED
    BY <2>1, <2>2 DEF Groups
<1> DEFINE Is(g) == /\ g \in 0..4 /\ \A k \in 1..4 : W[k] <= n <=> k <= g
                    /\ \A k \in 1..4 : g < k => n < W[k]
                    /\ g = 0 <=> n = 0
<1>2. \A k \in 1..4 : k = 1 \/ k = 2 \/ k = 3 \/ k = 4
  BY SMT
<1>3. PICK g : Is(g)
  <2>1. CASE n < 1
    <3>1. Is(0)
      BY <1>2, <2>1, SMT DEF Weights
    <3> QED
      BY <3>1
  <2>2. CASE 1 <= n /\ n < 128
    <3>1. Is(1)
      BY <1>2, <2>2, SMT DEF Weights
    <3> QED
      BY <3>1
  <2>3. CASE 128 <= n /\ n < Weights[3]
    <3>1. Is(2)
      BY <1>2, <2>3, SMT DEF Weights
    <3> QED
      BY <3>1
  <2>4. CASE Weights[3] <= n /\ n < Weights[4]
    <3>1. Is(3)
      BY <1>2, <2>4, SMT DEF Weights
    <3> QED
      BY <3>1
  <2>5. CASE Weights[4] <= n
    <3>1. Is(4)
      BY <1>2, <2>5, SMT DEF Weights
    <3> QED
      BY <3>1
  <2> QED
    BY <2>1, <2>2, <2>3, <2>4, <2>5, SMT DEF Weights
<1>4. Groups(n) = g
  BY <1>1, <1>3
<1>5. ASSUME NEW k \in 1..4 PROVE Group(n, k) \in 0..127
  BY <1>2, SMT DEF Group, Weights
<1>6. n = Total([k \in 1..4 |-> Group(n, k)])
  <2> DEFINE d == [k \in 1..4 |-> Group(n, k)]
  <2>1. d[1] = Group(n, 1) /\ d[2] = Group(n, 2) /\ d[3] = Group(n, 3) /\ d[4] = Group(n, 4)
    BY SMT
  <2> HIDE DEF d
  <2>2. n = Total(d)
    BY <2>1, SMT DEF Total, Group, Weights, Short
  <2> QED
    BY <2>2 DEF d
<1>7. ASSUME NEW k \in 1..4, g < k PROVE Group(n, k) = 0
  <2>1. n < Weights[k]
    BY <1>3, <1>7
  <2> QED
    BY <1>2, <2>1, SMT DEF Group, Weights
<1> QED
  BY <1>3, <1>4, <1>5, <1>6, <1>7

(* Every int32_t but the least has such parts.                             *)
LEMMA PartsAre ==
    ASSUME NEW i \in Int, HasAbs(i)
    PROVE  \E a, n, g, d : Parts(i, a, n, g, d)
<1>1. PICK a \in Nat : a = Abs(i) /\ i = (IF i < 0 THEN -a ELSE a)
  BY SMT DEF Abs
<1>2. PICK n \in Nat : n = a \div 64 /\ Short(n)
  BY <1>1, SMT DEF Abs, HasAbs, Short
<1>3. PICK g \in 0..4 : g = Groups(n)
  BY <1>2, GroupsIs
<1>4. PICK d \in Digits : d = [k \in 1..4 |-> Group(n, k)]
  BY <1>2, GroupsIs DEF Digits
<1>5. /\ \A k \in 1..4 : d[k] = Group(n, k) /\ (g < k => d[k] = 0)
      /\ g = 0 <=> n = 0
      /\ n = Total(d)
  BY <1>2, <1>3, <1>4, GroupsIs
<1>6. Parts(i, a, n, g, d)
  BY <1>1, <1>2, <1>3, <1>5 DEF Parts
<1> QED
  BY <1>6

(* The bytes of an integer, out of its parts.                              *)
LEMMA CodeIs ==
    ASSUME NEW i, NEW a, NEW n, NEW g, NEW d, Parts(i, a, n, g, d)
    PROVE  /\ SerialEncodeIntSize(i) = g + 1 /\ Len(SerialEncodeInt(i)) = g + 1
           /\ SerialEncodeInt(i)[1] = FirstOf(a, n, i)
           /\ \A k \in 1..g : SerialEncodeInt(i)[k + 1] = NextOf(d[k], k, g)
<1>1. /\ i \in Int /\ a \in Nat /\ n \in Nat /\ g \in 0..4 /\ a = Abs(i) /\ n = a \div 64 /\ g = Groups(n)
      /\ \A k \in 1..4 : Group(n, k) = d[k] /\ d[k] \in 0..127
  BY DEF Parts, Digits
<1> DEFINE first == (a % 64) + (IF a >= 64 THEN 128 ELSE 0) + (IF i < 0 THEN 64 ELSE 0)
           rest == [k \in 1..g |-> NextOf(d[k], k, g)]
<1>2. a >= 64 <=> n > 0
  BY <1>1, SMT
<1>3. first \in Nat
  BY <1>1, SMT
<1>4. rest \in Seq(Nat) /\ Len(rest) = g
  <2>1. \A k \in 1..g : NextOf(d[k], k, g) \in Nat
    BY <1>1, SMT DEF NextOf
  <2>2. rest \in [1..g -> Nat] /\ g \in Nat
    BY <1>1, <2>1
  <2> HIDE DEF rest
  <2> QED
    BY <2>2, SMT
<1>5. SerialEncodeInt(i) = <<first>> \o rest
  <2>1. RestBytes(n) = rest
    <3>1. RestBytes(n) = [k \in 1..g |-> NextOf(Group(n, k), k, g)]
      BY <1>1 DEF RestBytes, Group, NextOf
    <3>2. \A k \in 1..g : k \in 1..4
      BY <1>1, SMT
    <3> QED
      BY <1>1, <3>1, <3>2
  <2> QED
    BY <1>1, <2>1 DEF SerialEncodeInt
<1>6. \A k \in 1..g : rest[k] = NextOf(d[k], k, g)
  OBVIOUS
<1>7. first = FirstOf(a, n, i)
  BY <1>2 DEF FirstOf
<1> HIDE DEF first, rest
<1>8. /\ Len(<<first>> \o rest) = g + 1 /\ (<<first>> \o rest)[1] = first
      /\ \A k \in 1..g : (<<first>> \o rest)[k + 1] = rest[k]
  BY <1>3, <1>4, <1>1, SMT
<1>9. SerialEncodeIntSize(i) = g + 1
  BY <1>1, SMT DEF SerialEncodeIntSize
<1> QED
  BY <1>5, <1>6, <1>7, <1>8, <1>9

(* What is read of a byte.                                                 *)
LEMMA FirstByte ==
    ASSUME NEW a \in Nat, NEW n \in Nat, NEW i \in Int
    PROVE  LET b == FirstOf(a, n, i)
           IN  (Continued(b) <=> 0 < n) /\ (Signed(b) <=> i < 0) /\ b % 64 = a % 64
<1>1. PICK r \in 0..63 : r = a % 64
  BY SMT
<1> DEFINE c == r + (IF n > 0 THEN 128 ELSE 0) + (IF i < 0 THEN 64 ELSE 0)
<1>2. (Continued(c) <=> 0 < n) /\ (Signed(c) <=> i < 0) /\ c % 64 = r
  <2>1. CASE n > 0 /\ i < 0
    BY <2>1, SMT DEF Continued, Signed
  <2>2. CASE n > 0 /\ ~(i < 0)
    BY <2>2, SMT DEF Continued, Signed
  <2>3. CASE ~(n > 0) /\ i < 0
    BY <2>3, SMT DEF Continued, Signed
  <2>4. CASE ~(n > 0) /\ ~(i < 0)
    BY <2>4, SMT DEF Continued, Signed
  <2> QED
    BY <2>1, <2>2, <2>3, <2>4
<1>3. FirstOf(a, n, i) = c
  BY <1>1 DEF FirstOf
<1> HIDE DEF c
<1> QED
  BY <1>1, <1>2, <1>3

(* A byte that is not the first, and what it says of the next.             *)
LEMMA NextByte ==
    ASSUME NEW d \in 0..127, NEW k \in Nat, NEW g \in Nat
    PROVE  LET b == NextOf(d, k, g)
           IN  (Continued(b) <=> k < g) /\ b % 128 = d
  BY SMT DEF Continued, NextOf

(* Where the bytes of an integer stop.                                     *)
LEMMA FollowingIs ==
    ASSUME NEW buf, NEW at \in Nat, NEW g \in 0..4, \A k \in 0..g : Continued(buf[at + k]) <=> k < g
    PROVE  Following(buf, at) = g
<1> DEFINE Follow(m) == /\ \A k \in 0..m - 1 : Continued(buf[at + k])
                        /\ m = 4 \/ ~Continued(buf[at + m])
<1>1. Follow(g)
  <2>1. \A k \in 0..g - 1 : k \in 0..g /\ k < g
    BY SMT
  <2>2. g \in 0..g /\ ~(g < g)
    BY SMT
  <2> QED
    BY <2>1, <2>2
<1>2. \A m \in 0..4 : Follow(m) => m = g
  <2> SUFFICES ASSUME NEW m \in 0..4, Follow(m), m # g PROVE FALSE
    OBVIOUS
  <2>1. CASE m < g
    <3>1. m # 4 /\ m \in 0..g
      BY <2>1, SMT
    <3> QED
      BY <2>1, <3>1
  <2>2. CASE m > g
    <3>1. g \in 0..m - 1 /\ g \in 0..g /\ ~(g < g)
      BY <2>2, SMT
    <3> QED
      BY <3>1
  <2> QED
    BY <2>1, <2>2, SMT
<1>3. Following(buf, at) = CHOOSE m \in 0..4 : Follow(m)
  BY DEF Following
<1> HIDE DEF Follow
<1> QED
  BY <1>1, <1>2, <1>3

(* An integer without its sign, out of the bytes that it lies in.          *)
LEMMA MagnitudeIs ==
    ASSUME NEW i, NEW a, NEW n, NEW g, NEW d, Parts(i, a, n, g, d),
           NEW buf, NEW at \in Nat, Following(buf, at) = g,
           Six(buf[at]) = Six(a), \A k \in 1..g : Seven(buf[at + k]) = d[k]
    PROVE  Magnitude(buf, at) = [val |-> a, next |-> at + g + 1]
<1> DEFINE rest == [k \in 1..4 |-> IF k <= g THEN (buf[at + k] % 128) * Weights[k] ELSE 0]
<1>1. Magnitude(buf, at) = [val |-> (buf[at] % 64) + 64 * (rest[1] + rest[2] + rest[3] + rest[4]),
                            next |-> at + g + 1]
  BY DEF Magnitude
<1> USE DEF Digits, Six, Seven, Parts
<1>2. \A k \in 1..4 : rest[k] = d[k] * Weights[k]
  <2> TAKE k \in 1..4
  <2>1. Weights[k] \in Nat
    BY SMT DEF Weights
  <2>2. CASE k <= g
    <3>1. k \in 1..g
      BY <2>2, SMT
    <3> QED
      BY <2>2, <3>1
  <2>3. CASE ~(k <= g)
    <3>1. g < k
      BY <2>3, SMT
    <3>2. d[k] = 0 /\ rest[k] = 0
      BY <2>3, <3>1
    <3> QED
      BY <2>1, <3>2, SMT
  <2> QED
    BY <2>2, <2>3
<1> HIDE DEF rest
<1>3. rest[1] + rest[2] + rest[3] + rest[4] = n
  <2>1. /\ rest[1] = d[1] * Weights[1] /\ rest[2] = d[2] * Weights[2]
        /\ rest[3] = d[3] * Weights[3] /\ rest[4] = d[4] * Weights[4]
    BY <1>2, SMT
  <2> QED
    BY <2>1, SMT DEF Weights, Total
<1>4. (a % 64) + 64 * n = a
  BY SMT
<1> QED
  BY <1>1, <1>3, <1>4

(* Whatever surrounds it, an integer that is in the code is read as it was *)
(* written, and the reading stops where the writing did; as many bytes as  *)
(* the compiler, which puts lengths in jumps, is told beforehand.          *)
THEOREM IntegersReturn ==
    ASSUME NEW i \in Int, HasAbs(i), NEW buf, NEW at \in Nat,
           \A k \in 1..Len(SerialEncodeInt(i)) : buf[at + k - 1] = SerialEncodeInt(i)[k]
    PROVE  /\ Len(SerialEncodeInt(i)) = SerialEncodeIntSize(i)
           /\ SerialDecodeInt(buf, at) = [val |-> i, next |-> at + SerialEncodeIntSize(i)]
<1>1. PICK a, n, g, d : Parts(i, a, n, g, d)
  BY PartsAre
<1>2. /\ a \in Nat /\ n \in Nat /\ g \in 0..4 /\ i = (IF i < 0 THEN -a ELSE a)
      /\ g = 0 <=> n = 0
      /\ \A k \in 1..4 : d[k] \in 0..127
  BY <1>1 DEF Parts, Digits
<1>3. /\ SerialEncodeIntSize(i) = g + 1 /\ Len(SerialEncodeInt(i)) = g + 1
      /\ SerialEncodeInt(i)[1] = FirstOf(a, n, i)
      /\ \A k \in 1..g : SerialEncodeInt(i)[k + 1] = NextOf(d[k], k, g)
  BY <1>1, CodeIs
<1>4. buf[at] = FirstOf(a, n, i)
  <2>1. 1 \in 1..g + 1 /\ at + 1 - 1 = at
    BY <1>2, SMT
  <2> QED
    BY <1>3, <2>1
<1>5. ASSUME NEW k \in 1..g PROVE buf[at + k] = NextOf(d[k], k, g)
  <2>1. k + 1 \in 1..g + 1 /\ at + (k + 1) - 1 = at + k
    BY <1>2, SMT
  <2>2. buf[at + (k + 1) - 1] = SerialEncodeInt(i)[k + 1]
    BY <1>3, <2>1
  <2> QED
    BY <1>3, <2>1, <2>2
<1>6. (Continued(buf[at]) <=> 0 < g) /\ (Signed(buf[at]) <=> i < 0) /\ Six(buf[at]) = Six(a)
  <2>1. 0 < n <=> 0 < g
    BY <1>2, SMT
  <2>2. /\ Continued(FirstOf(a, n, i)) <=> 0 < n
        /\ Signed(FirstOf(a, n, i)) <=> i < 0
        /\ Six(FirstOf(a, n, i)) = Six(a)
    BY <1>2, FirstByte DEF Six
  <2> QED
    BY <1>4, <2>1, <2>2
<1>7. ASSUME NEW k \in 1..g PROVE (Continued(buf[at + k]) <=> k < g) /\ Seven(buf[at + k]) = d[k]
  <2>1. k \in 1..4 /\ k \in Nat /\ g \in Nat
    BY <1>2, SMT
  <2>2. PICK e \in 0..127 : e = d[k]
    BY <1>2, <2>1
  <2>3. (Continued(NextOf(e, k, g)) <=> k < g) /\ Seven(NextOf(e, k, g)) = e
    BY <2>1, NextByte DEF Seven
  <2> QED
    BY <1>5, <2>2, <2>3
<1>8. Following(buf, at) = g
  <2>1. \A k \in 0..g : Continued(buf[at + k]) <=> k < g
    <3> TAKE k \in 0..g
    <3>1. CASE k = 0
      <4>1. at + k = at
        BY <3>1, SMT
      <4> QED
        BY <1>6, <3>1, <4>1
    <3>2. CASE k # 0
      <4>1. k \in 1..g
        BY <1>2, <3>2, SMT
      <4> QED
        BY <1>7, <4>1
    <3> QED
      BY <3>1, <3>2
  <2> QED
    BY <1>2, <2>1, FollowingIs
<1>9. Magnitude(buf, at) = [val |-> a, next |-> at + g + 1]
  BY <1>1, <1>6, <1>7, <1>8, MagnitudeIs
<1>10. SerialDecodeInt(buf, at) = [val |-> IF i < 0 THEN -a ELSE a, next |-> at + g + 1]
  BY <1>6, <1>9 DEF SerialDecodeInt
<1>11. at + (g + 1) = at + g + 1
  BY <1>2, SMT
<1> QED
  BY <1>2, <1>3, <1>10, <1>11
-----------------------------------------------------------------------------
(* Levels.  Each function of Serial is the recursion that it is defined    *)
(* by: there is such a function up to any level.                           *)

(* The variables that are nested n deep, and no deeper.                     *)
LEMMA LayerIs ==
    \A n \in 0..Depth : Layer[n] = IF n = 0 THEN Simple ELSE Composed(Layer[n - 1])
<1> DEFINE At(f, n) == IF n = 0 THEN Simple ELSE Composed(f[n - 1])
           Is(f, m) == f = [n \in 0..m |-> At(f, n)]
           T == {m \in Nat : \E f : Is(f, m)}
<1>1. \A f, g : At(f, 0) = At(g, 0)
  OBVIOUS
<1>2. ASSUME NEW f, NEW g, NEW n \in Nat, n # 0 => f[n - 1] = g[n - 1] PROVE At(f, n) = At(g, n)
  BY <1>2
<1>3. ASSUME NEW f, NEW n PROVE At(f, n) = IF n = 0 THEN Simple ELSE Composed(f[n - 1])
  OBVIOUS
<1> HIDE DEF At
<1>4. 0 \in T
  <2> DEFINE f == [n \in 0..0 |-> At(<<>>, n)]
  <2>1. ASSUME NEW n \in 0..0 PROVE f[n] = At(f, n)
    BY <1>1
  <2>2. Is(f, 0)
    BY <2>1
  <2> QED
    BY <2>2
<1>5. ASSUME NEW m \in T PROVE m + 1 \in T
  <2>1. PICK f : Is(f, m)
    OBVIOUS
  <2> DEFINE g == [n \in 0..m + 1 |-> IF n = m + 1 THEN At(f, n) ELSE f[n]]
  <2>2. ASSUME NEW n \in 0..m + 1 PROVE g[n] = At(g, n)
    <3>1. n # 0 => n - 1 \in 0..m + 1 /\ n - 1 # m + 1 /\ g[n - 1] = f[n - 1]
      OBVIOUS
    <3> HIDE DEF g
    <3>2. At(f, n) = At(g, n)
      BY <1>2, <3>1
    <3>3. n # m + 1 => n \in 0..m
      OBVIOUS
    <3>4. n # m + 1 => f[n] = At(f, n)
      BY <2>1, <3>3
    <3> QED
      BY <3>2, <3>4 DEF g
  <2>3. g = [n \in 0..m + 1 |-> g[n]]
    OBVIOUS
  <2> HIDE DEF g
  <2>4. Is(g, m + 1)
    BY <2>2, <2>3
  <2> QED
    BY <2>4
<1>6. T = Nat
  <2> HIDE DEF T
  <2>1. T \in SUBSET Nat
    BY DEF T
  <2> QED
    BY <1>4, <1>5, <2>1, AllNumbers
<1>7. Is(Layer, Depth)
  <2>1. Layer = CHOOSE f : Is(f, Depth)
    BY DEF Layer, At
  <2>2. \E f : Is(f, Depth)
    BY <1>6, DepthAssumption
  <2> QED
    BY <2>1, <2>2, Zenon
<1> HIDE DEF Is
<1>8. \A n \in 0..Depth : Layer[n] = At(Layer, n)
  BY <1>7 DEF Is
<1> QED
  BY <1>3, <1>8

(* What is written of them.                                                *)
LEMMA SerializedIs ==
    \A n \in 0..Depth :
        Serialized[n] = [v \in Layer[n] |-> Serialize(v, IF n = 0 THEN <<>> ELSE Serialized[n - 1])]
<1> DEFINE At(f, n) == [v \in Layer[n] |-> Serialize(v, IF n = 0 THEN <<>> ELSE f[n - 1])]
           Is(f, m) == f = [n \in 0..m |-> At(f, n)]
           T == {m \in Nat : \E f : Is(f, m)}
<1>1. \A f, g : At(f, 0) = At(g, 0)
  OBVIOUS
<1>2. ASSUME NEW f, NEW g, NEW n \in Nat, n # 0 => f[n - 1] = g[n - 1] PROVE At(f, n) = At(g, n)
  BY <1>2
<1>3. ASSUME NEW f, NEW n
      PROVE  At(f, n) = [v \in Layer[n] |-> Serialize(v, IF n = 0 THEN <<>> ELSE f[n - 1])]
  OBVIOUS
<1> HIDE DEF At
<1>4. 0 \in T
  <2> DEFINE f == [n \in 0..0 |-> At(<<>>, n)]
  <2>1. ASSUME NEW n \in 0..0 PROVE f[n] = At(f, n)
    BY <1>1
  <2>2. Is(f, 0)
    BY <2>1
  <2> QED
    BY <2>2
<1>5. ASSUME NEW m \in T PROVE m + 1 \in T
  <2>1. PICK f : Is(f, m)
    OBVIOUS
  <2> DEFINE g == [n \in 0..m + 1 |-> IF n = m + 1 THEN At(f, n) ELSE f[n]]
  <2>2. ASSUME NEW n \in 0..m + 1 PROVE g[n] = At(g, n)
    <3>1. n # 0 => n - 1 \in 0..m + 1 /\ n - 1 # m + 1 /\ g[n - 1] = f[n - 1]
      OBVIOUS
    <3> HIDE DEF g
    <3>2. At(f, n) = At(g, n)
      BY <1>2, <3>1
    <3>3. n # m + 1 => n \in 0..m
      OBVIOUS
    <3>4. n # m + 1 => f[n] = At(f, n)
      BY <2>1, <3>3
    <3> QED
      BY <3>2, <3>4 DEF g
  <2>3. g = [n \in 0..m + 1 |-> g[n]]
    OBVIOUS
  <2> HIDE DEF g
  <2>4. Is(g, m + 1)
    BY <2>2, <2>3
  <2> QED
    BY <2>4
<1>6. T = Nat
  <2> HIDE DEF T
  <2>1. T \in SUBSET Nat
    BY DEF T
  <2> QED
    BY <1>4, <1>5, <2>1, AllNumbers
<1>7. Is(Serialized, Depth)
  <2>1. Serialized = CHOOSE f : Is(f, Depth)
    BY DEF Serialized, At
  <2>2. \E f : Is(f, Depth)
    BY <1>6, DepthAssumption
  <2> QED
    BY <2>1, <2>2, Zenon
<1> HIDE DEF Is
<1>8. \A n \in 0..Depth : Serialized[n] = At(Serialized, n)
  BY <1>7 DEF Is
<1> QED
  BY <1>3, <1>8

(* What they are when they have been read.                                 *)
LEMMA MirroredIs ==
    \A n \in 0..Depth :
        Mirrored[n] = [v \in Layer[n] |-> Mirror(v, IF n = 0 THEN <<>> ELSE Mirrored[n - 1])]
<1> DEFINE At(f, n) == [v \in Layer[n] |-> Mirror(v, IF n = 0 THEN <<>> ELSE f[n - 1])]
           Is(f, m) == f = [n \in 0..m |-> At(f, n)]
           T == {m \in Nat : \E f : Is(f, m)}
<1>1. \A f, g : At(f, 0) = At(g, 0)
  OBVIOUS
<1>2. ASSUME NEW f, NEW g, NEW n \in Nat, n # 0 => f[n - 1] = g[n - 1] PROVE At(f, n) = At(g, n)
  BY <1>2
<1>3. ASSUME NEW f, NEW n
      PROVE  At(f, n) = [v \in Layer[n] |-> Mirror(v, IF n = 0 THEN <<>> ELSE f[n - 1])]
  OBVIOUS
<1> HIDE DEF At
<1>4. 0 \in T
  <2> DEFINE f == [n \in 0..0 |-> At(<<>>, n)]
  <2>1. ASSUME NEW n \in 0..0 PROVE f[n] = At(f, n)
    BY <1>1
  <2>2. Is(f, 0)
    BY <2>1
  <2> QED
    BY <2>2
<1>5. ASSUME NEW m \in T PROVE m + 1 \in T
  <2>1. PICK f : Is(f, m)
    OBVIOUS
  <2> DEFINE g == [n \in 0..m + 1 |-> IF n = m + 1 THEN At(f, n) ELSE f[n]]
  <2>2. ASSUME NEW n \in 0..m + 1 PROVE g[n] = At(g, n)
    <3>1. n # 0 => n - 1 \in 0..m + 1 /\ n - 1 # m + 1 /\ g[n - 1] = f[n - 1]
      OBVIOUS
    <3> HIDE DEF g
    <3>2. At(f, n) = At(g, n)
      BY <1>2, <3>1
    <3>3. n # m + 1 => n \in 0..m
      OBVIOUS
    <3>4. n # m + 1 => f[n] = At(f, n)
      BY <2>1, <3>3
    <3> QED
      BY <3>2, <3>4 DEF g
  <2>3. g = [n \in 0..m + 1 |-> g[n]]
    OBVIOUS
  <2> HIDE DEF g
  <2>4. Is(g, m + 1)
    BY <2>2, <2>3
  <2> QED
    BY <2>4
<1>6. T = Nat
  <2> HIDE DEF T
  <2>1. T \in SUBSET Nat
    BY DEF T
  <2> QED
    BY <1>4, <1>5, <2>1, AllNumbers
<1>7. Is(Mirrored, Depth)
  <2>1. Mirrored = CHOOSE f : Is(f, Depth)
    BY DEF Mirrored, At
  <2>2. \E f : Is(f, Depth)
    BY <1>6, DepthAssumption
  <2> QED
    BY <2>1, <2>2, Zenon
<1> HIDE DEF Is
<1>8. \A n \in 0..Depth : Mirrored[n] = At(Mirrored, n)
  BY <1>7 DEF Is
<1> QED
  BY <1>3, <1>8

(* Which of them are equal.                                                *)
LEMMA ComparedIs ==
    \A n \in 0..Depth :
        Compared[n] = [u \in Layer[n] |-> [v \in Layer[n] |->
                          Compare(u, v, IF n = 0 THEN <<>> ELSE Compared[n - 1])]]
<1> DEFINE At(f, n) == [u \in Layer[n] |-> [v \in Layer[n] |->
                          Compare(u, v, IF n = 0 THEN <<>> ELSE f[n - 1])]]
           Is(f, m) == f = [n \in 0..m |-> At(f, n)]
           T == {m \in Nat : \E f : Is(f, m)}
<1>1. \A f, g : At(f, 0) = At(g, 0)
  OBVIOUS
<1>2. ASSUME NEW f, NEW g, NEW n \in Nat, n # 0 => f[n - 1] = g[n - 1] PROVE At(f, n) = At(g, n)
  BY <1>2
<1>3. ASSUME NEW f, NEW n
      PROVE  At(f, n) = [u \in Layer[n] |-> [v \in Layer[n] |->
                            Compare(u, v, IF n = 0 THEN <<>> ELSE f[n - 1])]]
  OBVIOUS
<1> HIDE DEF At
<1>4. 0 \in T
  <2> DEFINE f == [n \in 0..0 |-> At(<<>>, n)]
  <2>1. ASSUME NEW n \in 0..0 PROVE f[n] = At(f, n)
    BY <1>1
  <2>2. Is(f, 0)
    BY <2>1
  <2> QED
    BY <2>2
<1>5. ASSUME NEW m \in T PROVE m + 1 \in T
  <2>1. PICK f : Is(f, m)
    OBVIOUS
  <2> DEFINE g == [n \in 0..m + 1 |-> IF n = m + 1 THEN At(f, n) ELSE f[n]]
  <2>2. ASSUME NEW n \in 0..m + 1 PROVE g[n] = At(g, n)
    <3>1. n # 0 => n - 1 \in 0..m + 1 /\ n - 1 # m + 1 /\ g[n - 1] = f[n - 1]
      OBVIOUS
    <3> HIDE DEF g
    <3>2. At(f, n) = At(g, n)
      BY <1>2, <3>1
    <3>3. n # m + 1 => n \in 0..m
      OBVIOUS
    <3>4. n # m + 1 => f[n] = At(f, n)
      BY <2>1, <3>3
    <3> QED
      BY <3>2, <3>4 DEF g
  <2>3. g = [n \in 0..m + 1 |-> g[n]]
    OBVIOUS
  <2> HIDE DEF g
  <2>4. Is(g, m + 1)
    BY <2>2, <2>3
  <2> QED
    BY <2>4
<1>6. T = Nat
  <2> HIDE DEF T
  <2>1. T \in SUBSET Nat
    BY DEF T
  <2> QED
    BY <1>4, <1>5, <2>1, AllNumbers
<1>7. Is(Compared, Depth)
  <2>1. Compared = CHOOSE f : Is(f, Depth)
    BY DEF Compared, At
  <2>2. \E f : Is(f, Depth)
    BY <1>6, DepthAssumption
  <2> QED
    BY <2>1, <2>2, Zenon
<1> HIDE DEF Is
<1>8. \A n \in 0..Depth : Compared[n] = At(Compared, n)
  BY <1>7 DEF Is
<1> QED
  BY <1>3, <1>8

(* What is read at each place.                                             *)
LEMMA DeserializedIs ==
    ASSUME NEW buf
    PROVE  \A n \in 0..Depth :
               Deserialized(buf)[n] =
                   [at \in DOMAIN buf |->
                       Deserialize(buf, at, IF n = 0 THEN <<>> ELSE Deserialized(buf)[n - 1])]
<1> DEFINE At(f, n) == [at \in DOMAIN buf |-> Deserialize(buf, at, IF n = 0 THEN <<>> ELSE f[n - 1])]
           Is(f, m) == f = [n \in 0..m |-> At(f, n)]
           T == {m \in Nat : \E f : Is(f, m)}
           level[n \in 0..Depth] ==
               [at \in DOMAIN buf |-> Deserialize(buf, at, IF n = 0 THEN <<>> ELSE level[n - 1])]
<1>1. Deserialized(buf) = level
  BY DEF Deserialized
<1>2. \A f, g : At(f, 0) = At(g, 0)
  OBVIOUS
<1>3. ASSUME NEW f, NEW g, NEW n \in Nat, n # 0 => f[n - 1] = g[n - 1] PROVE At(f, n) = At(g, n)
  BY <1>3
<1>4. ASSUME NEW f, NEW n
      PROVE  At(f, n) = [at \in DOMAIN buf |-> Deserialize(buf, at, IF n = 0 THEN <<>> ELSE f[n - 1])]
  OBVIOUS
<1> HIDE DEF At
<1>5. 0 \in T
  <2> DEFINE f == [n \in 0..0 |-> At(<<>>, n)]
  <2>1. ASSUME NEW n \in 0..0 PROVE f[n] = At(f, n)
    BY <1>2
  <2>2. Is(f, 0)
    BY <2>1
  <2> QED
    BY <2>2
<1>6. ASSUME NEW m \in T PROVE m + 1 \in T
  <2>1. PICK f : Is(f, m)
    OBVIOUS
  <2> DEFINE g == [n \in 0..m + 1 |-> IF n = m + 1 THEN At(f, n) ELSE f[n]]
  <2>2. ASSUME NEW n \in 0..m + 1 PROVE g[n] = At(g, n)
    <3>1. n # 0 => n - 1 \in 0..m + 1 /\ n - 1 # m + 1 /\ g[n - 1] = f[n - 1]
      OBVIOUS
    <3> HIDE DEF g
    <3>2. At(f, n) = At(g, n)
      BY <1>3, <3>1
    <3>3. n # m + 1 => n \in 0..m
      OBVIOUS
    <3>4. n # m + 1 => f[n] = At(f, n)
      BY <2>1, <3>3
    <3> QED
      BY <3>2, <3>4 DEF g
  <2>3. g = [n \in 0..m + 1 |-> g[n]]
    OBVIOUS
  <2> HIDE DEF g
  <2>4. Is(g, m + 1)
    BY <2>2, <2>3
  <2> QED
    BY <2>4
<1>7. T = Nat
  <2> HIDE DEF T
  <2>1. T \in SUBSET Nat
    BY DEF T
  <2> QED
    BY <1>5, <1>6, <2>1, AllNumbers
<1>8. Is(level, Depth)
  <2>1. level = CHOOSE f : Is(f, Depth)
    BY DEF At
  <2>2. \E f : Is(f, Depth)
    BY <1>7, DepthAssumption
  <2> QED
    BY <2>1, <2>2, Zenon
<1> HIDE DEF Is, level
<1>9. \A n \in 0..Depth : level[n] = At(level, n)
  BY <1>8 DEF Is
<1> QED
  BY <1>4, <1>9, <1>1

(* What is read of so many variables, one after the other.                 *)
LEMMA SequelIs ==
    ASSUME NEW at, NEW N \in Nat, NEW read
    PROVE  \E f : /\ Sequel(at, N, read) = f[N] /\ f[0] = [val |-> <<>>, next |-> at]
                 /\ \A i \in 1..N : f[i] = ReadNext(f[i - 1], read)
<1> DEFINE At(f, n) == IF n = 0 THEN [val |-> <<>>, next |-> at] ELSE ReadNext(f[n - 1], read)
           Is(f, m) == f = [n \in 0..m |-> At(f, n)]
           T == {m \in Nat : \E f : Is(f, m)}
           got[i \in 0..N] == IF i = 0 THEN [val |-> <<>>, next |-> at] ELSE ReadNext(got[i - 1], read)
<1>1. Sequel(at, N, read) = got[N]
  BY DEF Sequel, ReadNext
<1>2. \A f, g : At(f, 0) = At(g, 0)
  OBVIOUS
<1>3. ASSUME NEW f, NEW g, NEW n \in Nat, n # 0 => f[n - 1] = g[n - 1] PROVE At(f, n) = At(g, n)
  BY <1>3
<1>4. ASSUME NEW f, NEW n
      PROVE  At(f, n) = IF n = 0 THEN [val |-> <<>>, next |-> at] ELSE ReadNext(f[n - 1], read)
  OBVIOUS
<1> HIDE DEF At
<1>5. 0 \in T
  <2> DEFINE f == [n \in 0..0 |-> At(<<>>, n)]
  <2>1. ASSUME NEW n \in 0..0 PROVE f[n] = At(f, n)
    BY <1>2
  <2>2. Is(f, 0)
    BY <2>1
  <2> QED
    BY <2>2
<1>6. ASSUME NEW m \in T PROVE m + 1 \in T
  <2>1. PICK f : Is(f, m)
    OBVIOUS
  <2> DEFINE g == [n \in 0..m + 1 |-> IF n = m + 1 THEN At(f, n) ELSE f[n]]
  <2>2. ASSUME NEW n \in 0..m + 1 PROVE g[n] = At(g, n)
    <3>1. n # 0 => n - 1 \in 0..m + 1 /\ n - 1 # m + 1 /\ g[n - 1] = f[n - 1]
      OBVIOUS
    <3> HIDE DEF g
    <3>2. At(f, n) = At(g, n)
      BY <1>3, <3>1
    <3>3. n # m + 1 => n \in 0..m
      OBVIOUS
    <3>4. n # m + 1 => f[n] = At(f, n)
      BY <2>1, <3>3
    <3> QED
      BY <3>2, <3>4 DEF g
  <2>3. g = [n \in 0..m + 1 |-> g[n]]
    OBVIOUS
  <2> HIDE DEF g
  <2>4. Is(g, m + 1)
    BY <2>2, <2>3
  <2> QED
    BY <2>4
<1>7. T = Nat
  <2> HIDE DEF T
  <2>1. T \in SUBSET Nat
    BY DEF T
  <2> QED
    BY <1>5, <1>6, <2>1, AllNumbers
<1>8. Is(got, N)
  <2>1. got = CHOOSE f : Is(f, N)
    BY DEF At
  <2>2. \E f : Is(f, N)
    BY <1>7
  <2> QED
    BY <2>1, <2>2, Zenon
<1> HIDE DEF Is, got
<1>9. \A n \in 0..N : got[n] = At(got, n)
  BY <1>8 DEF Is
<1> QED
  BY <1>4, <1>9, <1>1

(* What dic_insert makes of so many keys and values, one after the other.  *)
LEMMA DicOfIs ==
    ASSUME NEW both, NEW N \in Nat
    PROVE  \E f : /\ DicOf(both, N) = f[N] /\ f[0] = <<>>
                 /\ \A i \in 1..N : f[i] = DicInserted(f[i - 1], both[2 * i - 1], both[2 * i])
<1> DEFINE At(f, n) == IF n = 0 THEN <<>> ELSE DicInserted(f[n - 1], both[2 * n - 1], both[2 * n])
           Is(f, m) == f = [n \in 0..m |-> At(f, n)]
           T == {m \in Nat : \E f : Is(f, m)}
           dic[i \in 0..N] == IF i = 0 THEN <<>>
                              ELSE DicInserted(dic[i - 1], both[2 * i - 1], both[2 * i])
<1>1. DicOf(both, N) = dic[N]
  BY DEF DicOf
<1>2. \A f, g : At(f, 0) = At(g, 0)
  OBVIOUS
<1>3. ASSUME NEW f, NEW g, NEW n \in Nat, n # 0 => f[n - 1] = g[n - 1] PROVE At(f, n) = At(g, n)
  BY <1>3
<1>4. ASSUME NEW f, NEW n
      PROVE  At(f, n) = IF n = 0 THEN <<>> ELSE DicInserted(f[n - 1], both[2 * n - 1], both[2 * n])
  OBVIOUS
<1> HIDE DEF At
<1>5. 0 \in T
  <2> DEFINE f == [n \in 0..0 |-> At(<<>>, n)]
  <2>1. ASSUME NEW n \in 0..0 PROVE f[n] = At(f, n)
    BY <1>2
  <2>2. Is(f, 0)
    BY <2>1
  <2> QED
    BY <2>2
<1>6. ASSUME NEW m \in T PROVE m + 1 \in T
  <2>1. PICK f : Is(f, m)
    OBVIOUS
  <2> DEFINE g == [n \in 0..m + 1 |-> IF n = m + 1 THEN At(f, n) ELSE f[n]]
  <2>2. ASSUME NEW n \in 0..m + 1 PROVE g[n] = At(g, n)
    <3>1. n # 0 => n - 1 \in 0..m + 1 /\ n - 1 # m + 1 /\ g[n - 1] = f[n - 1]
      OBVIOUS
    <3> HIDE DEF g
    <3>2. At(f, n) = At(g, n)
      BY <1>3, <3>1
    <3>3. n # m + 1 => n \in 0..m
      OBVIOUS
    <3>4. n # m + 1 => f[n] = At(f, n)
      BY <2>1, <3>3
    <3> QED
      BY <3>2, <3>4 DEF g
  <2>3. g = [n \in 0..m + 1 |-> g[n]]
    OBVIOUS
  <2> HIDE DEF g
  <2>4. Is(g, m + 1)
    BY <2>2, <2>3
  <2> QED
    BY <2>4
<1>7. T = Nat
  <2> HIDE DEF T
  <2>1. T \in SUBSET Nat
    BY DEF T
  <2> QED
    BY <1>5, <1>6, <2>1, AllNumbers
<1>8. Is(dic, N)
  <2>1. dic = CHOOSE f : Is(f, N)
    BY DEF At
  <2>2. \E f : Is(f, N)
    BY <1>7
  <2> QED
    BY <2>1, <2>2, Zenon
<1> HIDE DEF Is, dic
<1>9. \A n \in 0..N : dic[n] = At(dic, n)
  BY <1>8 DEF Is
<1> QED
  BY <1>4, <1>9, <1>1

-----------------------------------------------------------------------------
(* Streams.                                                                *)

Bytes == Nat \cup STRING

(* A function that is a sequence.                                          *)
LEMMA FunSeq ==
    ASSUME NEW S, NEW n \in Nat, NEW s \in [1..n -> S]
    PROVE  s \in Seq(S) /\ Len(s) = n
  OBVIOUS

(* From at on, buf is s.                                                   *)
Lies(buf, at, s) == \A k \in 1..Len(s) : at + k - 1 \in DOMAIN buf /\ buf[at + k - 1] = s[k]

(* Where two sequences lie, one after the other.                           *)
LEMMA LiesSplit ==
    ASSUME NEW V, NEW s \in Seq(V), NEW t \in Seq(V), NEW buf, NEW at \in Nat,
           Lies(buf, at, s \o t)
    PROVE  Lies(buf, at, s) /\ Lies(buf, at + Len(s), t) /\ Len(s \o t) = Len(s) + Len(t)
<1>1. /\ Len(s) \in Nat /\ Len(t) \in Nat /\ Len(s \o t) = Len(s) + Len(t)
      /\ \A k \in 1..Len(s) : (s \o t)[k] = s[k]
      /\ \A k \in 1..Len(t) : (s \o t)[Len(s) + k] = t[k]
  OBVIOUS
<1>2. ASSUME NEW k \in 1..Len(s) PROVE k \in 1..Len(s \o t)
  BY <1>1
<1>3. ASSUME NEW k \in 1..Len(t)
      PROVE  Len(s) + k \in 1..Len(s \o t) /\ at + (Len(s) + k) - 1 = at + Len(s) + k - 1
  BY <1>1
<1>4. Lies(buf, at, s)
  BY <1>1, <1>2 DEF Lies
<1>5. Lies(buf, at + Len(s), t)
  <2>1. ASSUME NEW k \in 1..Len(t)
        PROVE  at + Len(s) + k - 1 \in DOMAIN buf /\ buf[at + Len(s) + k - 1] = t[k]
    <3>1. /\ at + (Len(s) + k) - 1 \in DOMAIN buf
          /\ buf[at + (Len(s) + k) - 1] = (s \o t)[Len(s) + k]
      BY <1>3 DEF Lies
    <3> QED
      BY <1>1, <1>3, <3>1
  <2> QED
    BY <2>1 DEF Lies
<1> QED
  BY <1>1, <1>4, <1>5

(* The integers of 32 bits are written in one to five bytes.               *)
LEMMA IntBytes ==
    ASSUME NEW i \in Int, HasAbs(i)
    PROVE  SerialEncodeInt(i) \in Seq(Bytes) /\ Len(SerialEncodeInt(i)) > 0
<1>1. PICK a, n, g, d : Parts(i, a, n, g, d)
  BY PartsAre
<1>2. Len(SerialEncodeInt(i)) = g + 1
  BY <1>1, CodeIs
<1>3. /\ a \in Nat /\ n \in Nat /\ g \in 0..4 /\ a = Abs(i) /\ n = Abs(i) \div 64 /\ g = Groups(n)
      /\ \A k \in 1..4 : Group(n, k) \in 0..127
  BY <1>1 DEF Parts, Digits
<1> DEFINE first == (a % 64) + (IF a >= 64 THEN 128 ELSE 0) + (IF i < 0 THEN 64 ELSE 0)
           rest == [k \in 1..g |-> Group(n, k) + (IF k < g THEN 128 ELSE 0)]
<1>4. SerialEncodeInt(i) = <<first>> \o rest
  BY <1>3 DEF SerialEncodeInt, RestBytes, Group
<1>5. first \in Nat
  BY <1>3, SMT
<1>6. rest \in Seq(Nat)
  <2>1. \A k \in 1..g : k \in 1..4 /\ Group(n, k) + (IF k < g THEN 128 ELSE 0) \in Nat
    BY <1>3, SMT
  <2>2. rest \in [1..g -> Nat] /\ g \in Nat
    BY <1>3, <2>1
  <2> HIDE DEF rest
  <2> QED
    BY <2>2
<1> HIDE DEF first, rest
<1>7. <<first>> \o rest \in Seq(Nat)
  BY <1>5, <1>6
<1>8. SerialEncodeInt(i) \in Seq(Bytes)
  <2>1. Nat \subseteq Bytes
    BY DEF Bytes
  <2>2. SerialEncodeInt(i) \in Seq(Nat)
    BY <1>4, <1>7
  <2> HIDE DEF Bytes
  <2> QED
    BY <2>1, <2>2
<1> QED
  BY <1>2, <1>3, <1>8

(* What is needed of the greatest int32_t.                                 *)
LEMMA MostIs == Most \in Nat /\ Most < 2147483648 /\ -2147483648 < -Most
  BY SMT DEF Most

(* What is needed of an integer that is serialised.                        *)
LEMMA Int32Is == \A i \in Int32s : i \in Int /\ HasAbs(i)
<1>1. \A i \in -Most..Most : i \in Int /\ -Most <= i /\ i <= Most
  BY MostIs
<1>2. \A i \in -Most..Most : -2147483648 < i /\ i < 2147483648
  BY <1>1, MostIs, SMT
<1> QED
  BY <1>1, <1>2, SMT DEF Int32s, HasAbs

(* A length is such an integer.                                            *)
LEMMA LengthIs == 0..Most \subseteq Int32s \cap Nat
  BY MostIs, SMT DEF Int32s

(* Wherever an integer lies, it is read, and all of it.                    *)
LEMMA IntReads ==
    ASSUME NEW i \in Int32s, NEW buf, NEW at \in Nat, Lies(buf, at, SerialEncodeInt(i))
    PROVE  SerialDecodeInt(buf, at) = [val |-> i, next |-> at + Len(SerialEncodeInt(i))]
<1>1. i \in Int /\ HasAbs(i)
  BY Int32Is
<1> QED
  BY <1>1, IntegersReturn DEF Lies

(* A string is as many bytes as it is long, and none if it is empty.       *)
LEMMA StringIs ==
    ASSUME NEW s \in Strings
    PROVE  \E name \in STRING, len \in Int32s \cap Nat :
              /\ s = Str(name, len) /\ s.name = name /\ s.len = len
              /\ len = 0 => name = ""
<1>1. s \in [type : {"str"}, name : STRING, len : 0..Most] /\ (s.len = 0 => s.name = "")
  BY DEF Strings
<1>2. 0..Most \subseteq Int32s \cap Nat
  BY LengthIs
<1>3. s.type = "str" /\ s.name \in STRING /\ s.len \in 0..Most
  BY <1>1
<1>4. s = [type |-> "str", name |-> s.name, len |-> s.len]
  BY <1>1
<1> QED
  BY <1>1, <1>2, <1>3, <1>4 DEF Str

(* The bytes of a string.                                                  *)
LEMMA StringBytes == \A s \in Strings : SerialEncodeString(s) \in Seq(Bytes)
<1> TAKE s \in Strings
<1>1. PICK name \in STRING, len \in Int32s \cap Nat : s.name = name /\ s.len = len
  BY StringIs
<1> DEFINE code == SerialEncodeInt(len)
           body == [k \in 1..len |-> name]
<1>2. code \in Seq(Bytes)
  BY Int32Is, IntBytes
<1>3. body \in Seq(Bytes)
  <2>1. body \in [1..len -> Bytes] /\ len \in Nat
    BY DEF Bytes
  <2> HIDE DEF body
  <2> QED
    BY <2>1, FunSeq
<1>4. SerialEncodeString(s) = code \o body
  BY <1>1 DEF SerialEncodeString
<1> HIDE DEF code, body
<1> QED
  BY <1>2, <1>3, <1>4

(* Wherever a string lies, it is read, and all of it.                      *)
LEMMA StringReads ==
    ASSUME NEW s \in Strings, NEW buf, NEW at \in Nat, Lies(buf, at, SerialEncodeString(s))
    PROVE  SerialDecodeString(buf, at) = [val |-> s, next |-> at + Len(SerialEncodeString(s))]
<1>1. PICK name \in STRING, len \in Int32s \cap Nat :
         /\ s = Str(name, len) /\ s.name = name /\ s.len = len
         /\ len = 0 => name = ""
  BY StringIs
<1> DEFINE code == SerialEncodeInt(len)
           body == [k \in 1..len |-> name]
<1>2. code \in Seq(Bytes)
  BY Int32Is, IntBytes
<1>3. body \in Seq(Bytes) /\ Len(body) = len
  <2>1. body \in [1..len -> Bytes] /\ len \in Nat
    BY DEF Bytes
  <2> HIDE DEF body
  <2> QED
    BY <2>1, FunSeq
<1>4. SerialEncodeString(s) = code \o body
  BY <1>1 DEF SerialEncodeString
<1>5. 1 \in DOMAIN body => body[1] = name
  OBVIOUS
<1> HIDE DEF code, body
<1>6. Lies(buf, at, code) /\ Lies(buf, at + Len(code), body) /\ Len(code \o body) = Len(code) + Len(body)
  <2>1. Lies(buf, at, code \o body) /\ body \in Seq(Bytes)
    BY <1>3, <1>4
  <2> QED
    BY <1>2, <2>1, LiesSplit
<1>7. SerialDecodeInt(buf, at) = [val |-> len, next |-> at + Len(code)]
  BY <1>6, IntReads DEF code
<1>8. len # 0 => buf[at + Len(code)] = name
  <2>1. ASSUME len # 0 PROVE buf[at + Len(code)] = name
    <3>1. 1 \in 1..Len(body) /\ 1 \in DOMAIN body /\ at + Len(code) + 1 - 1 = at + Len(code)
      BY <1>2, <1>3, <2>1
    <3> QED
      BY <1>5, <1>6, <3>1 DEF Lies
  <2> QED
    BY <2>1
<1>9. SerialDecodeString(buf, at) = [val  |-> Str(IF len = 0 THEN "" ELSE buf[at + Len(code)], len),
                                     next |-> at + Len(code) + len]
  BY <1>7 DEF SerialDecodeString
<1>10. Str(IF len = 0 THEN "" ELSE buf[at + Len(code)], len) = s
  BY <1>1, <1>8, Zenon
<1>11. at + Len(code) + len = at + Len(code \o body)
  BY <1>2, <1>3, <1>6
<1> QED
  BY <1>4, <1>9, <1>10, <1>11

-----------------------------------------------------------------------------
(* Variables, one after the other.                                         *)

(* Where sequences lie one after the other, each lies where the one before *)
(* it ends.                                                                *)
LEMMA FlattenLies ==
    ASSUME NEW V, NEW ss \in Seq(Seq(V)), NEW buf, NEW at \in Nat, Lies(buf, at, FlattenSeq(ss))
    PROVE  \E p \in [0..Len(ss) -> Nat] :
              /\ p[0] = at /\ p[Len(ss)] = at + Len(FlattenSeq(ss))
              /\ \A i \in 1..Len(ss) : p[i] = p[i - 1] + Len(ss[i]) /\ Lies(buf, p[i - 1], ss[i])
<1> DEFINE L == Len(ss)
<1>1. L \in Nat /\ \A i \in 1..L : ss[i] \in Seq(V)
  OBVIOUS
<1>2. PICK g \in [0..L -> Seq(V)] :
         /\ FlattenSeq(ss) = g[L] /\ g[0] = <<>>
         /\ \A i \in 1..L : g[i] = g[i - 1] \o ss[i]
  BY FlattenFrom
<1> HIDE DEF L
<1> DEFINE T == {d \in Nat : d <= L => Lies(buf, at, g[L - d])}
<1>3. T = Nat
  <2>1. 0 \in T
    BY <1>1, <1>2
  <2>2. ASSUME NEW d \in T PROVE d + 1 \in T
    <3>1. CASE d + 1 <= L
      <4>1. L - d \in 1..L /\ L - (d + 1) = L - d - 1 /\ L - d - 1 \in 0..L
        BY <1>1, <3>1
      <4>2. Lies(buf, at, g[L - d - 1] \o ss[L - d])
        <5>1. d <= L
          BY <1>1, <3>1
        <5>2. Lies(buf, at, g[L - d])
          BY <5>1
        <5>3. g[L - d] = g[L - d - 1] \o ss[L - d]
          BY <1>2, <4>1
        <5> QED
          BY <5>2, <5>3, Zenon
      <4>3. g[L - d - 1] \in Seq(V) /\ ss[L - d] \in Seq(V)
        BY <1>1, <1>2, <4>1
      <4>4. Lies(buf, at, g[L - d - 1])
        BY <4>2, <4>3, LiesSplit
      <4> QED
        BY <4>1, <4>4
    <3>2. CASE ~(d + 1 <= L)
      BY <3>2
    <3> QED
      BY <3>1, <3>2
  <2> HIDE DEF T
  <2>3. T \in SUBSET Nat
    BY DEF T
  <2> QED
    BY <2>1, <2>2, <2>3, AllNumbers
<1>4. ASSUME NEW i \in 0..L PROVE Lies(buf, at, g[i])
  <2>1. L - i \in Nat /\ L - i <= L /\ L - (L - i) = i
    BY <1>1
  <2>2. L - i \in T
    BY <1>3, <2>1
  <2> QED
    BY <2>1, <2>2
<1> DEFINE p == [i \in 0..L |-> at + Len(g[i])]
<1>5. p \in [0..L -> Nat]
  BY <1>2
<1>6. p[0] = at /\ p[L] = at + Len(FlattenSeq(ss))
  <2>1. 0 \in 0..L /\ L \in 0..L /\ Len(g[0]) = 0
    BY <1>1, <1>2
  <2>2. p[0] = at + Len(g[0]) /\ p[L] = at + Len(g[L])
    BY <2>1
  <2> QED
    BY <1>2, <2>1, <2>2
<1>7. ASSUME NEW i \in 1..L PROVE p[i] = p[i - 1] + Len(ss[i]) /\ Lies(buf, p[i - 1], ss[i])
  <2>1. i \in 0..L /\ i - 1 \in 0..L /\ g[i - 1] \in Seq(V) /\ ss[i] \in Seq(V)
    BY <1>1, <1>2
  <2>2. p[i] = at + Len(g[i]) /\ p[i - 1] = at + Len(g[i - 1])
    BY <2>1
  <2>3. Lies(buf, at, g[i - 1] \o ss[i]) /\ g[i] = g[i - 1] \o ss[i]
    BY <1>2, <1>4, <2>1
  <2> HIDE DEF p
  <2>4. Lies(buf, at + Len(g[i - 1]), ss[i]) /\ Len(g[i]) = Len(g[i - 1]) + Len(ss[i])
    BY <2>1, <2>3, LiesSplit
  <2>5. Len(g[i - 1]) \in Nat /\ Len(ss[i]) \in Nat
    BY <2>1
  <2>6. p[i] = p[i - 1] + Len(ss[i])
    <3>1. \A x, y, z \in Nat : at + (x + y) = at + x + y
      OBVIOUS
    <3> QED
      BY <2>2, <2>4, <2>5, <3>1
  <2>7. Lies(buf, p[i - 1], ss[i])
    BY <2>2, <2>4, Zenon
  <2> QED
    BY <2>6, <2>7
<1> HIDE DEF p
<1> QED
  BY <1>2, <1>5, <1>6, <1>7 DEF L

(* Reading along places p, each where the last reading stopped.            *)
LEMMA SequelAlong ==
    ASSUME NEW W, NEW m \in Nat, NEW w \in [1..m -> W], NEW p \in [0..m -> Nat], NEW read,
           \A i \in 1..m : read[p[i - 1]] = [val |-> w[i], next |-> p[i]]
    PROVE  Sequel(p[0], m, read) = [val |-> w, next |-> p[m]]
<1>1. PICK f : /\ Sequel(p[0], m, read) = f[m] /\ f[0] = [val |-> <<>>, next |-> p[0]]
               /\ \A i \in 1..m : f[i] = ReadNext(f[i - 1], read)
  BY SequelIs
<1> DEFINE part(i) == [j \in 1..i |-> w[j]]
           T == {i \in Nat : i <= m => f[i] = [val |-> part(i), next |-> p[i]]}
<1>2. part(0) = <<>> /\ part(m) = w
  OBVIOUS
<1>3. ASSUME NEW i \in 1..m PROVE Append(part(i - 1), w[i]) = part(i)
  <2>1. i - 1 \in Nat /\ i \in Nat /\ \A j \in 1..i : w[j] \in W /\ (j \in 1..i - 1 \/ j = i)
    OBVIOUS
  <2>2. part(i - 1) \in [1..i - 1 -> W] /\ part(i) \in [1..i -> W]
    BY <2>1
  <2>3. part(i - 1) \in Seq(W) /\ part(i) \in Seq(W) /\ Len(part(i - 1)) = i - 1 /\ Len(part(i)) = i
    <3>1. i - 1 \in Nat /\ i \in Nat
      OBVIOUS
    <3> HIDE DEF part
    <3> QED
      BY <2>2, <3>1, FunSeq
  <2>4. \A j \in 1..i : part(i)[j] = w[j] /\ (j \in 1..i - 1 => part(i - 1)[j] = w[j])
    OBVIOUS
  <2> HIDE DEF part
  <2>5. Append(part(i - 1), w[i]) \in Seq(W) /\ Len(Append(part(i - 1), w[i])) = i
    BY <2>1, <2>3
  <2>6. \A j \in 1..i : Append(part(i - 1), w[i])[j] = w[j]
    BY <2>1, <2>3, <2>4
  <2> QED
    BY <2>3, <2>4, <2>5, <2>6, SameSeq
<1> HIDE DEF part
<1>4. 0 \in T
  BY <1>1, <1>2
<1>5. ASSUME NEW n \in T PROVE n + 1 \in T
  <2>1. CASE n + 1 <= m
    <3>1. n + 1 \in 1..m /\ (n + 1) - 1 = n
      <4>1. n \in Nat /\ m \in Nat
        OBVIOUS
      <4> HIDE DEF T
      <4> QED
        BY <2>1, <4>1
    <3>2. f[n] = [val |-> part(n), next |-> p[n]]
      BY <2>1
    <3>3. read[p[n]] = [val |-> w[n + 1], next |-> p[n + 1]]
      BY <3>1
    <3>4. f[n + 1] = ReadNext(f[n], read)
      BY <1>1, <3>1
    <3>5. f[n + 1] = [val |-> Append(part(n), w[n + 1]), next |-> p[n + 1]]
      <4>1. ReadNext(f[n], read) = [val  |-> Append(f[n].val, read[f[n].next].val),
                                next |-> read[f[n].next].next]
        BY DEF ReadNext
      <4>2. f[n].val = part(n) /\ f[n].next = p[n]
        BY <3>2
      <4>3. read[p[n]].val = w[n + 1] /\ read[p[n]].next = p[n + 1]
        BY <3>3
      <4> QED
        BY <3>4, <4>1, <4>2, <4>3
    <3>6. f[n + 1] = [val |-> part(n + 1), next |-> p[n + 1]]
      BY <1>3, <3>1, <3>5
    <3>7. n + 1 \in Nat
      OBVIOUS
    <3> QED
      BY <3>6, <3>7
  <2>2. CASE ~(n + 1 <= m)
    BY <2>2
  <2> QED
    BY <2>1, <2>2
<1>6. T = Nat
  <2> HIDE DEF T
  <2>1. T \in SUBSET Nat
    BY DEF T
  <2> QED
    BY <1>4, <1>5, <2>1, AllNumbers
<1>7. m \in T
  BY <1>6
<1> QED
  BY <1>1, <1>2, <1>7

(* The variables V are written as bits says, and read as turn says, which  *)
(* changes no type and no key.                                             *)
Written(V, bits) == \A v \in V : bits[v] \in Seq(Bytes) /\ bits[v] # <<>>
Reads(buf, V, bits, turn, read) ==
    /\ Written(V, bits)
    /\ \A v \in V : \A at \in Nat :
          Lies(buf, at, bits[v]) => read[at] = [val |-> turn[v], next |-> at + Len(bits[v])]
    /\ \A v \in V : turn[v].type = v.type /\ (v \in Keyed => turn[v] = v)

(* The bytes of a sequence of variables.                                   *)
LEMMA SequelBytes ==
    ASSUME NEW V, NEW bits, Written(V, bits), NEW vs \in Seq(V)
    PROVE  /\ [i \in DOMAIN vs |-> bits[vs[i]]] \in Seq(Seq(Bytes))
           /\ FlattenSeq([i \in DOMAIN vs |-> bits[vs[i]]]) \in Seq(Bytes)
<1> DEFINE ss == [i \in DOMAIN vs |-> bits[vs[i]]]
<1>1. \A i \in 1..Len(vs) : bits[vs[i]] \in Seq(Bytes)
  BY DEF Written
<1>2. ss \in [1..Len(vs) -> Seq(Bytes)] /\ Len(vs) \in Nat
  BY <1>1
<1> HIDE DEF ss
<1>3. ss \in Seq(Seq(Bytes))
  BY <1>2, FunSeq
<1> QED
  BY <1>3, FlattenValues DEF ss

(* Wherever a sequence of variables lies, each of them is read.            *)
LEMMA SequelReads ==
    ASSUME NEW buf, NEW V, NEW bits, NEW turn, NEW read, Reads(buf, V, bits, turn, read),
           NEW vs \in Seq(V), NEW at \in Nat,
           Lies(buf, at, FlattenSeq([i \in DOMAIN vs |-> bits[vs[i]]]))
    PROVE  Sequel(at, Len(vs), read) =
              [val  |-> [i \in DOMAIN vs |-> turn[vs[i]]],
               next |-> at + Len(FlattenSeq([i \in DOMAIN vs |-> bits[vs[i]]]))]
<1> DEFINE m == Len(vs)
           ss == [i \in DOMAIN vs |-> bits[vs[i]]]
           w == [i \in DOMAIN vs |-> turn[vs[i]]]
           W == {turn[v] : v \in V}
<1>1. m \in Nat /\ DOMAIN vs = 1..m /\ \A i \in 1..m : vs[i] \in V
  OBVIOUS
<1>2. \A i \in 1..m : ss[i] = bits[vs[i]] /\ w[i] = turn[vs[i]]
  BY <1>1
<1>3. ss \in Seq(Seq(Bytes)) /\ Len(ss) = m
  BY <1>1, SequelBytes DEF Reads
<1>4. w \in [1..m -> W]
  BY <1>1
<1>5. Lies(buf, at, FlattenSeq(ss))
  OBVIOUS
<1> HIDE DEF ss, w, W, m
<1>6. PICK p \in [0..m -> Nat] :
         /\ p[0] = at /\ p[m] = at + Len(FlattenSeq(ss))
         /\ \A i \in 1..m : p[i] = p[i - 1] + Len(ss[i]) /\ Lies(buf, p[i - 1], ss[i])
  <2>1. \E p \in [0..Len(ss) -> Nat] :
           /\ p[0] = at /\ p[Len(ss)] = at + Len(FlattenSeq(ss))
           /\ \A i \in 1..Len(ss) : p[i] = p[i - 1] + Len(ss[i]) /\ Lies(buf, p[i - 1], ss[i])
    BY <1>3, <1>5, FlattenLies
  <2> QED
    BY <1>3, <2>1
<1>7. \A i \in 1..m : read[p[i - 1]] = [val |-> w[i], next |-> p[i]]
  <2> TAKE i \in 1..m
  <2>1. i - 1 \in 0..m /\ p[i - 1] \in Nat
    BY <1>1
  <2>2. Lies(buf, p[i - 1], bits[vs[i]]) /\ p[i] = p[i - 1] + Len(bits[vs[i]])
    BY <1>2, <1>6
  <2>3. read[p[i - 1]] = [val |-> turn[vs[i]], next |-> p[i - 1] + Len(bits[vs[i]])]
    BY <1>1, <2>1, <2>2 DEF Reads
  <2> QED
    BY <1>2, <2>2, <2>3
<1>8. Sequel(p[0], m, read) = [val |-> w, next |-> p[m]]
  BY <1>1, <1>4, <1>7, SequelAlong
<1> QED
  BY <1>6, <1>8 DEF ss, w, m

-----------------------------------------------------------------------------
(* The pairs of a dic: a key and its value are two variables.              *)

(* The bytes of each pair.                                                 *)
PairBits(pairs, bits) == [i \in DOMAIN pairs |-> bits[pairs[i].key] \o bits[pairs[i].val]]

(* The bytes of a dic.                                                     *)
LEMMA PairsBytes ==
    ASSUME NEW V, NEW bits, Written(V, bits), NEW pairs \in DicsOver(V)
    PROVE  /\ Len(pairs) \in Int32s \cap Nat /\ DOMAIN pairs = 1..Len(pairs)
           /\ \A i \in 1..Len(pairs) : pairs[i].key \in V \cap Keyed /\ pairs[i].val \in V
           /\ PairBits(pairs, bits) \in [1..Len(pairs) -> Seq(Bytes)]
           /\ SerialEncodeInt(Len(pairs)) \in Seq(Bytes) /\ FlattenSeq(PairBits(pairs, bits)) \in Seq(Bytes)
           /\ DicSerialize(pairs, bits) = SerialEncodeInt(Len(pairs)) \o FlattenSeq(PairBits(pairs, bits))
           /\ DicSerialize(pairs, bits) \in Seq(Bytes)
<1> DEFINE ss == PairBits(pairs, bits)
<1>1. pairs \in Seq(PairsOver(V)) /\ Len(pairs) \in 0..Most
  BY DEF DicsOver, Counted
<1>2. Len(pairs) \in Int32s \cap Nat /\ DOMAIN pairs = 1..Len(pairs)
  BY <1>1, LengthIs
<1>3. ASSUME NEW i \in 1..Len(pairs) PROVE pairs[i].key \in V \cap Keyed /\ pairs[i].val \in V
  <2>1. pairs[i] \in PairsOver(V)
    BY <1>1
  <2> QED
    BY <2>1 DEF PairsOver
<1>4. ASSUME NEW i \in 1..Len(pairs) PROVE bits[pairs[i].key] \o bits[pairs[i].val] \in Seq(Bytes)
  <2>1. bits[pairs[i].key] \in Seq(Bytes) /\ bits[pairs[i].val] \in Seq(Bytes)
    BY <1>3 DEF Written
  <2> QED
    BY <2>1
<1>5. ss \in [1..Len(pairs) -> Seq(Bytes)]
  BY <1>2, <1>4 DEF PairBits
<1> HIDE DEF ss
<1>6. SerialEncodeInt(Len(pairs)) \in Seq(Bytes) /\ FlattenSeq(ss) \in Seq(Bytes)
  BY <1>2, <1>5, FunSeq, Int32Is, IntBytes, FlattenValues
<1>7. DicSerialize(pairs, bits) = SerialEncodeInt(Len(pairs)) \o FlattenSeq(ss)
  BY DEF DicSerialize, ss, PairBits
<1>8. DicSerialize(pairs, bits) \in Seq(Bytes)
  BY <1>6, <1>7
<1> QED
  BY <1>2, <1>3, <1>5, <1>6, <1>7, <1>8 DEF ss

(* A string is known by its type.                                          *)
LEMMA StringsType == \A s \in Strings : s.type = "str"
  BY DEF Strings

(* A key that a dic does not have comes first in it.                       *)
LEMMA InsertedFirst ==
    ASSUME NEW pairs, NEW key \in Keyed, NEW val,
           \A i \in DOMAIN pairs : ~DicKeyEquals(pairs[i].key, key)
    PROVE  DicInserted(pairs, key, val) = <<[key |-> key, val |-> val]>> \o pairs
<1>1. key.type \in Hashed
  <2>1. CASE key = Nil
    BY <2>1 DEF Hashed, Nil
  <2>2. CASE key \in [type : {"int"}, val : Int32s]
    <3>1. key.type = "int"
      BY <2>2
    <3> QED
      BY <3>1 DEF Hashed
  <2>3. CASE key \in Strings
    <3>1. key.type = "str"
      BY <2>3, StringsType
    <3> QED
      BY <3>1 DEF Hashed
  <2> QED
    BY <2>1, <2>2, <2>3 DEF Keyed
<1>2. {i \in DOMAIN pairs : DicKeyEquals(pairs[i].key, key)} = {}
  OBVIOUS
<1> QED
  BY <1>1, <1>2 DEF DicInserted

(* Of pairs of which no two have one key, a dic is made that has them      *)
(* turned round.                                                           *)
LEMMA DicOfPairs ==
    ASSUME NEW n \in Nat, NEW w,
           \A i \in 1..n : w[2 * i - 1] \in Keyed,
           \A i, j \in 1..n : DicKeyEquals(w[2 * i - 1], w[2 * j - 1]) => i = j
    PROVE  DicOf(w, n) = Reverse([i \in 1..n |-> [key |-> w[2 * i - 1], val |-> w[2 * i]]])
<1> DEFINE e == [i \in 1..n |-> [key |-> w[2 * i - 1], val |-> w[2 * i]]]
           E == {e[i] : i \in 1..n}
<1>1. /\ e \in [1..n -> E]
      /\ \A i \in 1..n : /\ e[i] = [key |-> w[2 * i - 1], val |-> w[2 * i]]
                         /\ e[i].key = w[2 * i - 1]
  OBVIOUS
<1> HIDE DEF e, E
<1>2. \A i \in 1..n : e[i].key \in Keyed
  BY <1>1
<1>3. \A i, j \in 1..n : DicKeyEquals(e[i].key, e[j].key) => i = j
  BY <1>1, Zenon
<1>4. PICK f : /\ DicOf(w, n) = f[n] /\ f[0] = <<>>
               /\ \A i \in 1..n : f[i] = DicInserted(f[i - 1], w[2 * i - 1], w[2 * i])
  BY DicOfIs
<1> DEFINE turned(i) == [j \in 1..i |-> e[(i - j) + 1]]
           T == {i \in Nat : i <= n => f[i] = turned(i)}
<1>5. turned(0) = <<>> /\ turned(n) = Reverse(e)
  <2>1. Len(e) = n
    BY <1>1, FunSeq
  <2> QED
    BY <2>1 DEF Reverse
<1>6. ASSUME NEW i \in 1..n
      PROVE  /\ DOMAIN turned(i - 1) = 1..i - 1
             /\ \A j \in 1..i - 1 : turned(i - 1)[j] = e[i - j] /\ i - j \in 1..n /\ i - j # i
             /\ <<e[i]>> \o turned(i - 1) = turned(i)
  <2>1. /\ DOMAIN turned(i - 1) = 1..i - 1
        /\ \A j \in 1..i - 1 : turned(i - 1)[j] = e[i - j] /\ i - j \in 1..n /\ i - j # i
    <3>1. \A j \in 1..i - 1 : (i - 1 - j) + 1 = i - j
      OBVIOUS
    <3> QED
      BY <3>1
  <2>2. turned(i - 1) \in [1..i - 1 -> E] /\ turned(i) \in [1..i -> E]
    <3>1. \A j \in 1..i : (i - j) + 1 \in 1..n
      OBVIOUS
    <3>2. \A j \in 1..i - 1 : (i - 1 - j) + 1 \in 1..n
      OBVIOUS
    <3> QED
      BY <1>1, <3>1, <3>2
  <2>3. i - 1 \in Nat /\ i \in Nat /\ e[i] \in E
    BY <1>1
  <2>4. /\ turned(i)[1] = e[i]
        /\ \A j \in 1..i : j # 1 => turned(i)[j] = turned(i - 1)[j - 1] /\ j - 1 \in 1..i - 1
    <3>1. 1 \in 1..i /\ (i - 1) + 1 = i
      OBVIOUS
    <3>2. \A j \in 1..i : j # 1 => j - 1 \in 1..i - 1 /\ (i - 1 - (j - 1)) + 1 = (i - j) + 1
      OBVIOUS
    <3> QED
      BY <3>1, <3>2
  <2> HIDE DEF turned
  <2>5. /\ turned(i - 1) \in Seq(E) /\ Len(turned(i - 1)) = i - 1
        /\ turned(i) \in Seq(E) /\ Len(turned(i)) = i
    BY <2>2, <2>3, FunSeq
  <2> DEFINE s == <<e[i]>> \o turned(i - 1)
  <2>6. s \in Seq(E) /\ Len(s) = i /\ s[1] = e[i]
        /\ \A j \in 1..i : j # 1 => s[j] = turned(i - 1)[j - 1]
    BY <2>3, <2>5
  <2> HIDE DEF s
  <2>7. \A j \in 1..i : s[j] = turned(i)[j]
    BY <2>4, <2>6
  <2>8. s = turned(i)
    BY <2>5, <2>6, <2>7, SameSeq
  <2> QED
    BY <2>1, <2>8 DEF s
<1>7. ASSUME NEW i \in 1..n
      PROVE  DicInserted(turned(i - 1), w[2 * i - 1], w[2 * i]) = turned(i)
  <2> HIDE DEF turned
  <2>1. /\ e[i].key = w[2 * i - 1] /\ e[i].key \in Keyed
        /\ <<e[i]>> = <<[key |-> w[2 * i - 1], val |-> w[2 * i]]>>
    BY <1>1, <1>2, <1>7
  <2>2. \A j \in DOMAIN turned(i - 1) : ~DicKeyEquals(turned(i - 1)[j].key, e[i].key)
    <3>1. ASSUME NEW j \in 1..i - 1, DicKeyEquals(turned(i - 1)[j].key, e[i].key) PROVE FALSE
      <4>1. turned(i - 1)[j] = e[i - j] /\ i - j \in 1..n /\ i - j # i
        BY <1>6
      <4>2. DicKeyEquals(e[i - j].key, e[i].key)
        BY <3>1, <4>1
      <4> QED
        BY <1>3, <4>1, <4>2, Zenon
    <3> QED
      BY <1>6, <3>1, Zenon
  <2>3. DicInserted(turned(i - 1), w[2 * i - 1], w[2 * i]) =
           <<[key |-> w[2 * i - 1], val |-> w[2 * i]]>> \o turned(i - 1)
    BY <2>1, <2>2, InsertedFirst
  <2> QED
    BY <1>6, <2>1, <2>3
<1> HIDE DEF turned
<1>8. 0 \in T
  BY <1>4, <1>5
<1>9. ASSUME NEW m \in T PROVE m + 1 \in T
  <2>1. m + 1 <= n => m + 1 \in 1..n /\ (m + 1) - 1 = m /\ m <= n
    <3>1. m \in Nat
      OBVIOUS
    <3> HIDE DEF T
    <3> QED
      BY <3>1
  <2>2. m + 1 <= n => f[m + 1] = turned(m + 1)
    <3>1. m <= n => f[m] = turned(m)
      OBVIOUS
    <3> HIDE DEF T
    <3> QED
      BY <1>4, <1>7, <2>1, <3>1
  <2>3. m + 1 \in Nat
    OBVIOUS
  <2> QED
    BY <2>2, <2>3
<1>10. T = Nat
  <2> HIDE DEF T
  <2>1. T \in SUBSET Nat
    BY DEF T
  <2> QED
    BY <1>8, <1>9, <2>1, AllNumbers
<1>11. n \in T
  BY <1>10
<1> QED
  BY <1>4, <1>5, <1>11 DEF e

(* Wherever a dic lies, its pairs are read, the last one first.            *)
LEMMA DicReads ==
    ASSUME NEW buf, NEW V, NEW bits, NEW turn, NEW read, Reads(buf, V, bits, turn, read),
           NEW pairs \in DicsOver(V), NEW at \in Nat,
           Lies(buf, at, DicSerialize(pairs, bits))
    PROVE  DicDeserialize(buf, at, read) =
              [val |-> MirrorPairs(pairs, turn), next |-> at + Len(DicSerialize(pairs, bits))]
<1> DEFINE n == Len(pairs)
           ss == PairBits(pairs, bits)
           code == SerialEncodeInt(n)
           W == {turn[v] : v \in V}
<1>1. Written(V, bits)
  BY DEF Reads
<1>2. /\ n \in Int32s \cap Nat /\ DOMAIN pairs = 1..n
      /\ ss \in Seq(Seq(Bytes)) /\ Len(ss) = n
      /\ code \in Seq(Bytes) /\ FlattenSeq(ss) \in Seq(Bytes)
      /\ DicSerialize(pairs, bits) = code \o FlattenSeq(ss)
  <2>1. n \in Int32s \cap Nat /\ DOMAIN pairs = 1..n
    BY <1>1, PairsBytes
  <2>2. ss \in [1..n -> Seq(Bytes)]
    BY <1>1, PairsBytes
  <2>3. code \in Seq(Bytes) /\ FlattenSeq(ss) \in Seq(Bytes)
    BY <1>1, PairsBytes
  <2>4. DicSerialize(pairs, bits) = code \o FlattenSeq(ss)
    BY <1>1, PairsBytes
  <2> HIDE DEF ss, n
  <2> QED
    BY <2>1, <2>2, <2>3, <2>4, FunSeq
<1>3. \A i \in 1..n : pairs[i].key \in V /\ pairs[i].key \in Keyed /\ pairs[i].val \in V
  BY <1>1, PairsBytes
<1>4. \A i \in 1..n : turn[pairs[i].key] \in W /\ turn[pairs[i].val] \in W
  BY <1>3
<1>5. \A i \in 1..n : ss[i] = bits[pairs[i].key] \o bits[pairs[i].val]
  BY <1>2 DEF PairBits
<1>6. MirrorPairs(pairs, turn) =
         Reverse([i \in 1..n |-> [key |-> turn[pairs[i].key], val |-> turn[pairs[i].val]]])
  BY <1>2 DEF MirrorPairs
<1> HIDE DEF n, ss, code, W
<1>7. \A i \in 1..n : bits[pairs[i].key] \in Seq(Bytes) /\ bits[pairs[i].val] \in Seq(Bytes)
  BY <1>3 DEF Reads, Written
<1>8. /\ Lies(buf, at, code) /\ Lies(buf, at + Len(code), FlattenSeq(ss))
      /\ Len(code \o FlattenSeq(ss)) = Len(code) + Len(FlattenSeq(ss))
  BY <1>2, LiesSplit
<1>9. SerialDecodeInt(buf, at) = [val |-> n, next |-> at + Len(code)] /\ Len(code) \in Nat
  BY <1>2, <1>8, IntReads DEF code
<1>10. PICK p \in [0..n -> Nat] :
         /\ p[0] = at + Len(code) /\ p[n] = at + Len(code) + Len(FlattenSeq(ss))
         /\ \A i \in 1..n : p[i] = p[i - 1] + Len(ss[i]) /\ Lies(buf, p[i - 1], ss[i])
  <2>1. at + Len(code) \in Nat
    BY <1>9
  <2>2. \E p \in [0..Len(ss) -> Nat] :
           /\ p[0] = at + Len(code) /\ p[Len(ss)] = at + Len(code) + Len(FlattenSeq(ss))
           /\ \A i \in 1..Len(ss) : p[i] = p[i - 1] + Len(ss[i]) /\ Lies(buf, p[i - 1], ss[i])
    BY <1>2, <1>8, <2>1, FlattenLies
  <2> QED
    BY <1>2, <2>2
(* Where each variable begins, and what it is: 2i - 1 is a key, 2i a value. *)
<1> DEFINE Half(j) == (j + 1) \div 2
           q == [j \in 0..2 * n |->
                   IF j % 2 = 0 THEN p[Half(j)] ELSE p[Half(j) - 1] + Len(bits[pairs[Half(j)].key])]
           w == [j \in 1..2 * n |->
                   IF j % 2 = 0 THEN turn[pairs[Half(j)].val] ELSE turn[pairs[Half(j)].key]]
<1>11. ASSUME NEW i \in 1..n
      PROVE  /\ 2 * i - 1 \in 1..2 * n /\ (2 * i - 1) % 2 = 1 /\ Half(2 * i - 1) = i
             /\ 2 * i \in 1..2 * n /\ (2 * i) % 2 = 0 /\ Half(2 * i) = i
  BY <1>2
<1>12. ASSUME NEW j \in 1..2 * n
      PROVE  \E i \in 1..n : j = 2 * i - 1 \/ j = 2 * i
  <2>1. Half(j) \in 1..n /\ (j = 2 * Half(j) - 1 \/ j = 2 * Half(j))
    BY <1>2
  <2> HIDE DEF Half
  <2> QED
    BY <2>1
<1>13. ASSUME NEW i \in 0..n
      PROVE  2 * i \in 0..2 * n /\ (2 * i) % 2 = 0 /\ Half(2 * i) = i
  BY <1>2
<1>14. ASSUME NEW j \in 0..2 * n
       PROVE  \/ \E i \in 0..n : j = 2 * i
              \/ \E i \in 1..n : j = 2 * i - 1
  <2>1. j \in 1..2 * n \/ j = 2 * 0
    BY <1>2
  <2>2. 0 \in 0..n /\ \A i \in 1..n : i \in 0..n
    BY <1>2
  <2> QED
    BY <1>12, <2>1, <2>2
<1>15. /\ \A i \in 0..n : q[2 * i] = p[i]
       /\ \A i \in 1..n : q[2 * i - 1] = p[i - 1] + Len(bits[pairs[i].key])
  <2>1. ASSUME NEW i \in 0..n PROVE q[2 * i] = p[i]
    BY <1>13
  <2>2. ASSUME NEW i \in 1..n PROVE q[2 * i - 1] = p[i - 1] + Len(bits[pairs[i].key])
    <3>1. 2 * i - 1 \in 0..2 * n /\ ~((2 * i - 1) % 2 = 0) /\ Half(2 * i - 1) = i
      BY <1>2, <1>11
    <3> QED
      BY <3>1
  <2> QED
    BY <2>1, <2>2
<1>16. \A i \in 1..n : w[2 * i - 1] = turn[pairs[i].key] /\ w[2 * i] = turn[pairs[i].val]
  <2> TAKE i \in 1..n
  <2>1. ~((2 * i - 1) % 2 = 0)
    BY <1>11
  <2> HIDE DEF Half
  <2> QED
    BY <1>11, <2>1
<1>17. q \in [0..2 * n -> Nat]
  <2>1. ASSUME NEW j \in 0..2 * n PROVE q[j] \in Nat
    <3>1. ASSUME NEW i \in 0..n, j = 2 * i PROVE q[j] \in Nat
      BY <1>15, <3>1
    <3>2. ASSUME NEW i \in 1..n, j = 2 * i - 1 PROVE q[j] \in Nat
      <4> HIDE DEF q, w
      <4>1. p[i - 1] \in Nat /\ Len(bits[pairs[i].key]) \in Nat
        <5>1. n \in Nat
          BY <1>2
        <5>2. i - 1 \in 0..n
          BY <5>1
        <5>3. p[i - 1] \in Nat
          BY <5>2
        <5>4. bits[pairs[i].key] \in Seq(Bytes)
          BY <1>7
        <5> QED
          BY <5>3, <5>4
      <4>2. q[j] = p[i - 1] + Len(bits[pairs[i].key])
        BY <1>15, <3>2
      <4> QED
        BY <4>1, <4>2
    <3> HIDE DEF q
    <3> QED
      BY <1>14, <3>1, <3>2
  <2>2. q = [j \in 0..2 * n |-> q[j]]
    OBVIOUS
  <2> HIDE DEF q
  <2> QED
    BY <2>1, <2>2
<1>18. w \in [1..2 * n -> W]
  <2>1. ASSUME NEW j \in 1..2 * n PROVE w[j] \in W
    <3> HIDE DEF w
    <3> QED
      BY <1>4, <1>12, <1>16
  <2>2. w = [j \in 1..2 * n |-> w[j]]
    OBVIOUS
  <2> HIDE DEF w
  <2> QED
    BY <2>1, <2>2
<1> HIDE DEF q, w, Half
<1>19. ASSUME NEW i \in 1..n
       PROVE  /\ read[q[2 * i - 1 - 1]] = [val |-> w[2 * i - 1], next |-> q[2 * i - 1]]
              /\ read[q[2 * i - 1]] = [val |-> w[2 * i], next |-> q[2 * i]]
  <2> DEFINE k == pairs[i].key
             v == pairs[i].val
  <2>1. 2 * i - 1 - 1 = 2 * (i - 1) /\ i - 1 \in 0..n /\ i \in 0..n /\ p[i - 1] \in Nat
    <3>1. i - 1 \in 0..n /\ i \in 0..n /\ 2 * i - 1 - 1 = 2 * (i - 1)
      BY <1>2
    <3> QED
      BY <3>1
  <2>2. k \in V /\ v \in V /\ bits[k] \in Seq(Bytes) /\ bits[v] \in Seq(Bytes)
    BY <1>3, <1>7
  <2> HIDE DEF k, v
  <2>3. /\ q[2 * i - 1 - 1] = p[i - 1] /\ q[2 * i - 1] = p[i - 1] + Len(bits[k]) /\ q[2 * i] = p[i]
        /\ w[2 * i - 1] = turn[k] /\ w[2 * i] = turn[v]
    BY <1>15, <1>16, <2>1 DEF k, v
  <2>4. Lies(buf, p[i - 1], bits[k] \o bits[v]) /\ p[i] = p[i - 1] + Len(bits[k] \o bits[v])
    <3>1. ss[i] = bits[k] \o bits[v]
      BY <1>5 DEF k, v
    <3>2. Lies(buf, p[i - 1], ss[i]) /\ p[i] = p[i - 1] + Len(ss[i])
      BY <1>10
    <3> QED
      BY <3>1, <3>2, Zenon
  <2>5. /\ Lies(buf, p[i - 1], bits[k]) /\ Lies(buf, p[i - 1] + Len(bits[k]), bits[v])
        /\ Len(bits[k] \o bits[v]) = Len(bits[k]) + Len(bits[v])
    BY <2>1, <2>2, <2>4, LiesSplit
  <2>6. p[i - 1] + Len(bits[k]) \in Nat
    BY <2>1, <2>2
  <2>7. read[p[i - 1]] = [val |-> turn[k], next |-> p[i - 1] + Len(bits[k])]
    BY <2>1, <2>2, <2>5 DEF Reads
  <2>8. read[p[i - 1] + Len(bits[k])] =
           [val |-> turn[v], next |-> p[i - 1] + Len(bits[k]) + Len(bits[v])]
    BY <2>2, <2>5, <2>6, Zenon DEF Reads
  <2>9. p[i - 1] + Len(bits[k]) + Len(bits[v]) = p[i]
    <3>1. Len(bits[k]) \in Nat /\ Len(bits[v]) \in Nat
      BY <2>2
    <3>2. \A x, y, z \in Nat : x + y + z = x + (y + z)
      OBVIOUS
    <3>3. p[i - 1] + Len(bits[k]) + Len(bits[v]) = p[i - 1] + (Len(bits[k]) + Len(bits[v]))
      BY <2>1, <3>1, <3>2, Zenon
    <3> QED
      BY <2>4, <2>5, <3>3, Zenon
  <2> QED
    BY <2>3, <2>7, <2>8, <2>9
<1>20. \A j \in 1..2 * n : read[q[j - 1]] = [val |-> w[j], next |-> q[j]]
  <2> TAKE j \in 1..2 * n
  <2>1. PICK i \in 1..n : j = 2 * i - 1 \/ j = 2 * i
    BY <1>12
  <2> QED
    BY <1>19, <2>1
<1>21. Sequel(q[0], 2 * n, read) = [val |-> w, next |-> q[2 * n]]
  <2> DEFINE m == 2 * n
  <2>1. m \in Nat /\ q \in [0..m -> Nat] /\ w \in [1..m -> W]
    BY <1>2, <1>17, <1>18
  <2>2. \A j \in 1..m : read[q[j - 1]] = [val |-> w[j], next |-> q[j]]
    BY <1>20
  <2> HIDE DEF m
  <2>3. Sequel(q[0], m, read) = [val |-> w, next |-> q[m]]
    BY <2>1, <2>2, SequelAlong
  <2> QED
    BY <2>3 DEF m
<1>22. q[0] = at + Len(code) /\ q[2 * n] = at + Len(code) + Len(FlattenSeq(ss))
  <2>1. 0 \in 0..n /\ n \in 0..n /\ 2 * 0 = 0
    BY <1>2
  <2> QED
    BY <1>10, <1>15, <2>1
<1>23. Sequel(at + Len(code), 2 * n, read) =
          [val |-> w, next |-> at + Len(code) + Len(FlattenSeq(ss))]
  BY <1>21, <1>22
<1>24. DicDeserialize(buf, at, read) =
          [val |-> DicOf(w, n), next |-> at + Len(code) + Len(FlattenSeq(ss))]
  <2> DEFINE Made(len, both) == [both EXCEPT !.val = DicOf(@, len)]
             d == SerialDecodeInt(buf, at)
  <2>1. DicDeserialize(buf, at, read) = Made(d.val, Sequel(d.next, 2 * d.val, read))
    BY DEF DicDeserialize
  <2>2. d.val = n /\ d.next = at + Len(code)
    BY <1>9
  <2> HIDE DEF Made, d
  <2>3. DicDeserialize(buf, at, read) =
           Made(n, [val |-> w, next |-> at + Len(code) + Len(FlattenSeq(ss))])
    BY <1>23, <2>1, <2>2
  <2> QED
    BY <2>3 DEF Made
<1>25. DicOf(w, n) = Reverse([i \in 1..n |-> [key |-> turn[pairs[i].key], val |-> turn[pairs[i].val]]])
  <2>1. \A i \in 1..n : w[2 * i - 1] = pairs[i].key
    BY <1>3, <1>16 DEF Reads
  <2>2. \A i \in 1..n : w[2 * i - 1] \in Keyed
    BY <1>3, <2>1
  <2>3. \A i, j \in 1..n : DicKeyEquals(pairs[i].key, pairs[j].key) => i = j
    BY <1>2 DEF DicsOver
  <2>4. \A i, j \in 1..n : DicKeyEquals(w[2 * i - 1], w[2 * j - 1]) => i = j
    BY <2>1, <2>3, Zenon
  <2>5. n \in Nat
    BY <1>2
  <2>6. DicOf(w, n) = Reverse([i \in 1..n |-> [key |-> w[2 * i - 1], val |-> w[2 * i]]])
    BY <2>2, <2>4, <2>5, DicOfPairs
  <2>7. [i \in 1..n |-> [key |-> w[2 * i - 1], val |-> w[2 * i]]] =
        [i \in 1..n |-> [key |-> turn[pairs[i].key], val |-> turn[pairs[i].val]]]
    BY <1>16
  <2> QED
    BY <2>6, <2>7, Zenon
<1>26. at + Len(code) + Len(FlattenSeq(ss)) = at + Len(DicSerialize(pairs, bits))
  <2>1. Len(code) \in Nat /\ Len(FlattenSeq(ss)) \in Nat
    BY <1>2
  <2> QED
    BY <1>2, <1>8, <2>1
<1> QED
  BY <1>6, <1>24, <1>25, <1>26

-----------------------------------------------------------------------------
(* A variable, if its parts are in V.                                      *)

(* What a variable can be.                                                 *)
LEMMA KindsAre ==
    ASSUME NEW V, NEW v \in Composed(V)
    PROVE  \/ v = Nil
           \/ \E i \in Int32s : v = Int32(i)
           \/ \E b \in BOOLEAN : v = Bool(b)
           \/ v \in Strings
           \/ \E key \in V, val \in V : v = Kvp(key, val)
           \/ \E body \in Strings, pairs \in DicsOver(V) : v = Fnc(body, pairs)
           \/ \E elements \in Counted(V), pairs \in DicsOver(V) : v = Lst(elements, pairs)
<1>1. CASE v \in [type : {"int"}, val : Int32s]
  <2>1. v.val \in Int32s /\ v = Int32(v.val)
    BY <1>1 DEF Int32
  <2> QED
    BY <2>1
<1>2. CASE v \in [type : {"bool"}, boolean : BOOLEAN]
  <2>1. v.boolean \in BOOLEAN /\ v = Bool(v.boolean)
    BY <1>2 DEF Bool
  <2> QED
    BY <2>1
<1>3. CASE v \in Kvps(V)
  <2>1. v.key \in V /\ v.val \in V /\ v = Kvp(v.key, v.val)
    BY <1>3 DEF Kvps, Kvp
  <2> QED
    BY <2>1
<1>4. CASE v \in Fncs(V)
  <2>1. v.body \in Strings /\ v.pairs \in DicsOver(V) /\ v = Fnc(v.body, v.pairs)
    BY <1>4 DEF Fncs, Fnc
  <2> QED
    BY <2>1
<1>5. CASE v \in Lsts(V)
  <2>1. v.elements \in Counted(V) /\ v.pairs \in DicsOver(V) /\ v = Lst(v.elements, v.pairs)
    BY <1>5 DEF Lsts, Lst
  <2> QED
    BY <2>1
<1> QED
  BY <1>1, <1>2, <1>3, <1>4, <1>5 DEF Composed, Simple

(* The type, and what follows it.                                          *)
LEMMA SerializeIs ==
    ASSUME NEW bits
    PROVE  /\ Serialize(Nil, bits) = SerialEncodeInt(0) \o <<>>
           /\ \A i : Serialize(Int32(i), bits) = SerialEncodeInt(1) \o SerialEncodeInt(i)
           /\ \A b : Serialize(Bool(b), bits) =
                        SerialEncodeInt(10) \o SerialEncodeInt(IF b THEN 1 ELSE 0)
           /\ \A s \in Strings : Serialize(s, bits) = SerialEncodeInt(3) \o SerialEncodeString(s)
           /\ \A body, pairs : Serialize(Fnc(body, pairs), bits) =
                  SerialEncodeInt(4) \o (SerialEncodeString(body) \o DicSerialize(pairs, bits))
           /\ \A elements, pairs : Serialize(Lst(elements, pairs), bits) =
                  SerialEncodeInt(5) \o
                      (SerialEncodeInt(Len(elements)) \o
                       FlattenSeq([i \in DOMAIN elements |-> bits[elements[i]]]) \o
                       DicSerialize(pairs, bits))
           /\ \A key, val : Serialize(Kvp(key, val), bits) =
                  SerialEncodeInt(6) \o (bits[key] \o bits[val])
<1>1. Serialize(Nil, bits) = SerialEncodeInt(0) \o <<>>
  BY DEF Serialize, VarType, Nil
<1>2. ASSUME NEW i PROVE Serialize(Int32(i), bits) = SerialEncodeInt(1) \o SerialEncodeInt(i)
  BY DEF Serialize, VarType, Int32
<1>3. ASSUME NEW b
      PROVE  Serialize(Bool(b), bits) = SerialEncodeInt(10) \o SerialEncodeInt(IF b THEN 1 ELSE 0)
  BY DEF Serialize, VarType, Bool
<1>4. ASSUME NEW s \in Strings PROVE Serialize(s, bits) = SerialEncodeInt(3) \o SerialEncodeString(s)
  <2>1. s.type = "str"
    BY StringsType
  <2> QED
    BY <2>1 DEF Serialize, VarType
<1>5. ASSUME NEW body, NEW pairs
      PROVE  Serialize(Fnc(body, pairs), bits) =
                 SerialEncodeInt(4) \o (SerialEncodeString(body) \o DicSerialize(pairs, bits))
  BY DEF Serialize, VarType, Fnc
<1>6. ASSUME NEW elements, NEW pairs
      PROVE  Serialize(Lst(elements, pairs), bits) =
                 SerialEncodeInt(5) \o
                     (SerialEncodeInt(Len(elements)) \o
                      FlattenSeq([i \in DOMAIN elements |-> bits[elements[i]]]) \o
                      DicSerialize(pairs, bits))
  BY DEF Serialize, VarType, Lst
<1>7. ASSUME NEW key, NEW val
      PROVE  Serialize(Kvp(key, val), bits) = SerialEncodeInt(6) \o (bits[key] \o bits[val])
  BY DEF Serialize, VarType, Kvp
<1> QED
  BY <1>1, <1>2, <1>3, <1>4, <1>5, <1>6, <1>7

(* The type comes first, and what follows it begins where it ends.         *)
LEMMA TypeReads ==
    ASSUME NEW n \in 0..10, NEW rest \in Seq(Bytes)
    PROVE  /\ SerialEncodeInt(n) \o rest \in Seq(Bytes) /\ SerialEncodeInt(n) \o rest # <<>>
           /\ \A buf : \A at \in Nat :
                 Lies(buf, at, SerialEncodeInt(n) \o rest) =>
                    LET next == at + Len(SerialEncodeInt(n))
                    IN  /\ SerialDecodeInt(buf, at) = [val |-> n, next |-> next]
                        /\ next \in Nat /\ Lies(buf, next, rest)
                        /\ next + Len(rest) = at + Len(SerialEncodeInt(n) \o rest)
<1> DEFINE code == SerialEncodeInt(n)
<1>1. n \in Int32s
  <2>1. -Most <= n /\ n <= Most
    BY SMT DEF Most
  <2> QED
    BY <2>1, MostIs DEF Int32s
<1>2. code \in Seq(Bytes) /\ Len(code) > 0 /\ Len(code) \in Nat
  BY <1>1, Int32Is, IntBytes
<1> HIDE DEF code
<1>3. code \o rest \in Seq(Bytes) /\ code \o rest # <<>>
  BY <1>2
<1>4. ASSUME NEW buf, NEW at \in Nat, Lies(buf, at, code \o rest)
      PROVE  /\ SerialDecodeInt(buf, at) = [val |-> n, next |-> at + Len(code)]
             /\ at + Len(code) \in Nat /\ Lies(buf, at + Len(code), rest)
             /\ at + Len(code) + Len(rest) = at + Len(code \o rest)
  <2>1. Lies(buf, at, code) /\ Lies(buf, at + Len(code), rest) /\ Len(code \o rest) = Len(code) + Len(rest)
    BY <1>2, <1>4, LiesSplit
  <2>2. SerialDecodeInt(buf, at) = [val |-> n, next |-> at + Len(code)]
    BY <1>1, <2>1, IntReads DEF code
  <2>3. Len(rest) \in Nat
    OBVIOUS
  <2> QED
    BY <1>2, <2>1, <2>2, <2>3
<1> QED
  BY <1>3, <1>4 DEF code

(* The bytes of a variable, if its parts have bytes.                       *)
LEMMA LevelBytes ==
    ASSUME NEW V, NEW bits, Written(V, bits), NEW v \in Composed(V)
    PROVE  Serialize(v, bits) \in Seq(Bytes) /\ Serialize(v, bits) # <<>>
<1>1. ASSUME NEW t \in 0..10, NEW rest \in Seq(Bytes), Serialize(v, bits) = SerialEncodeInt(t) \o rest
      PROVE  Serialize(v, bits) \in Seq(Bytes) /\ Serialize(v, bits) # <<>>
  BY <1>1, TypeReads
<1>2. {0, 1, 3, 4, 5, 6, 10} \subseteq 0..10
  OBVIOUS
<1>3. CASE v = Nil
  <2>1. Serialize(v, bits) = SerialEncodeInt(0) \o <<>>
    BY <1>3, SerializeIs, Zenon
  <2>2. <<>> \in Seq(Bytes) /\ 0 \in 0..10
    BY <1>2
  <2> QED
    BY <1>1, <2>1, <2>2, Zenon
<1>4. ASSUME NEW i \in Int32s, v = Int32(i)
      PROVE  Serialize(v, bits) \in Seq(Bytes) /\ Serialize(v, bits) # <<>>
  <2>1. Serialize(v, bits) = SerialEncodeInt(1) \o SerialEncodeInt(i) /\ 1 \in 0..10
    BY <1>2, <1>4, SerializeIs
  <2>2. SerialEncodeInt(i) \in Seq(Bytes)
    BY Int32Is, IntBytes
  <2> QED
    BY <1>1, <2>1, <2>2, Zenon
<1>5. ASSUME NEW b \in BOOLEAN, v = Bool(b)
      PROVE  Serialize(v, bits) \in Seq(Bytes) /\ Serialize(v, bits) # <<>>
  <2>1. /\ Serialize(v, bits) = SerialEncodeInt(10) \o SerialEncodeInt(IF b THEN 1 ELSE 0)
        /\ 10 \in 0..10
    BY <1>2, <1>5, SerializeIs
  <2>2. SerialEncodeInt(IF b THEN 1 ELSE 0) \in Seq(Bytes)
    <3>1. HasAbs(0) /\ HasAbs(1)
      BY SMT DEF HasAbs
    <3> QED
      BY <3>1, IntBytes
  <2> QED
    BY <1>1, <2>1, <2>2, Zenon
<1>6. CASE v \in Strings
  <2>1. Serialize(v, bits) = SerialEncodeInt(3) \o SerialEncodeString(v) /\ 3 \in 0..10
    BY <1>2, <1>6, SerializeIs
  <2>2. SerialEncodeString(v) \in Seq(Bytes)
    BY <1>6, StringBytes
  <2> QED
    BY <1>1, <2>1, <2>2, Zenon
<1>7. ASSUME NEW key \in V, NEW val \in V, v = Kvp(key, val)
      PROVE  Serialize(v, bits) \in Seq(Bytes) /\ Serialize(v, bits) # <<>>
  <2>1. Serialize(v, bits) = SerialEncodeInt(6) \o (bits[key] \o bits[val]) /\ 6 \in 0..10
    BY <1>2, <1>7, SerializeIs
  <2>2. bits[key] \in Seq(Bytes) /\ bits[val] \in Seq(Bytes)
    BY DEF Written
  <2>3. bits[key] \o bits[val] \in Seq(Bytes)
    BY <2>2
  <2> QED
    BY <1>1, <2>1, <2>3, Zenon
<1>8. ASSUME NEW body \in Strings, NEW pairs \in DicsOver(V), v = Fnc(body, pairs)
      PROVE  Serialize(v, bits) \in Seq(Bytes) /\ Serialize(v, bits) # <<>>
  <2>1. /\ Serialize(v, bits) =
              SerialEncodeInt(4) \o (SerialEncodeString(body) \o DicSerialize(pairs, bits))
        /\ 4 \in 0..10
    BY <1>2, <1>8, SerializeIs
  <2>2. SerialEncodeString(body) \in Seq(Bytes) /\ DicSerialize(pairs, bits) \in Seq(Bytes)
    BY StringBytes, PairsBytes
  <2>3. SerialEncodeString(body) \o DicSerialize(pairs, bits) \in Seq(Bytes)
    BY <2>2
  <2> QED
    BY <1>1, <2>1, <2>3, Zenon
<1>9. ASSUME NEW elements \in Counted(V), NEW pairs \in DicsOver(V), v = Lst(elements, pairs)
      PROVE  Serialize(v, bits) \in Seq(Bytes) /\ Serialize(v, bits) # <<>>
  <2> DEFINE code == SerialEncodeInt(Len(elements))
             each == FlattenSeq([i \in DOMAIN elements |-> bits[elements[i]]])
             dic == DicSerialize(pairs, bits)
  <2>1. Serialize(v, bits) = SerialEncodeInt(5) \o (code \o each \o dic) /\ 5 \in 0..10
    BY <1>2, <1>9, SerializeIs
  <2>2. code \in Seq(Bytes) /\ each \in Seq(Bytes) /\ dic \in Seq(Bytes)
    <3>1. elements \in Seq(V) /\ Len(elements) \in Int32s
      BY LengthIs DEF Counted
    <3>2. code \in Seq(Bytes)
      BY <3>1, Int32Is, IntBytes
    <3>3. each \in Seq(Bytes)
      BY <3>1, SequelBytes
    <3> QED
      BY <3>2, <3>3, PairsBytes
  <2> HIDE DEF code, each, dic
  <2>3. code \o each \o dic \in Seq(Bytes)
    BY <2>2
  <2> QED
    BY <1>1, <2>1, <2>3, Zenon
<1> QED
  BY <1>3, <1>4, <1>5, <1>6, <1>7, <1>8, <1>9, KindsAre

(* What Deserialize makes of its parts, for each type.                     *)
LEMMA DeserializeIs ==
    ASSUME NEW buf, NEW at, NEW read, NEW t, NEW next,
           SerialDecodeInt(buf, at) = [val |-> t, next |-> next]
    PROVE  /\ t = 0 => Deserialize(buf, at, read) = [val |-> Nil, next |-> next]
           /\ t = 1 => \A i, e : SerialDecodeInt(buf, next) = [val |-> i, next |-> e] =>
                          Deserialize(buf, at, read) = [val |-> Int32(i), next |-> e]
           /\ t = 10 => \A i, e : SerialDecodeInt(buf, next) = [val |-> i, next |-> e] =>
                           Deserialize(buf, at, read) = [val |-> Bool(i # 0), next |-> e]
           /\ t = 3 => Deserialize(buf, at, read) = SerialDecodeString(buf, next)
           /\ t = 4 => \A s, d, pairs, e :
                          /\ SerialDecodeString(buf, next) = [val |-> s, next |-> d]
                          /\ DicDeserialize(buf, d, read) = [val |-> pairs, next |-> e]
                          => Deserialize(buf, at, read) = [val |-> Fnc(s, pairs), next |-> e]
           /\ t = 5 => \A n, c, elements, d, pairs, e :
                          /\ SerialDecodeInt(buf, next) = [val |-> n, next |-> c]
                          /\ Sequel(c, n, read) = [val |-> elements, next |-> d]
                          /\ DicDeserialize(buf, d, read) = [val |-> pairs, next |-> e]
                          => Deserialize(buf, at, read) =
                                 [val |-> Lst(VariableNewList(elements), pairs), next |-> e]
           /\ t = 6 => \A both, e : Sequel(next, 2, read) = [val |-> both, next |-> e] =>
                          Deserialize(buf, at, read) = [val |-> Kvp(both[1], both[2]), next |-> e]
<1>1. t = 0 => Deserialize(buf, at, read) = [val |-> Nil, next |-> next]
  BY DEF Deserialize
<1>2. t = 1 => \A i, e : SerialDecodeInt(buf, next) = [val |-> i, next |-> e] =>
                  Deserialize(buf, at, read) = [val |-> Int32(i), next |-> e]
  BY DEF Deserialize
<1>3. t = 10 => \A i, e : SerialDecodeInt(buf, next) = [val |-> i, next |-> e] =>
                   Deserialize(buf, at, read) = [val |-> Bool(i # 0), next |-> e]
  BY DEF Deserialize
<1>4. t = 3 => Deserialize(buf, at, read) = SerialDecodeString(buf, next)
  BY DEF Deserialize
<1>5. t = 4 => \A s, d, pairs, e :
                  /\ SerialDecodeString(buf, next) = [val |-> s, next |-> d]
                  /\ DicDeserialize(buf, d, read) = [val |-> pairs, next |-> e]
                  => Deserialize(buf, at, read) = [val |-> Fnc(s, pairs), next |-> e]
  BY DEF Deserialize
<1>6. t = 5 => \A n, c, elements, d, pairs, e :
                  /\ SerialDecodeInt(buf, next) = [val |-> n, next |-> c]
                  /\ Sequel(c, n, read) = [val |-> elements, next |-> d]
                  /\ DicDeserialize(buf, d, read) = [val |-> pairs, next |-> e]
                  => Deserialize(buf, at, read) =
                                 [val |-> Lst(VariableNewList(elements), pairs), next |-> e]
  BY DEF Deserialize
<1>7. t = 6 => \A both, e : Sequel(next, 2, read) = [val |-> both, next |-> e] =>
                  Deserialize(buf, at, read) = [val |-> Kvp(both[1], both[2]), next |-> e]
  BY DEF Deserialize
<1> QED
  BY <1>1, <1>2, <1>3, <1>4, <1>5, <1>6, <1>7

(* Two variables, one after the other.                                     *)
LEMMA BothRead ==
    ASSUME NEW read, NEW x, NEW y, NEW at \in Nat, NEW d \in Nat, NEW e \in Nat,
           read[at] = [val |-> x, next |-> d], read[d] = [val |-> y, next |-> e]
    PROVE  Sequel(at, 2, read) = [val |-> <<x, y>>, next |-> e]
<1> DEFINE w == <<x, y>>
           W == {x, y}
           p == [i \in 0..2 |-> IF i = 0 THEN at ELSE IF i = 1 THEN d ELSE e]
<1>1. p \in [0..2 -> Nat] /\ p[0] = at /\ p[1] = d /\ p[2] = e
  OBVIOUS
<1>2. w \in [1..2 -> W] /\ w[1] = x /\ w[2] = y
  OBVIOUS
<1> HIDE DEF p, w, W
<1>3. \A i \in 1..2 : read[p[i - 1]] = [val |-> w[i], next |-> p[i]]
  <2>1. read[p[0]] = [val |-> w[1], next |-> p[1]] /\ read[p[1]] = [val |-> w[2], next |-> p[2]]
    BY <1>1, <1>2
  <2>2. \A i \in 1..2 : (i = 1 /\ i - 1 = 0) \/ (i = 2 /\ i - 1 = 1)
    OBVIOUS
  <2> QED
    BY <2>1, <2>2
<1>4. Sequel(p[0], 2, read) = [val |-> w, next |-> p[2]]
  <2> DEFINE m == 2
  <2>1. m \in Nat /\ p \in [0..m -> Nat] /\ w \in [1..m -> W]
    BY <1>1, <1>2
  <2>2. \A i \in 1..m : read[p[i - 1]] = [val |-> w[i], next |-> p[i]]
    BY <1>3
  <2> HIDE DEF m
  <2>3. Sequel(p[0], m, read) = [val |-> w, next |-> p[m]]
    BY <2>1, <2>2, SequelAlong
  <2> QED
    BY <2>3 DEF m
<1> QED
  BY <1>1, <1>4 DEF w

(* What a variable is when it has been read.                               *)
LEMMA MirrorIs ==
    ASSUME NEW turn
    PROVE  /\ Mirror(Nil, turn) = Nil
           /\ \A i : Mirror(Int32(i), turn) = Int32(i)
           /\ \A b : Mirror(Bool(b), turn) = Bool(b)
           /\ \A s \in Strings : Mirror(s, turn) = s
           /\ \A body, pairs : Mirror(Fnc(body, pairs), turn) = Fnc(body, MirrorPairs(pairs, turn))
           /\ \A elements, pairs : Mirror(Lst(elements, pairs), turn) =
                  Lst(FlattenSeq([i \in DOMAIN elements |->
                                    IF elements[i].type = "kvp" THEN <<>> ELSE <<turn[elements[i]]>>]),
                      MirrorPairs(pairs, turn))
           /\ \A key, val : Mirror(Kvp(key, val), turn) = Kvp(turn[key], turn[val])
<1>1. Mirror(Nil, turn) = Nil
  BY DEF Mirror, Nil
<1>2. ASSUME NEW i PROVE Mirror(Int32(i), turn) = Int32(i)
  BY DEF Mirror, Int32
<1>3. ASSUME NEW b PROVE Mirror(Bool(b), turn) = Bool(b)
  BY DEF Mirror, Bool
<1>4. ASSUME NEW s \in Strings PROVE Mirror(s, turn) = s
  <2>1. s.type = "str"
    BY StringsType
  <2> QED
    BY <2>1 DEF Mirror
<1>5. ASSUME NEW body, NEW pairs
      PROVE  Mirror(Fnc(body, pairs), turn) = Fnc(body, MirrorPairs(pairs, turn))
  BY DEF Mirror, Fnc
<1>6. ASSUME NEW elements, NEW pairs
      PROVE  Mirror(Lst(elements, pairs), turn) =
                 Lst(FlattenSeq([i \in DOMAIN elements |->
                                   IF elements[i].type = "kvp" THEN <<>> ELSE <<turn[elements[i]]>>]),
                     MirrorPairs(pairs, turn))
  BY DEF Mirror, Lst
<1>7. ASSUME NEW key, NEW val PROVE Mirror(Kvp(key, val), turn) = Kvp(turn[key], turn[val])
  BY DEF Mirror, Kvp
<1> QED
  BY <1>1, <1>2, <1>3, <1>4, <1>5, <1>6, <1>7

(* It has its type still, and a key has not changed.                       *)
LEMMA MirrorKeeps ==
    ASSUME NEW V, NEW v \in Composed(V), NEW turn
    PROVE  Mirror(v, turn).type = v.type /\ (v \in Keyed => Mirror(v, turn) = v)
<1>1. v \in Keyed => Mirror(v, turn) = v
  BY MirrorIs DEF Keyed, Int32
<1>2. Mirror(v, turn).type = v.type
  BY DEF Mirror, Kvp, Fnc, Lst
<1> QED
  BY <1>1, <1>2

(* Wherever a variable lies, it is read, if its parts are.                 *)
LEMMA LevelReads ==
    ASSUME NEW buf, NEW V, NEW bits, NEW turn, NEW read, Reads(buf, V, bits, turn, read),
           NEW v \in Composed(V), NEW at \in Nat, Lies(buf, at, Serialize(v, bits))
    PROVE  Deserialize(buf, at, read) =
              [val |-> Mirror(v, turn), next |-> at + Len(Serialize(v, bits))]
<1> DEFINE end == at + Len(Serialize(v, bits))
<1>1. Written(V, bits)
  BY DEF Reads
<1>2. ASSUME NEW t \in 0..10, NEW rest \in Seq(Bytes), Serialize(v, bits) = SerialEncodeInt(t) \o rest
      PROVE  \E next \in Nat : /\ SerialDecodeInt(buf, at) = [val |-> t, next |-> next]
                               /\ Lies(buf, next, rest) /\ next + Len(rest) = end
  <2>1. Lies(buf, at, SerialEncodeInt(t) \o rest) /\ end = at + Len(SerialEncodeInt(t) \o rest)
    BY <1>2
  <2> HIDE DEF end
  <2> DEFINE next == at + Len(SerialEncodeInt(t))
  <2>2. /\ SerialDecodeInt(buf, at) = [val |-> t, next |-> next]
        /\ next \in Nat /\ Lies(buf, next, rest)
        /\ next + Len(rest) = at + Len(SerialEncodeInt(t) \o rest)
    BY <2>1, TypeReads
  <2> HIDE DEF next
  <2> QED
    BY <2>1, <2>2, Zenon
<1>3. 0 \in 0..10 /\ 1 \in 0..10 /\ 3 \in 0..10 /\ 4 \in 0..10 /\ 5 \in 0..10 /\ 6 \in 0..10 /\ 10 \in 0..10
  OBVIOUS
<1> HIDE DEF end
<1>4. CASE v = Nil
  <2>1. Serialize(v, bits) = SerialEncodeInt(0) \o <<>> /\ Mirror(v, turn) = Nil
    BY <1>4, SerializeIs, MirrorIs, Zenon
  <2>2. <<>> \in Seq(Bytes) /\ Len(<<>>) = 0 /\ 0 \in 0..10
    BY <1>3
  <2>3. PICK next \in Nat : SerialDecodeInt(buf, at) = [val |-> 0, next |-> next] /\ next + Len(<<>>) = end
    BY <1>2, <2>1, <2>2, Zenon
  <2>4. next = end
    BY <2>2, <2>3
  <2> QED
    BY <2>1, <2>3, <2>4, DeserializeIs DEF end
<1>5. ASSUME NEW i \in Int32s, v = Int32(i)
      PROVE  Deserialize(buf, at, read) = [val |-> Mirror(v, turn), next |-> end]
  <2>1. /\ Serialize(v, bits) = SerialEncodeInt(1) \o SerialEncodeInt(i) /\ Mirror(v, turn) = v
        /\ 1 \in 0..10
    BY <1>3, <1>5, SerializeIs, MirrorIs, Zenon
  <2>2. SerialEncodeInt(i) \in Seq(Bytes)
    BY Int32Is, IntBytes
  <2>3. PICK next \in Nat :
           /\ SerialDecodeInt(buf, at) = [val |-> 1, next |-> next]
           /\ Lies(buf, next, SerialEncodeInt(i)) /\ next + Len(SerialEncodeInt(i)) = end
    BY <1>2, <2>1, <2>2, Zenon
  <2>4. SerialDecodeInt(buf, next) = [val |-> i, next |-> end]
    BY <2>3, IntReads
  <2> QED
    BY <1>5, <2>1, <2>3, <2>4, DeserializeIs
<1>6. ASSUME NEW b \in BOOLEAN, v = Bool(b)
      PROVE  Deserialize(buf, at, read) = [val |-> Mirror(v, turn), next |-> end]
  <2> DEFINE i == IF b THEN 1 ELSE 0
  <2>1. /\ Serialize(v, bits) = SerialEncodeInt(10) \o SerialEncodeInt(i) /\ Mirror(v, turn) = v
        /\ 10 \in 0..10
    BY <1>3, <1>6, SerializeIs, MirrorIs, Zenon
  <2>2. i \in Int32s /\ (i # 0) = b
    <3>1. -Most <= 0 /\ 1 <= Most
      BY SMT DEF Most
    <3> QED
      BY <3>1, MostIs DEF Int32s
  <2> HIDE DEF i
  <2>3. SerialEncodeInt(i) \in Seq(Bytes)
    BY <2>2, Int32Is, IntBytes
  <2>4. PICK next \in Nat :
           /\ SerialDecodeInt(buf, at) = [val |-> 10, next |-> next]
           /\ Lies(buf, next, SerialEncodeInt(i)) /\ next + Len(SerialEncodeInt(i)) = end
    BY <1>2, <2>1, <2>3, Zenon
  <2>5. SerialDecodeInt(buf, next) = [val |-> i, next |-> end]
    BY <2>2, <2>4, IntReads
  <2>6. Deserialize(buf, at, read) = [val |-> Bool(i # 0), next |-> end]
    BY <2>4, <2>5, DeserializeIs
  <2> QED
    BY <1>6, <2>1, <2>2, <2>6, Zenon
<1>7. CASE v \in Strings
  <2>1. /\ Serialize(v, bits) = SerialEncodeInt(3) \o SerialEncodeString(v) /\ Mirror(v, turn) = v
        /\ 3 \in 0..10
    BY <1>3, <1>7, SerializeIs, MirrorIs, Zenon
  <2>2. SerialEncodeString(v) \in Seq(Bytes)
    BY <1>7, StringBytes
  <2>3. PICK next \in Nat :
           /\ SerialDecodeInt(buf, at) = [val |-> 3, next |-> next]
           /\ Lies(buf, next, SerialEncodeString(v)) /\ next + Len(SerialEncodeString(v)) = end
    BY <1>2, <2>1, <2>2, Zenon
  <2>4. SerialDecodeString(buf, next) = [val |-> v, next |-> end]
    BY <1>7, <2>3, StringReads
  <2> QED
    BY <2>1, <2>3, <2>4, DeserializeIs DEF end
<1>8. ASSUME NEW key \in V, NEW val \in V, v = Kvp(key, val)
      PROVE  Deserialize(buf, at, read) = [val |-> Mirror(v, turn), next |-> end]
  <2>1. /\ Serialize(v, bits) = SerialEncodeInt(6) \o (bits[key] \o bits[val])
        /\ Mirror(v, turn) = Kvp(turn[key], turn[val]) /\ 6 \in 0..10
    <3>1. Serialize(Kvp(key, val), bits) = SerialEncodeInt(6) \o (bits[key] \o bits[val])
      <4>1. \A k, w : Serialize(Kvp(k, w), bits) = SerialEncodeInt(6) \o (bits[k] \o bits[w])
        BY SerializeIs
      <4> QED
        BY <4>1
    <3>2. Mirror(Kvp(key, val), turn) = Kvp(turn[key], turn[val])
      BY MirrorIs, Zenon
    <3> QED
      BY <1>3, <1>8, <3>1, <3>2, Zenon
  <2>2. bits[key] \o bits[val] \in Seq(Bytes)
    <3>1. bits[key] \in Seq(Bytes) /\ bits[val] \in Seq(Bytes)
      BY <1>1 DEF Written
    <3> QED
      BY <3>1
  <2>3. PICK next \in Nat :
           /\ SerialDecodeInt(buf, at) = [val |-> 6, next |-> next]
           /\ Lies(buf, next, bits[key] \o bits[val]) /\ next + Len(bits[key] \o bits[val]) = end
    BY <1>2, <2>1, <2>2, Zenon
  <2> DEFINE x == turn[key]
             y == turn[val]
             d == next + Len(bits[key])
  <2>4. bits[key] \in Seq(Bytes) /\ bits[val] \in Seq(Bytes)
    BY <1>1 DEF Written
  <2>5. /\ Lies(buf, next, bits[key]) /\ Lies(buf, d, bits[val])
        /\ Len(bits[key] \o bits[val]) = Len(bits[key]) + Len(bits[val])
    BY <2>3, <2>4, LiesSplit
  <2>6. d \in Nat /\ d + Len(bits[val]) = end /\ end \in Nat
    <3>1. Len(bits[key]) \in Nat /\ Len(bits[val]) \in Nat
      BY <2>4
    <3>2. next + (Len(bits[key]) + Len(bits[val])) = end
      BY <2>3, <2>5, Zenon
    <3> DEFINE a == Len(bits[key])
               b == Len(bits[val])
    <3>3. next \in Nat /\ a \in Nat /\ b \in Nat
      BY <2>3, <3>1
    <3>4. next + (a + b) = end
      BY <3>2
    <3> HIDE DEF a, b
    <3>5. next + a \in Nat /\ next + a + b = end /\ end \in Nat
      BY <3>3, <3>4
    <3> QED
      BY <3>5 DEF a, b
  <2>7. read[next] = [val |-> x, next |-> d]
    BY <2>3, <2>5, Zenon DEF Reads
  <2>8. read[d] = [val |-> y, next |-> end]
    <3>1. read[d] = [val |-> y, next |-> d + Len(bits[val])]
      BY <2>5, <2>6, Zenon DEF Reads
    <3> QED
      BY <2>6, <3>1, Zenon
  <2>9. Mirror(v, turn) = Kvp(x, y)
    BY <2>1
  <2> HIDE DEF x, y, d
  <2>10. Sequel(next, 2, read) = [val |-> <<x, y>>, next |-> end]
    BY <2>3, <2>6, <2>7, <2>8, BothRead
  <2> DEFINE both == <<x, y>>
  <2>11. both[1] = x /\ both[2] = y /\ Sequel(next, 2, read) = [val |-> both, next |-> end]
    BY <2>10
  <2> HIDE DEF both
  <2>12. Deserialize(buf, at, read) = [val |-> Kvp(both[1], both[2]), next |-> end]
    BY <2>3, <2>11, DeserializeIs
  <2> QED
    BY <2>9, <2>11, <2>12, Zenon
<1>9. ASSUME NEW body \in Strings, NEW pairs \in DicsOver(V), v = Fnc(body, pairs)
      PROVE  Deserialize(buf, at, read) = [val |-> Mirror(v, turn), next |-> end]
  <2> DEFINE str == SerialEncodeString(body)
             dic == DicSerialize(pairs, bits)
  <2>1. /\ Serialize(v, bits) = SerialEncodeInt(4) \o (str \o dic)
        /\ Mirror(v, turn) = Fnc(body, MirrorPairs(pairs, turn)) /\ 4 \in 0..10
    BY <1>3, <1>9, SerializeIs, MirrorIs, Zenon
  <2>2. str \in Seq(Bytes) /\ dic \in Seq(Bytes)
    BY <1>1, StringBytes, PairsBytes
  <2> HIDE DEF str, dic
  <2>3. str \o dic \in Seq(Bytes) /\ Len(str) \in Nat /\ Len(dic) \in Nat
    BY <2>2
  <2>4. PICK next \in Nat :
           /\ SerialDecodeInt(buf, at) = [val |-> 4, next |-> next]
           /\ Lies(buf, next, str \o dic) /\ next + Len(str \o dic) = end
    BY <1>2, <2>1, <2>3, Zenon
  <2>5. PICK d \in Nat : d = next + Len(str)
    BY <2>3
  <2>6. Lies(buf, next, str) /\ Lies(buf, d, dic) /\ d + Len(dic) = end
    <3>1. Lies(buf, next, str) /\ Lies(buf, next + Len(str), dic) /\ Len(str \o dic) = Len(str) + Len(dic)
      BY <2>2, <2>4, LiesSplit
    <3> QED
      BY <2>3, <2>4, <2>5, <3>1
  <2>7. SerialDecodeString(buf, next) = [val |-> body, next |-> d]
    BY <2>5, <2>6, StringReads DEF str
  <2>8. DicDeserialize(buf, d, read) = [val |-> MirrorPairs(pairs, turn), next |-> end]
    BY <2>6, DicReads DEF dic
  <2>9. Deserialize(buf, at, read) = [val |-> Fnc(body, MirrorPairs(pairs, turn)), next |-> end]
    BY <2>4, <2>7, <2>8, DeserializeIs
  <2> QED
    BY <2>1, <2>9, Zenon
<1>10. ASSUME NEW elements \in Counted(V), NEW pairs \in DicsOver(V), v = Lst(elements, pairs)
      PROVE  Deserialize(buf, at, read) = [val |-> Mirror(v, turn), next |-> end]
  <2> DEFINE code == SerialEncodeInt(Len(elements))
             each == FlattenSeq([i \in DOMAIN elements |-> bits[elements[i]]])
             dic == DicSerialize(pairs, bits)
             turned == [i \in DOMAIN elements |-> turn[elements[i]]]
             kept == FlattenSeq([i \in DOMAIN elements |->
                         IF elements[i].type = "kvp" THEN <<>> ELSE <<turn[elements[i]]>>])
  <2>1. /\ Serialize(v, bits) = SerialEncodeInt(5) \o (code \o each \o dic)
        /\ Mirror(v, turn) = Lst(kept, MirrorPairs(pairs, turn)) /\ 5 \in 0..10
    BY <1>3, <1>10, SerializeIs, MirrorIs, Zenon
  <2>2. elements \in Seq(V) /\ Len(elements) \in Int32s
    BY LengthIs DEF Counted
  <2>3. code \in Seq(Bytes) /\ each \in Seq(Bytes) /\ dic \in Seq(Bytes)
    <3>1. code \in Seq(Bytes)
      BY <2>2, Int32Is, IntBytes
    <3>2. each \in Seq(Bytes)
      BY <1>1, <2>2, SequelBytes
    <3> QED
      BY <1>1, <3>1, <3>2, PairsBytes
  <2>4. VariableNewList(turned) = kept
    <3>1. \A i \in DOMAIN elements : turn[elements[i]].type = elements[i].type
      BY <2>2 DEF Reads
    <3>2. DOMAIN turned = DOMAIN elements /\ \A i \in DOMAIN elements : turned[i] = turn[elements[i]]
      OBVIOUS
    <3> HIDE DEF turned
    <3>3. [i \in DOMAIN turned |-> IF turned[i].type = "kvp" THEN <<>> ELSE <<turned[i]>>] =
          [i \in DOMAIN elements |->
              IF elements[i].type = "kvp" THEN <<>> ELSE <<turn[elements[i]]>>]
      BY <3>1, <3>2
    <3> QED
      BY <3>3 DEF VariableNewList
  <2> HIDE DEF code, each, dic, turned, kept
  <2>5. /\ code \o each \in Seq(Bytes) /\ code \o each \o dic \in Seq(Bytes)
        /\ Len(code) \in Nat /\ Len(each) \in Nat /\ Len(dic) \in Nat
    BY <2>3
  <2>6. PICK next \in Nat :
           /\ SerialDecodeInt(buf, at) = [val |-> 5, next |-> next]
           /\ Lies(buf, next, code \o each \o dic) /\ next + Len(code \o each \o dic) = end
    BY <1>2, <2>1, <2>5, Zenon
  <2>7. PICK c \in Nat, d \in Nat : c = next + Len(code) /\ d = c + Len(each)
    BY <2>5
  <2>8. Lies(buf, next, code) /\ Lies(buf, c, each) /\ Lies(buf, d, dic) /\ d + Len(dic) = end
    <3>1. /\ Lies(buf, next, code \o each) /\ Lies(buf, next + Len(code \o each), dic)
          /\ Len(code \o each \o dic) = Len(code \o each) + Len(dic)
      BY <2>3, <2>5, <2>6, LiesSplit
    <3>2. /\ Lies(buf, next, code) /\ Lies(buf, next + Len(code), each)
          /\ Len(code \o each) = Len(code) + Len(each)
      BY <2>3, <3>1, LiesSplit
    <3> QED
      BY <2>5, <2>6, <2>7, <3>1, <3>2
  <2>9. SerialDecodeInt(buf, next) = [val |-> Len(elements), next |-> c]
    BY <2>2, <2>7, <2>8, IntReads DEF code
  <2>10. Sequel(c, Len(elements), read) = [val |-> turned, next |-> d]
    <3>1. Sequel(c, Len(elements), read) = [val |-> turned, next |-> c + Len(each)]
      BY <2>2, <2>8, SequelReads DEF each, turned
    <3> QED
      BY <2>7, <3>1, Zenon
  <2>11. DicDeserialize(buf, d, read) = [val |-> MirrorPairs(pairs, turn), next |-> end]
    BY <2>8, DicReads DEF dic
  <2>12. Deserialize(buf, at, read) =
            [val |-> Lst(VariableNewList(turned), MirrorPairs(pairs, turn)), next |-> end]
    BY <2>6, <2>9, <2>10, <2>11, DeserializeIs
  <2> QED
    BY <2>1, <2>4, <2>12, Zenon
<1> QED
  BY <1>4, <1>5, <1>6, <1>7, <1>8, <1>9, <1>10, KindsAre DEF end

(* What one level writes, the next can rely on: the step of the induction. *)
LEMMA LevelStep ==
    ASSUME NEW buf, NEW V, NEW bits, NEW turn, NEW read, Reads(buf, V, bits, turn, read),
           NEW wrote, NEW mirror, NEW level,
           wrote = [v \in Composed(V) |-> Serialize(v, bits)],
           mirror = [v \in Composed(V) |-> Mirror(v, turn)],
           level = [at \in DOMAIN buf |-> Deserialize(buf, at, read)]
    PROVE  Reads(buf, Composed(V), wrote, mirror, level)
<1>1. Written(V, bits)
  BY DEF Reads
<1>2. ASSUME NEW v \in Composed(V)
      PROVE  wrote[v] = Serialize(v, bits) /\ wrote[v] \in Seq(Bytes) /\ wrote[v] # <<>>
  <2>1. wrote[v] = Serialize(v, bits)
    BY <1>2
  <2> QED
    BY <1>1, <2>1, LevelBytes, Zenon
<1>3. ASSUME NEW v \in Composed(V), NEW at \in Nat, Lies(buf, at, wrote[v])
      PROVE  level[at] = [val |-> mirror[v], next |-> at + Len(wrote[v])]
  <2>1. at \in DOMAIN buf
    <3>1. wrote[v] \in Seq(Bytes) /\ wrote[v] # <<>>
      BY <1>2
    <3> DEFINE s == wrote[v]
    <3>2. s \in Seq(Bytes) /\ s # <<>>
      BY <3>1
    <3>3. Lies(buf, at, s)
      BY <1>3
    <3> HIDE DEF s
    <3>4. 1 \in 1..Len(s) /\ at + 1 - 1 = at
      BY <3>2
    <3> QED
      BY <3>3, <3>4 DEF Lies
  <2>2. level[at] = Deserialize(buf, at, read) /\ mirror[v] = Mirror(v, turn)
    BY <2>1
  <2>3. Lies(buf, at, Serialize(v, bits))
    BY <1>2, <1>3, Zenon
  <2>4. Deserialize(buf, at, read) = [val |-> Mirror(v, turn), next |-> at + Len(Serialize(v, bits))]
    BY <2>3, LevelReads
  <2> QED
    BY <1>2, <2>2, <2>4, Zenon
<1>4. Written(Composed(V), wrote)
  BY <1>2 DEF Written
<1>5. ASSUME NEW v \in Composed(V)
      PROVE  mirror[v].type = v.type /\ (v \in Keyed => mirror[v] = v)
  BY <1>5, MirrorKeeps, Zenon
<1> QED
  BY <1>3, <1>4, <1>5, Zenon DEF Reads

(* Before there is anything to nest, nothing is asked of the level below.  *)
LEMMA NothingRead ==
    ASSUME NEW buf
    PROVE  Reads(buf, {}, <<>>, <<>>, <<>>)
BY DEF Reads, Written

(* A variable without parts has none of any level.                         *)
LEMMA SimpleIsComposed == Simple \subseteq Composed({})
BY DEF Composed

(* With nothing below, what is written and read of the simple values.      *)
LEMMA FirstLevel ==
    ASSUME NEW buf
    PROVE  Reads(buf, Layer[0], Serialized[0], Mirrored[0], Deserialized(buf)[0])
<1> DEFINE wrote == [v \in Composed({}) |-> Serialize(v, <<>>)]
           mirror == [v \in Composed({}) |-> Mirror(v, <<>>)]
           level == [at \in DOMAIN buf |-> Deserialize(buf, at, <<>>)]
<1>1. Reads(buf, Composed({}), wrote, mirror, level)
  BY NothingRead, LevelStep
<1>2. 0 \in 0..Depth
  BY DepthAssumption
<1>3. Layer[0] = Simple
  BY <1>2, LayerIs
<1>4. ASSUME NEW v \in Layer[0]
      PROVE  v \in Composed({}) /\ Serialized[0][v] = wrote[v] /\ Mirrored[0][v] = mirror[v]
  <2>1. v \in Composed({})
    BY <1>3, SimpleIsComposed
  <2>2. Serialized[0] = [w \in Layer[0] |-> Serialize(w, <<>>)]
    BY <1>2, SerializedIs
  <2>3. Mirrored[0] = [w \in Layer[0] |-> Mirror(w, <<>>)]
    BY <1>2, MirroredIs
  <2> QED
    BY <2>1, <2>2, <2>3
<1>5. Deserialized(buf)[0] = level
  <2>1. \A n \in 0..Depth : Deserialized(buf)[n] =
           [at \in DOMAIN buf |->
               Deserialize(buf, at, IF n = 0 THEN <<>> ELSE Deserialized(buf)[n - 1])]
    BY DeserializedIs, Zenon
  <2> QED
    BY <1>2, <2>1
<1> HIDE DEF wrote, mirror, level
<1> QED
  BY <1>1, <1>4, <1>5, Zenon DEF Reads, Written

(* All of it, at every level.                                              *)
LEMMA EveryLevel ==
    ASSUME NEW buf, NEW n \in 0..Depth
    PROVE  Reads(buf, Layer[n], Serialized[n], Mirrored[n], Deserialized(buf)[n])
<1> DEFINE Q(m) == Reads(buf, Layer[m], Serialized[m], Mirrored[m], Deserialized(buf)[m])
           T == {m \in Nat : m \in 0..Depth => Q(m)}
<1>1. 0 \in T
  BY FirstLevel
<1>2. ASSUME NEW m \in T, m + 1 \in 0..Depth PROVE Q(m + 1)
  <2>1. m \in 0..Depth /\ Q(m) /\ m + 1 # 0 /\ (m + 1) - 1 = m
    <3>1. m \in Nat /\ (m \in 0..Depth => Q(m))
      OBVIOUS
    <3> HIDE DEF Q
    <3>2. m \in 0..Depth /\ m + 1 # 0 /\ (m + 1) - 1 = m
      BY <1>2, <3>1, DepthAssumption
    <3> QED
      BY <3>1, <3>2
  <2> DEFINE k == m + 1
  <2>2. k \in 0..Depth /\ k # 0 /\ k - 1 = m
    BY <1>2, <2>1
  <2>3. Reads(buf, Layer[m], Serialized[m], Mirrored[m], Deserialized(buf)[m])
    BY <2>1
  <2> HIDE DEF k, Q
  <2>4. Layer[k] = Composed(Layer[m])
    BY <2>2, LayerIs
  <2>5. Serialized[k] = [v \in Composed(Layer[m]) |-> Serialize(v, Serialized[m])]
    BY <2>2, <2>4, SerializedIs
  <2>6. Mirrored[k] = [v \in Composed(Layer[m]) |-> Mirror(v, Mirrored[m])]
    BY <2>2, <2>4, MirroredIs
  <2>7. Deserialized(buf)[k] = [at \in DOMAIN buf |-> Deserialize(buf, at, Deserialized(buf)[m])]
    <3>1. \A i \in 0..Depth : Deserialized(buf)[i] =
             [at \in DOMAIN buf |->
                 Deserialize(buf, at, IF i = 0 THEN <<>> ELSE Deserialized(buf)[i - 1])]
      BY DeserializedIs, Zenon
    <3> QED
      BY <2>2, <3>1
  <2>8. Reads(buf, Composed(Layer[m]), Serialized[k], Mirrored[k], Deserialized(buf)[k])
    BY <2>3, <2>5, <2>6, <2>7, LevelStep
  <2>9. Reads(buf, Layer[k], Serialized[k], Mirrored[k], Deserialized(buf)[k])
    BY <2>4, <2>8, Zenon
  <2> QED
    BY <2>9 DEF k, Q
<1>3. ASSUME NEW m \in T PROVE m + 1 \in T
  <2>1. m + 1 \in Nat
    OBVIOUS
  <2>2. m + 1 \in 0..Depth => Q(m + 1)
    BY <1>2
  <2> HIDE DEF Q
  <2> QED
    BY <2>1, <2>2
<1>4. T = Nat
  <2>1. T \in SUBSET Nat
    OBVIOUS
  <2> HIDE DEF T
  <2> QED
    BY <1>1, <1>3, <2>1, AllNumbers
<1>5. n \in T
  <2> HIDE DEF T
  <2> QED
    BY <1>4, DepthAssumption
<1> QED
  <2>1. n \in 0..Depth => Q(n)
    <3> HIDE DEF Q
    <3> QED
      BY <1>5
  <2> QED
    BY <2>1

(* variable_deserialize reads back what variable_serialize has written:    *)
(* whatever variable it is, to whatever depth its lists, pairs and closures *)
(* are nested, and wherever in whatever stream it lies, the variable comes  *)
(* back, its dics turned round, and the place after its last byte with it. *)
THEOREM ReadsBack ==
    ASSUME NEW v \in Layer[Depth], NEW buf, NEW at \in Nat, Lies(buf, at, VariableSerialize(v))
    PROVE  VariableDeserialize(buf, at) =
              [val |-> Mirrored[Depth][v], next |-> at + Len(VariableSerialize(v))]
<1>1. Depth \in 0..Depth
  BY DepthAssumption
<1>2. Reads(buf, Layer[Depth], Serialized[Depth], Mirrored[Depth], Deserialized(buf)[Depth])
  BY <1>1, EveryLevel
<1>3. Lies(buf, at, Serialized[Depth][v])
  BY DEF VariableSerialize
<1>4. Deserialized(buf)[Depth][at] =
         [val |-> Mirrored[Depth][v], next |-> at + Len(Serialized[Depth][v])]
  BY <1>2, <1>3, Zenon DEF Reads
<1> QED
  BY <1>4 DEF VariableDeserialize, VariableSerialize

(* What is written of a variable is a sequence of bytes.                   *)
LEMMA BytesOf ==
    ASSUME NEW v \in Layer[Depth]
    PROVE  VariableSerialize(v) \in Seq(Bytes) /\ VariableSerialize(v) # <<>>
<1>1. Depth \in 0..Depth
  BY DepthAssumption
<1>2. Reads(<<>>, Layer[Depth], Serialized[Depth], Mirrored[Depth], Deserialized(<<>>)[Depth])
  BY <1>1, EveryLevel
<1> QED
  BY <1>2, Zenon DEF Reads, Written, VariableSerialize
==============================================================================
